----------------------------- MODULE TenantScope -----------------------------
(***************************************************************************)
(* Who the API works for.  A DI scope serves one HTTP request or one       *)
(* message; its RequestCaller is set once, from the validated access token *)
(* (CallerContextMiddleware) or from the envelope (EnvelopeTenantMiddle-   *)
(* ware).  The scope sends messages through EnvelopeTenantStamp and reads  *)
(* and writes rows through a TenantDbContext.                              *)
(*                                                                         *)
(* The code behind the pipeline is any code at all: it may add, attach,    *)
(* change and remove entities with any tenant id, and send with any        *)
(* delivery options.  The guards have to hold against it.  An exception    *)
(* changes nothing but the response; the scope then closes.                *)
(***************************************************************************)
CONSTANTS Scopes,      \* DI scopes, of all requests and messages
          Messages,    \* envelopes under way
          Users,       \* subjects of access tokens
          Acceptable,  \* the ones IsAcceptableCallerId accepts
          Tenants,     \* tenant ids
          Ids,         \* primary keys of rows
          None,        \* no tenant: the claim or the envelope tenant is absent
          Invalid,     \* malformed, ambiguous or never set
          NoUser, NoRow, NoScope,
          Untenanted   \* default(TenantId)

ASSUME ValuesAssumption ==
  /\ Acceptable \subseteq Users
  /\ {None, Invalid, NoRow, Untenanted} \cap Tenants = {}
  /\ None # Invalid /\ NoUser \notin Users /\ NoScope \notin Scopes

VARIABLES
  open,      \* scopes that exist
  caller,    \* each scope's RequestCaller
  origin,    \* history: for whom the scope was really opened
  tracked,   \* the change tracker of the scope's context
  rows,      \* tenant_id of each committed row, NoRow if there is none
  mpc,       \* where each message is
  envelope,  \* the tenant and caller id it carries
  from,      \* history: for whom the sending scope was opened
  at         \* the scope whose handler runs the message

scopes == <<open, caller, origin>>
messages == <<mpc, envelope, from, at>>
vars == <<scopes, tracked, rows, messages>>

Resolutions == Tenants \cup {None, Invalid}
Parties == [tenant : Resolutions, user : Users \cup {NoUser}]
Claims == [sub : Users \cup {NoUser}, tenant : Resolutions,
           admin : BOOLEAN, mfa : BOOLEAN]
(* A caller with the admin fact has no tenant.                             *)
Callers == {c \in [res : Resolutions, user : Users \cup {NoUser},
                   admin : BOOLEAN, mfa : BOOLEAN] : c.admin => c.res = None}
Entries == [state : {"detached", "added", "unchanged", "modified", "deleted"},
            orig : Tenants \cup {Untenanted}, cur : Tenants \cup {Untenanted}]

(* RequestCaller before Set: default(TenantResolution) fails closed.       *)
Unset == [res |-> Invalid, user |-> NoUser, admin |-> FALSE, mfa |-> FALSE]
Nobody == [tenant |-> Invalid, user |-> NoUser]
Detached == [state |-> "detached", orig |-> Untenanted, cur |-> Untenanted]

TypeOK ==
  /\ open \subseteq Scopes
  /\ caller \in [Scopes -> Callers]
  /\ origin \in [Scopes -> Parties]
  /\ tracked \in [Scopes -> [Ids -> Entries]]
  /\ rows \in [Ids -> Tenants \cup {NoRow}]
  /\ mpc \in [Messages -> {"none", "sent", "handled"}]
  /\ envelope \in [Messages -> Parties]
  /\ from \in [Messages -> Parties]
  /\ at \in [Messages -> Scopes \cup {NoScope}]

Init ==
  /\ open = {}
  /\ caller = [s \in Scopes |-> Unset]
  /\ origin = [s \in Scopes |-> Nobody]
  /\ tracked = [s \in Scopes |-> [i \in Ids |-> Detached]]
  /\ rows = [i \in Ids |-> NoRow]
  /\ mpc = [m \in Messages |-> "none"]
  /\ envelope = [m \in Messages |-> Nobody]
  /\ from = [m \in Messages |-> Nobody]
  /\ at = [m \in Messages |-> NoScope]

-----------------------------------------------------------------------------
(* CallerIdentity.From and TenantResolution.FromClaim; otherwise 403.      *)
Identified(c) == c.sub # NoUser /\ c.tenant # Invalid

(* RequestCaller.Set: the admin fact needs a caller without a tenant.      *)
Set(res, user, admin, mfa) ==
  [res |-> res, user |-> user, admin |-> admin /\ res = None, mfa |-> mfa]

(* An authenticated request passes CallerContextMiddleware.                *)
StartRequest(s) ==
  /\ s \notin open
  /\ open' = open \cup {s}
  /\ \E c \in Claims :
       /\ Identified(c)
       /\ caller' = [caller EXCEPT ![s] = Set(c.tenant, c.sub, c.admin, c.mfa)]
       /\ origin' = [origin EXCEPT ![s] = [tenant |-> c.tenant, user |-> c.sub]]
  /\ UNCHANGED <<tracked, rows, messages>>

(* An anonymous one passes without a caller.                               *)
StartAnonymous(s) ==
  /\ s \notin open
  /\ open' = open \cup {s}
  /\ UNCHANGED <<caller, origin, tracked, rows, messages>>

(* The scope is disposed, with its context and its caller.                 *)
CloseScope(s) ==
  /\ s \in open
  /\ \A m \in Messages : at[m] # s
  /\ open' = open \ {s}
  /\ caller' = [caller EXCEPT ![s] = Unset]
  /\ origin' = [origin EXCEPT ![s] = Nobody]
  /\ tracked' = [tracked EXCEPT ![s] = [i \in Ids |-> Detached]]
  /\ UNCHANGED <<rows, messages>>

-----------------------------------------------------------------------------
(* Mutant of Stamp: a tenant the sender already put there is kept.         *)
StampMissing(s, options) ==
  [options EXCEPT !.user = caller[s].user,
                  !.tenant = IF @ = None THEN caller[s].res ELSE @]
(* The stamp overwrites whatever the delivery options carry.               *)
Stamp(s, options) ==
  [options EXCEPT !.user = caller[s].user, !.tenant = caller[s].res]

(* IMessageBus of the scope: no ambient tenant, no message.                *)
Send(s, m) ==
  /\ s \in open /\ mpc[m] = "none"
  /\ caller[s].res \in Tenants
  /\ \E options \in Parties :
       envelope' = [envelope EXCEPT ![m] = Stamp(s, options)]
  /\ from' = [from EXCEPT ![m] = origin[s]]
  /\ mpc' = [mpc EXCEPT ![m] = "sent"]
  /\ UNCHANGED <<scopes, tracked, rows, at>>

(* Wolverine's own bus, which carries no stamp: the tenant is the one of a *)
(* message being handled in the scope, if any, and there is no caller id.  *)
SendUnstamped(s, m) ==
  /\ s \in open /\ mpc[m] = "none"
  /\ \E t \in {None} \cup {envelope[n].tenant : n \in {q \in Messages : at[q] = s}} :
       envelope' = [envelope EXCEPT ![m] = [tenant |-> t, user |-> NoUser]]
  /\ from' = [from EXCEPT ![m] = origin[s]]
  /\ mpc' = [mpc EXCEPT ![m] = "sent"]
  /\ UNCHANGED <<scopes, tracked, rows, at>>

(* EnvelopeFacts: TryReadTenant and TryReadCaller.                         *)
Readable(e) == e.tenant \in Tenants /\ e.user \in Acceptable

(* Mutant of SameCaller: a scope with the MFA fact serves a message.       *)
SameTenantAndUser(s, e) == caller[s].res = e.tenant /\ caller[s].user = e.user
SameCaller(s, e) ==
  /\ caller[s].res = e.tenant /\ caller[s].user = e.user
  /\ ~caller[s].admin /\ ~caller[s].mfa

Stopped(m) ==
  /\ mpc' = [mpc EXCEPT ![m] = "none"]
  /\ envelope' = [envelope EXCEPT ![m] = Nobody]
  /\ from' = [from EXCEPT ![m] = Nobody]
  /\ at' = [at EXCEPT ![m] = NoScope]

(* EnvelopeTenantMiddleware.Before, in whichever scope Wolverine runs the  *)
(* handler: a fresh one gets its caller from the envelope ...              *)
ReceiveFresh(m, s) ==
  /\ mpc[m] = "sent"
  /\ Readable(envelope[m])
  /\ caller[s].res = Invalid
  /\ open' = open \cup {s}
  /\ caller' = [caller EXCEPT ![s] =
                  Set(envelope[m].tenant, envelope[m].user, FALSE, FALSE)]
  /\ origin' = [origin EXCEPT ![s] = from[m]]
  /\ mpc' = [mpc EXCEPT ![m] = "handled"]
  /\ at' = [at EXCEPT ![m] = s]
  /\ UNCHANGED <<tracked, rows, envelope, from>>

(* ... one that has a caller must have this very one ...                   *)
ReceiveReused(m, s) ==
  /\ mpc[m] = "sent"
  /\ Readable(envelope[m])
  /\ caller[s].res # Invalid
  /\ SameCaller(s, envelope[m])
  /\ mpc' = [mpc EXCEPT ![m] = "handled"]
  /\ at' = [at EXCEPT ![m] = s]
  /\ UNCHANGED <<scopes, tracked, rows, envelope, from>>

(* ... and anything else is refused: HandlerContinuation.Stop.             *)
Refuse(m, s) ==
  /\ mpc[m] = "sent"
  /\ \/ ~Readable(envelope[m])
     \/ caller[s].res # Invalid /\ ~SameCaller(s, envelope[m])
  /\ Stopped(m)
  /\ UNCHANGED <<scopes, tracked, rows>>

(* The handler returns or throws.                                          *)
HandlerEnds(m) ==
  /\ mpc[m] = "handled"
  /\ Stopped(m)
  /\ UNCHANGED <<scopes, tracked, rows>>

-----------------------------------------------------------------------------
Entry(s, i, e) == tracked' = [tracked EXCEPT ![s][i] = e]

(* The query filter compares tenant_id with the scope's tenant.  No tenant *)
(* is NULL, which equals nothing; an invalid one throws.                   *)
CurrentTenantFilter(s, i) == rows[i] = caller[s].res

Query(s, i) ==
  /\ s \in open
  /\ CurrentTenantFilter(s, i)
  /\ rows[i] # NoRow
  /\ tracked[s][i].state = "detached"
  /\ Entry(s, i, [state |-> "unchanged", orig |-> rows[i], cur |-> rows[i]])
  /\ UNCHANGED <<scopes, rows, messages>>

(* Add, or Update / Remove of an entity the code put together itself.      *)
Track(s, i) ==
  /\ s \in open
  /\ tracked[s][i].state = "detached"
  /\ \E t \in Tenants \cup {Untenanted} :
       \E e \in {[state |-> "added", orig |-> t, cur |-> t],
                 [state |-> "modified", orig |-> t, cur |-> t],
                 [state |-> "deleted", orig |-> t, cur |-> Untenanted]} :
         Entry(s, i, e)
  /\ UNCHANGED <<scopes, rows, messages>>

(* A change of a tracked entity; the entry lets it set the current and the *)
(* original value of TenantId too.                                         *)
Change(s, i) ==
  /\ s \in open
  /\ tracked[s][i].state \in {"unchanged", "modified"}
  /\ \E o, t \in Tenants \cup {Untenanted} :
       Entry(s, i, [state |-> "modified", orig |-> o, cur |-> t])
  /\ UNCHANGED <<scopes, rows, messages>>

(* The current value of a deleted entity is written nowhere.               *)
Remove(s, i) ==
  /\ s \in open
  /\ \/ /\ tracked[s][i].state \in {"unchanged", "modified"}
        /\ Entry(s, i, [state |-> "deleted", orig |-> tracked[s][i].orig,
                         cur |-> Untenanted])
     \/ /\ tracked[s][i].state = "added"
        /\ Entry(s, i, Detached)
  /\ UNCHANGED <<scopes, rows, messages>>

-----------------------------------------------------------------------------
Dirty(s) == {i \in Ids : tracked[s][i].state \in {"added", "modified", "deleted"}}

(* Mutant of Isolated: a changed TenantId is not noticed.                  *)
IsolatedBefore(s, e) ==
  /\ caller[s].res \in Tenants
  /\ e.state = "added" => e.cur = caller[s].res
  /\ e.state # "added" => e.orig = caller[s].res
(* One entry of EnforceTenantIsolation's loop.                             *)
Isolated(s, e) ==
  /\ caller[s].res # None
  /\ e.state = "added" => e.cur # Untenanted /\ e.cur = caller[s].res
  /\ e.state # "added" => e.orig = caller[s].res
  /\ e.state = "modified" => e.cur = e.orig

EnforceTenantIsolation(s) ==
  /\ caller[s].res # Invalid
  /\ \A i \in Dirty(s) : Isolated(s, tracked[s][i])

(* INSERT needs a free key; UPDATE and DELETE name the key and, TenantId   *)
(* being a concurrency token, the tenant id that was read or attached.     *)
RowFound(e, i) ==
  IF e.state = "added" THEN rows[i] = NoRow ELSE rows[i] = e.orig

Written(e) == IF e.state = "deleted" THEN NoRow ELSE e.cur

Accepted(e) ==
  IF e.state = "deleted" THEN Detached
  ELSE [state |-> "unchanged", orig |-> e.cur, cur |-> e.cur]

(* SaveChanges: the guard, then all statements in one transaction, or an   *)
(* exception and nothing.                                                  *)
SaveChanges(s) ==
  /\ s \in open
  /\ Dirty(s) # {}
  /\ EnforceTenantIsolation(s)
  /\ \A i \in Dirty(s) : RowFound(tracked[s][i], i)
  /\ rows' = [i \in Ids |->
       IF i \in Dirty(s) THEN Written(tracked[s][i]) ELSE rows[i]]
  /\ tracked' = [tracked EXCEPT ![s] = [i \in Ids |->
       IF i \in Dirty(s) THEN Accepted(tracked[s][i]) ELSE tracked[s][i]]]
  /\ UNCHANGED <<scopes, messages>>

-----------------------------------------------------------------------------
Next ==
  \/ \E s \in Scopes :
       StartRequest(s) \/ StartAnonymous(s) \/ CloseScope(s) \/ SaveChanges(s)
  \/ \E s \in Scopes, m \in Messages :
       \/ Send(s, m) \/ SendUnstamped(s, m)
       \/ ReceiveFresh(m, s) \/ ReceiveReused(m, s) \/ Refuse(m, s)
  \/ \E m \in Messages : HandlerEnds(m)
  \/ \E s \in Scopes, i \in Ids :
       Query(s, i) \/ Track(s, i) \/ Change(s, i) \/ Remove(s, i)

Spec == Init /\ [][Next]_vars

-----------------------------------------------------------------------------
(***************************************************************************)
(* Properties                                                              *)
(***************************************************************************)

(* The step reads or writes row i for scope s: the entity now stands for a *)
(* committed row, or its deletion was committed.                           *)
Reaches(s, i) ==
  /\ s \in open' /\ tracked'[s][i] # tracked[s][i]
  /\ tracked'[s][i].state = "unchanged" \/ tracked[s][i].state = "deleted"

(* Every row that is read, inserted, updated or deleted belongs to the     *)
(* tenant whose request asked for it, directly or through any chain of     *)
(* messages, whatever entities the code attaches.                          *)
OwnRowsOnly ==
  [][ \A s \in Scopes, i \in Ids : Reaches(s, i) =>
        {rows[i], rows'[i]} \subseteq {NoRow, origin[s].tenant} ]_vars

(* A row never changes its tenant.                                         *)
RowsKeepTheirTenant ==
  [][ \A i \in Ids : rows[i] # NoRow /\ rows'[i] # NoRow =>
        rows'[i] = rows[i] ]_vars

(* A handler runs as the caller whose scope sent the message, with no      *)
(* admin and no MFA fact, for as long as it runs.                          *)
HandlerRunsForSender ==
  \A m \in Messages : mpc[m] = "handled" =>
    /\ at[m] \in open
    /\ caller[at[m]].res = from[m].tenant
    /\ caller[at[m]].user = from[m].user
    /\ ~caller[at[m]].admin /\ ~caller[at[m]].mfa
=============================================================================
