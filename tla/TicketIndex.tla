----------------------------- MODULE TicketIndex -----------------------------
(***************************************************************************)
(* The BFF's ticket store over many sessions (RedisTicketStore): tickets   *)
(* under their session keys, and for each Keycloak session id (sid) the    *)
(* set of keys back-channel logout will delete.  Around it, the requests   *)
(* that change it: the sign-in callback behind SessionFixationGuard, the   *)
(* sign-out of a session, and POST /bff/backchannel-logout.                *)
(*                                                                         *)
(* Each action is one await: a Redis command, a Redis transaction          *)
(* (MULTI/EXEC, atomic) or the code exchange at Keycloak.  A token         *)
(* write-back (TryUpdateTokensAsync) changes neither whose ticket a key    *)
(* holds nor the index; TokenRefresh has it.                               *)
(***************************************************************************)
CONSTANTS Requests,  \* concurrent requests of browsers: callbacks, sign-outs
          Calls,     \* concurrent back-channel logout calls of Keycloak
          Keys,      \* the session keys GenerateSessionKey can still mint
          Sids,      \* Keycloak session ids
          NoKey, NoSid, Absent,
          Faults     \* the failures the environment may produce

(* "read"    a ticket read fails or times out (RetrieveAsync gives null)   *)
(* "write"   a transaction throws, applied or not                          *)
(* "keyring" a cookie no longer unprotects                                 *)
FaultKinds == {"read", "write", "keyring"}

ASSUME ConstantsAssumption ==
  /\ Requests \cap Calls = {}
  /\ NoKey \notin Keys
  /\ NoSid \notin Sids /\ Absent \notin Sids /\ NoSid # Absent
ASSUME FaultsAssumption == Faults \subseteq FaultKinds

VARIABLES
  ticket,   \* whose ticket each key holds, Absent when the key is not set
  index,    \* the members of each sid's set
  minted,   \* keys GenerateSessionKey has returned
  issued,   \* keys a browser has been given in a cookie
  alive,    \* sids whose Keycloak session exists
  pc,       \* where each request and call is
  header,   \* the session key the request's Cookie header still carries
  resumed,  \* the key the cookie handler resolved for this request
  sid,      \* the sid this request or call works on
  members,  \* the keys a back-channel call read from the index
  late      \* history: keys stored while a logout of their sid was between
            \* its read and its delete

vars == <<ticket, index, minted, issued, alive, pc, header, resumed, sid, members, late>>

Procs == Requests \cup Calls
Owners == Sids \cup {NoSid}

Steps == {"idle", "guardRead", "guardDelete", "exchange", "ensure", "store",
          "signOutRead", "signOutDelete", "smembers", "removeAll"}

TypeOK ==
  /\ ticket \in [Keys -> Owners \cup {Absent}]
  /\ index \in [Sids -> SUBSET Keys]
  /\ minted \subseteq Keys
  /\ issued \subseteq minted
  /\ alive \subseteq Sids
  /\ pc \in [Procs -> Steps]
  /\ header \in [Requests -> Keys \cup {NoKey}]
  /\ resumed \in [Requests -> Keys \cup {NoKey}]
  /\ sid \in [Procs -> Owners]
  /\ members \in [Calls -> SUBSET Keys]
  /\ late \subseteq Keys

Init ==
  /\ ticket = [k \in Keys |-> Absent]
  /\ index = [s \in Sids |-> {}]
  /\ minted = {}
  /\ issued = {}
  /\ alive = Sids
  /\ pc = [p \in Procs |-> "idle"]
  /\ header = [r \in Requests |-> NoKey]
  /\ resumed = [r \in Requests |-> NoKey]
  /\ sid = [p \in Procs |-> NoSid]
  /\ members = [c \in Calls |-> {}]
  /\ late = {}

-----------------------------------------------------------------------------
Live(k) == k \in Keys /\ ticket[k] # Absent

(* The owners RetrieveAsync can report for key k; Absent stands for null.  *)
Retrieve(k) == {ticket[k]} \cup (IF "read" \in Faults THEN {Absent} ELSE {})

(* SADD of the key to its sid's set; a ticket without a sid has no set.    *)
SetAdd(s, k) ==
  IF s \in Sids THEN [index EXCEPT ![s] = @ \cup {k}] ELSE index

(* SREM, when the read found out which set to pull the key from.           *)
SetRemove(s, k) ==
  IF s \in Sids THEN [index EXCEPT ![s] = @ \ {k}] ELSE index

Goto(p, step) == pc' = [pc EXCEPT ![p] = step]

(* The response is written; what the request knew is gone with it.         *)
Respond(r) ==
  /\ Goto(r, "idle")
  /\ header' = [header EXCEPT ![r] = NoKey]
  /\ resumed' = [resumed EXCEPT ![r] = NoKey]
  /\ sid' = [sid EXCEPT ![r] = NoSid]

-----------------------------------------------------------------------------
(* Mutant of GuardApplies: the callback without the fixation guard.        *)
NoGuard(k) == FALSE
(* SessionFixationGuard acts on a callback that carries a session cookie.  *)
GuardApplies(k) == k # NoKey

(* A sign-in callback arrives, with no cookie or with any cookie a browser *)
(* was ever given.                                                         *)
StartCallback(r) ==
  /\ pc[r] = "idle"
  /\ \E k \in issued \cup {NoKey} :
       /\ header' = [header EXCEPT ![r] = k]
       /\ \/ GuardApplies(k) /\ Goto(r, "guardRead")
          \/ ~GuardApplies(k) /\ Goto(r, "exchange")
  /\ UNCHANGED <<ticket, index, minted, issued, alive, resumed, sid, members, late>>

(* A cookie that does not unprotect names no session: it is stripped only. *)
GuardSkips(r) ==
  /\ "keyring" \in Faults
  /\ pc[r] = "guardRead"
  /\ header' = [header EXCEPT ![r] = NoKey]
  /\ Goto(r, "exchange")
  /\ UNCHANGED <<ticket, index, minted, issued, alive, resumed, sid, members, late>>

(* An authenticated request signs its session out (logout, SessionEnded).  *)
StartSignOut(r) ==
  /\ pc[r] = "idle"
  /\ \E k \in issued :
       /\ Live(k)
       /\ header' = [header EXCEPT ![r] = k]
  /\ Goto(r, "signOutRead")
  /\ UNCHANGED <<ticket, index, minted, issued, alive, resumed, sid, members, late>>

(* RemoveAsync, first half: the read that finds the sid, best effort.      *)
RemoveRead(r) ==
  /\ \/ pc[r] = "guardRead" /\ Goto(r, "guardDelete")
     \/ pc[r] = "signOutRead" /\ Goto(r, "signOutDelete")
  /\ \E o \in Retrieve(header[r]) :
       sid' = [sid EXCEPT ![r] = IF o = Absent THEN NoSid ELSE o]
  /\ UNCHANGED <<ticket, index, minted, issued, alive, header, resumed, members, late>>

(* RemoveAsync, second half: one transaction.  Behind the guard the        *)
(* request goes on with its cookie stripped.                               *)
RemoveDelete(r) ==
  /\ pc[r] \in {"guardDelete", "signOutDelete"}
  /\ ticket' = [ticket EXCEPT ![header[r]] = Absent]
  /\ index' = SetRemove(sid[r], header[r])
  /\ \/ /\ pc[r] = "guardDelete"
        /\ Goto(r, "exchange")
        /\ header' = [header EXCEPT ![r] = NoKey]
        /\ sid' = [sid EXCEPT ![r] = NoSid]
        /\ UNCHANGED resumed
     \/ /\ pc[r] = "signOutDelete"
        /\ Respond(r)
  /\ UNCHANGED <<minted, issued, alive, members, late>>

(* The transaction throws, before or after Redis applied it: a 500.        *)
RemoveFails(r) ==
  /\ "write" \in Faults
  /\ pc[r] \in {"guardDelete", "signOutDelete"}
  /\ \/ UNCHANGED <<ticket, index>>
     \/ /\ ticket' = [ticket EXCEPT ![header[r]] = Absent]
        /\ index' = SetRemove(sid[r], header[r])
  /\ Respond(r)
  /\ UNCHANGED <<minted, issued, alive, members, late>>

(* The OIDC handler redeems the code: Keycloak names the sid of a session  *)
(* it has, or the ID token carries none.                                   *)
CodeExchange(r) ==
  /\ pc[r] = "exchange"
  /\ \E s \in alive \cup {NoSid} : sid' = [sid EXCEPT ![r] = s]
  /\ Goto(r, "ensure")
  /\ UNCHANGED <<ticket, index, minted, issued, alive, header, resumed, members, late>>

(* Keycloak rejects the code, or the user never finishes: no sign-in.      *)
ExchangeFails(r) ==
  /\ pc[r] = "exchange"
  /\ Respond(r)
  /\ UNCHANGED <<ticket, index, minted, issued, alive, members, late>>

(* The cookie handler's SignInAsync first reads the request's own cookie:  *)
(* a session it finds would be renewed in place (dotnet/aspnetcore#22135). *)
EnsureCookieTicket(r) ==
  /\ pc[r] = "ensure"
  /\ resumed' = [resumed EXCEPT ![r] = IF Live(header[r]) THEN header[r] ELSE NoKey]
  /\ Goto(r, "store")
  /\ UNCHANGED <<ticket, index, minted, issued, alive, header, sid, members, late>>

(* RenewAsync writes under the resumed key, StoreAsync under a fresh one;  *)
(* the transaction is the same.                                            *)
SessionKey(r) == IF resumed[r] # NoKey THEN {resumed[r]} ELSE Keys \ minted

(* Is a back-channel logout of s between its read and its delete?  The     *)
(* code does not ask: it only decides what the history variable records.   *)
BeingLoggedOut(s) == \E c \in Calls : pc[c] = "removeAll" /\ sid[c] = s

WriteTicket(r, k) ==
  /\ ticket' = [ticket EXCEPT ![k] = sid[r]]
  /\ index' = SetAdd(sid[r], k)
  /\ minted' = minted \cup {k}
  /\ late' = IF BeingLoggedOut(sid[r]) THEN late \cup {k} ELSE late

Store(r) ==
  /\ pc[r] = "store"
  /\ \E k \in SessionKey(r) :
       /\ WriteTicket(r, k)
       /\ issued' = issued \cup {k}
  /\ Respond(r)
  /\ UNCHANGED <<alive, members>>

(* The transaction throws: no cookie, though Redis may hold the ticket.    *)
StoreFails(r) ==
  /\ "write" \in Faults
  /\ pc[r] = "store"
  /\ \/ UNCHANGED <<ticket, index, minted, late>>
     \/ \E k \in SessionKey(r) : WriteTicket(r, k)
  /\ Respond(r)
  /\ UNCHANGED <<issued, alive, members>>

-----------------------------------------------------------------------------
(* Keycloak ends a session: user, admin, time-out.                         *)
KeycloakEnds(s) ==
  /\ s \in alive
  /\ alive' = alive \ {s}
  /\ UNCHANGED <<ticket, index, minted, issued, pc, header, resumed, sid, members, late>>

(* Mutant of StartBackchannel: an ID token passes for a logout token.      *)
AcceptsIdToken(c) ==
  /\ pc[c] = "idle"
  /\ \E s \in Sids : sid' = [sid EXCEPT ![c] = s]
  /\ Goto(c, "smembers")
  /\ UNCHANGED <<ticket, index, minted, issued, alive, header, resumed, members, late>>

(* A valid logout token for an ended session, first sent or replayed.      *)
StartBackchannel(c) ==
  /\ pc[c] = "idle"
  /\ \E s \in Sids \ alive : sid' = [sid EXCEPT ![c] = s]
  /\ Goto(c, "smembers")
  /\ UNCHANGED <<ticket, index, minted, issued, alive, header, resumed, members, late>>

Answer(c) ==
  /\ Goto(c, "idle")
  /\ sid' = [sid EXCEPT ![c] = NoSid]
  /\ members' = [members EXCEPT ![c] = {}]

(* RemoveAllForSessionIdAsync, first half: SMEMBERS, or it throws.         *)
SMembers(c) ==
  /\ pc[c] = "smembers"
  /\ \/ /\ index[sid[c]] # {}
        /\ members' = [members EXCEPT ![c] = index[sid[c]]]
        /\ Goto(c, "removeAll")
        /\ UNCHANGED sid
     \/ /\ index[sid[c]] = {} \/ "read" \in Faults
        /\ Answer(c)
  /\ UNCHANGED <<ticket, index, minted, issued, alive, header, resumed, late>>

(* Mutant of DeleteMembers: only the set is deleted.                       *)
DeleteSetOnly(ks) == ticket
DeleteMembers(ks) == [k \in Keys |-> IF k \in ks THEN Absent ELSE ticket[k]]

(* Second half: one transaction deletes the tickets read and the set.      *)
RemoveAll(c) ==
  /\ pc[c] = "removeAll"
  /\ ticket' = DeleteMembers(members[c])
  /\ index' = [index EXCEPT ![sid[c]] = {}]
  /\ Answer(c)
  /\ UNCHANGED <<minted, issued, alive, header, resumed, late>>

(* It throws with nothing applied (a 500; applied and thrown looks like    *)
(* RemoveAll from here).                                                   *)
RemoveAllFails(c) ==
  /\ "write" \in Faults
  /\ pc[c] = "removeAll"
  /\ Answer(c)
  /\ UNCHANGED <<ticket, index, minted, issued, alive, header, resumed, late>>

(* A ticket reaches its absolute expiration.                               *)
TicketExpires(k) ==
  /\ Live(k)
  /\ ticket' = [ticket EXCEPT ![k] = Absent]
  /\ UNCHANGED <<index, minted, issued, alive, pc, header, resumed, sid, members, late>>

(* A sid's set expires: every Store gives it the TTL of its own ticket, so *)
(* it outlives the tickets it names.                                       *)
IndexExpires(s) ==
  /\ index[s] # {}
  /\ \A k \in Keys : ticket[k] # s
  /\ index' = [index EXCEPT ![s] = {}]
  /\ UNCHANGED <<ticket, minted, issued, alive, pc, header, resumed, sid, members, late>>

-----------------------------------------------------------------------------
RequestStep(r) ==
  \/ StartCallback(r) \/ GuardSkips(r) \/ StartSignOut(r)
  \/ RemoveRead(r) \/ RemoveDelete(r) \/ RemoveFails(r)
  \/ CodeExchange(r) \/ ExchangeFails(r) \/ EnsureCookieTicket(r)
  \/ Store(r) \/ StoreFails(r)

CallStep(c) ==
  StartBackchannel(c) \/ SMembers(c) \/ RemoveAll(c) \/ RemoveAllFails(c)

Next ==
  \/ \E r \in Requests : RequestStep(r)
  \/ \E c \in Calls : CallStep(c)
  \/ \E s \in Sids : KeycloakEnds(s) \/ IndexExpires(s)
  \/ \E k \in Keys : TicketExpires(k)

Spec == Init /\ [][Next]_vars

-----------------------------------------------------------------------------
(***************************************************************************)
(* Properties                                                              *)
(***************************************************************************)

(* G4-18-05 and T-09: whose session a key holds never changes, and a key   *)
(* that was deleted never holds one again.  A sign-in always gets a key    *)
(* of its own, whatever cookie its callback carried.                       *)
KeyIdentityStable ==
  [][ \A k \in minted : ticket'[k] \in {ticket[k], Absent} ]_vars

(* Back-channel logout of a sid can only reach tickets of that sid: stale  *)
(* members left by a RemoveAsync whose read failed name dead keys only,    *)
(* also in the set a call has already read.                                *)
IndexNamesOwnSid ==
  /\ \A s \in Sids : \A k \in index[s] : ticket[k] \in {s, Absent}
  /\ \A c \in Calls : \A k \in members[c] : ticket[k] \in {sid[c], Absent}

(* Back-channel logout can find every ticket with a sid, whatever reads    *)
(* and writes failed; the only tickets missing from their sid's set were   *)
(* stored between the two steps of a logout of that sid.                   *)
EveryTicketIndexed ==
  \A k \in Keys : ticket[k] \in Sids => k \in index[ticket[k]] \/ k \in late

(* A ticket no logout will find belongs to a session Keycloak has ended:   *)
(* the first logout token of a sid is validated after the session's end,   *)
(* so none of its tickets is lost before, and a lost one can no longer be  *)
(* refreshed.                                                              *)
LostTicketsAreEnded ==
  \A k \in Keys : ticket[k] \in alive => k \in index[ticket[k]]

(* RemoveAllForSessionIdAsync "deletes every ticket indexed under sid":    *)
(* when a sid's set is deleted, no ticket it named is left.  Violated: a   *)
(* sign-in may add a ticket between the read of the set and the delete.    *)
LogoutLeavesNoTicket ==
  [][ \A s \in Sids : index[s] # {} /\ index'[s] = {} =>
        \A k \in index[s] : ticket'[k] = Absent ]_vars
=============================================================================
