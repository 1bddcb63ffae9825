---------------------------- MODULE TokenRefresh ----------------------------
(***************************************************************************)
(* One BFF session: its ticket in Redis, its refresh lock, the refresh     *)
(* token Keycloak rotates, and the requests of any number of BFF instances *)
(* that use them (AccessTokenProvider, AccessTokenMiddleware,              *)
(* RedisRefreshLock, KeycloakTokenClient and POST /bff/logout).            *)
(*                                                                         *)
(* Tokens are numbered in the order Keycloak issues them; 0 is "no token". *)
(* A process is one HTTP request; it is reused for the next one once it    *)
(* has been answered.  Each action is one await of the code: one Redis     *)
(* command or transaction, or one call to Keycloak.                        *)
(***************************************************************************)
EXTENDS Naturals

CONSTANTS Requests,   \* the concurrent /api requests
          Logouts,    \* the concurrent POST /bff/logout requests
          Free,       \* the refresh lock key does not exist
          Orphan,     \* the lock is taken and no process holds its handle
          Faults,     \* the failures the environment may produce
          MaxTokens   \* bound on the access tokens Keycloak issues

Procs == Requests \cup Logouts

(* "read"     a ticket read fails or times out (RetrieveAsync gives null)  *)
(* "write"    a ticket write or delete throws, applied or not              *)
(* "lock"     a lock command throws, applied or not                        *)
(* "ttl"      a lock outlives its TTL while its holder still works         *)
(* "timeout"  a call to Keycloak is given up while it is under way         *)
(* "crash"    the BFF instance serving a request dies                      *)
(* "halt"     the same, but not with a refresh at Keycloak under way       *)
(* "norotate" Keycloak's reply carries no new refresh token                *)
FaultKinds ==
  {"read", "write", "lock", "ttl", "timeout", "crash", "halt", "norotate"}

ASSUME ProcsAssumption ==
  /\ Requests \cap Logouts = {}
  /\ Free \notin Procs /\ Orphan \notin Procs /\ Free # Orphan
ASSUME FaultsAssumption == Faults \subseteq FaultKinds
ASSUME MaxTokensAssumption == MaxTokens \in Nat \ {0}

VARIABLES
  ticket,    \* the ticket's tokens in Redis, Gone when the key is absent
  expired,   \* access tokens within 30 s of expires_at, or past it
  lock,      \* value of the refresh-lock key
  kcAlive,   \* Keycloak still has the SSO session
  kcRt,      \* the refresh token Keycloak would accept
  kcAt,      \* the last access token Keycloak issued
  late,      \* refresh tokens of abandoned calls that may still arrive
  pc,        \* where each process is
  handle,    \* does the process hold a LockHandle?
  sent,      \* the refresh token the process sends to Keycloak
  reply,     \* the tokens Keycloak granted, Gone for invalid_grant
  result     \* what the work under the lock came to, until it is acted on

vars == <<ticket, expired, lock, kcAlive, kcRt, kcAt, late,
          pc, handle, sent, reply, result>>
store == <<ticket, expired>>
keycloak == <<kcAlive, kcRt, kcAt, late>>

Tokens == [at : Nat, rt : Nat]
Gone == [at |-> 0, rt |-> 0]

Steps == {"idle", "trying", "polling", "locked", "refreshing", "replied",
          "releasing", "signout",
          "logoutTrying", "logoutRead", "ending", "logoutDelete"}
Results == {"none", "token", "ended", "unavailable", "loggedOut", "error"}

TypeOK ==
  /\ ticket \in Tokens
  /\ expired \subseteq Nat
  /\ lock \in Procs \cup {Free, Orphan}
  /\ kcAlive \in BOOLEAN
  /\ kcRt \in Nat
  /\ kcAt \in Nat
  /\ late \subseteq Nat
  /\ pc \in [Procs -> Steps]
  /\ handle \in [Procs -> BOOLEAN]
  /\ sent \in [Procs -> Nat]
  /\ reply \in [Procs -> Tokens]
  /\ result \in [Procs -> Results]

(***************************************************************************)
(* A user has just signed in: the ticket carries the first access token    *)
(* and, unless Keycloak granted none, the first refresh token.             *)
(***************************************************************************)
Init ==
  /\ ticket \in {[at |-> 1, rt |-> 1], [at |-> 1, rt |-> 0]}
  /\ expired = {}
  /\ lock = Free
  /\ kcAlive = TRUE
  /\ kcRt = 1
  /\ kcAt = 1
  /\ late = {}
  /\ pc = [p \in Procs |-> "idle"]
  /\ handle = [p \in Procs |-> FALSE]
  /\ sent = [p \in Procs |-> 0]
  /\ reply = [p \in Procs |-> Gone]
  /\ result = [p \in Procs |-> "none"]

-----------------------------------------------------------------------------
(* What a ticket read can give: the ticket, or null when the key is gone   *)
(* and also when Redis fails, times out or the entry does not unprotect.   *)
Retrieve == IF "read" \in Faults THEN {ticket, Gone} ELSE {ticket}

IsFresh(t) == t.at # 0 /\ t.at \notin expired

(* Mutant of NeedsRefresh: the re-read under the lock skips IsFresh.       *)
RefreshesAnyway(t) == t.rt # 0
NeedsRefresh(t) == t.rt # 0 /\ ~IsFresh(t)

(* Mutant of TryUpdateTokens: the write without Condition.KeyExists.       *)
UpdateTokens(new) == new
(* The ticket after the conditional write.                                 *)
TryUpdateTokens(new) == IF ticket # Gone THEN new ELSE Gone

(* Mutant of ApplyRefreshedTokens: the rotated refresh token is dropped.   *)
ApplyAccessTokenOnly(granted) == [at |-> granted.at, rt |-> ticket.rt]
(* The tokens a refresh puts on the ticket it read.                        *)
ApplyRefreshedTokens(granted) == [at |-> granted.at, rt |-> granted.rt]

(* Mutant of LockAvailable: the lock key is set without NX.                *)
AlwaysAvailable == TRUE
(* LockTakeAsync sets the key only if it does not exist.                   *)
LockAvailable == lock = Free

(* Mutants of LockRelease: the key is deleted whatever its value is, and   *)
(* not at all.                                                             *)
LockDeleted(p) == Free
LockKept(p) == lock
(* The lock after LockReleaseAsync with p's value.                         *)
LockRelease(p) == IF lock = p THEN Free ELSE lock

Goto(p, step) == pc' = [pc EXCEPT ![p] = step]

(* The response is written; the process is free for another request.       *)
Respond(p) == Goto(p, "idle")

(* The work under the lock is over; DisposeAsync releases it next.         *)
Finish(p, r) ==
  /\ pc' = [pc EXCEPT ![p] = "releasing"]
  /\ result' = [result EXCEPT ![p] = r]

(* A lock command whose outcome the caller never learns: the key may be    *)
(* set with a value nobody will release.                                   *)
MaybeTaken == lock' \in (IF lock = Free THEN {Free, Orphan} ELSE {lock})

-----------------------------------------------------------------------------
(* AccessTokenProvider.GetAsync: the cookie handler's read of the ticket.  *)
StartRequest(r) ==
  /\ pc[r] = "idle"
  /\ \E t \in Retrieve :
       \/ /\ t = Gone
          /\ Respond(r)                            \* 401, ticket kept
       \/ /\ IsFresh(t)
          /\ Respond(r)                            \* forwarded
       \/ /\ t # Gone /\ ~IsFresh(t)
          /\ Goto(r, "trying")
  /\ UNCHANGED <<store, lock, keycloak, handle, sent, reply, result>>

(* One turn of the loop: TryAcquireAsync.                                  *)
TryAcquire(r) ==
  /\ pc[r] = "trying"
  /\ \/ /\ LockAvailable
        /\ lock' = r
        /\ handle' = [handle EXCEPT ![r] = TRUE]
        /\ Goto(r, "locked")
     \/ /\ ~LockAvailable
        /\ Goto(r, "polling")
        /\ UNCHANGED <<lock, handle>>
  /\ UNCHANGED <<store, keycloak, sent, reply, result>>

(* The 10 s wait ends, or the client goes away, before or while the lock   *)
(* command runs; or the command itself throws.                             *)
AcquireAborted(r) ==
  /\ pc[r] = "trying"
  /\ MaybeTaken
  /\ Respond(r)                                    \* 503 or 500
  /\ UNCHANGED <<store, keycloak, handle, sent, reply, result>>

(* Someone else holds the lock: after 100 ms look at the ticket again.     *)
Poll(r) ==
  /\ pc[r] = "polling"
  /\ \E t \in Retrieve :
       \/ /\ t = Gone
          /\ Goto(r, "signout")
       \/ /\ IsFresh(t)
          /\ Respond(r)                            \* forwarded
       \/ /\ t # Gone /\ ~IsFresh(t)
          /\ Goto(r, "trying")
  /\ UNCHANGED <<store, lock, keycloak, handle, sent, reply, result>>

(* Mutant of WaitTimesOut: the delay is not linked to the deadline.        *)
NeverTimesOut(r) == FALSE
(* The wait is cancelled during Task.Delay.                                *)
WaitTimesOut(r) ==
  /\ pc[r] = "polling"
  /\ Respond(r)                                    \* 503
  /\ UNCHANGED <<store, lock, keycloak, handle, sent, reply, result>>

(* RefreshUnderLockAsync up to the call to Keycloak.                       *)
RereadUnderLock(r) ==
  /\ pc[r] = "locked"
  /\ \E t \in Retrieve :
       \/ /\ t = Gone \/ (~IsFresh(t) /\ t.rt = 0)
          /\ Finish(r, "ended")
          /\ UNCHANGED sent
       \/ /\ IsFresh(t)
          /\ Finish(r, "token")
          /\ UNCHANGED sent
       \/ /\ NeedsRefresh(t)
          /\ sent' = [sent EXCEPT ![r] = t.rt]
          /\ Goto(r, "refreshing")
          /\ UNCHANGED result
  /\ UNCHANGED <<store, lock, keycloak, handle, reply>>

(* Keycloak grants a refresh: a new access token, and under the realm's    *)
(* strict rotation a new refresh token that supersedes the one sent.       *)
Grant ==
  /\ kcAt < MaxTokens
  /\ kcAt' = kcAt + 1
  /\ \/ kcRt' = kcRt + 1
     \/ "norotate" \in Faults /\ kcRt' = kcRt

(* Mutant of Accepts: a realm that lets refresh tokens be reused.          *)
AcceptsReuse(rt) == kcAlive /\ rt <= kcRt
(* Under refreshTokenMaxReuse 0 only the latest token is good.             *)
Accepts(rt) == kcAlive /\ rt = kcRt

(* Keycloak handles r's call; invalid_grant is reply Gone.                 *)
KeycloakRefresh(r) ==
  /\ pc[r] = "refreshing"
  /\ \/ /\ Accepts(sent[r])
        /\ Grant
        /\ reply' = [reply EXCEPT ![r] = [at |-> kcAt', rt |-> kcRt']]
     \/ /\ ~Accepts(sent[r])
        /\ reply' = [reply EXCEPT ![r] = Gone]
        /\ UNCHANGED <<kcAt, kcRt>>
  /\ Goto(r, "replied")
  /\ UNCHANGED <<store, lock, kcAlive, late, handle, sent, result>>

(* RefreshAsync gives Error with Keycloak's state untouched so far:        *)
(* discovery or transport failure, unexpected status, or a time-out whose  *)
(* POST may still arrive.                                                  *)
RefreshFails(r) ==
  /\ pc[r] = "refreshing"
  /\ \/ late' = late
     \/ "timeout" \in Faults /\ late' = late \cup {sent[r]}
  /\ Finish(r, "unavailable")
  /\ UNCHANGED <<store, lock, kcAlive, kcRt, kcAt, handle, sent, reply>>

(* RefreshAsync gives Error although Keycloak has answered: the time-out,  *)
(* a client that left, or a body that does not parse.                      *)
ReplyLost(r) ==
  /\ "timeout" \in Faults
  /\ pc[r] = "replied"
  /\ Finish(r, "unavailable")
  /\ reply' = [reply EXCEPT ![r] = Gone]
  /\ UNCHANGED <<store, lock, keycloak, handle, sent>>

(* An abandoned POST reaches Keycloak after all; nobody reads the answer.  *)
LateRefresh(z) ==
  /\ z \in late
  /\ late' = late \ {z}
  /\ \/ Accepts(z) /\ Grant
     \/ ~Accepts(z) /\ UNCHANGED <<kcAt, kcRt>>
  /\ UNCHANGED <<store, lock, kcAlive, pc, handle, sent, reply, result>>

(* ApplyRefreshedTokens and TryUpdateTokensAsync: the write happens only   *)
(* if the ticket's key still exists.                                       *)
WriteBack(r) ==
  /\ pc[r] = "replied" /\ reply[r] # Gone
  /\ ticket' = TryUpdateTokens(ApplyRefreshedTokens(reply[r]))
  /\ \/ ticket # Gone /\ Finish(r, "token")
     \/ ticket = Gone /\ Finish(r, "ended")
  /\ reply' = [reply EXCEPT ![r] = Gone]
  /\ UNCHANGED <<expired, lock, keycloak, handle, sent>>

(* The conditional write throws; Redis may have applied it.                *)
WriteBackFails(r) ==
  /\ "write" \in Faults
  /\ pc[r] = "replied" /\ reply[r] # Gone
  /\ \/ ticket' = ticket
     \/ ticket' = TryUpdateTokens(ApplyRefreshedTokens(reply[r]))
  /\ Finish(r, "error")
  /\ reply' = [reply EXCEPT ![r] = Gone]
  /\ UNCHANGED <<expired, lock, keycloak, handle, sent>>

(* HandleInvalidGrantAsync: has another holder refreshed in between?       *)
HandleInvalidGrant(r) ==
  /\ pc[r] = "replied" /\ reply[r] = Gone
  /\ \E t \in Retrieve :
       \/ /\ t # Gone /\ t.rt # sent[r] /\ IsFresh(t)
          /\ Finish(r, "token")
       \/ /\ t = Gone \/ t.rt = sent[r] \/ ~IsFresh(t)
          /\ Finish(r, "ended")
  /\ UNCHANGED <<store, lock, keycloak, handle, sent, reply>>

(* LockHandle.DisposeAsync, for requests and logouts: the key is deleted   *)
(* only if it still has this handle's value.                               *)
Release(p) ==
  /\ pc[p] = "releasing"
  /\ lock' = LockRelease(p)
  /\ handle' = [handle EXCEPT ![p] = FALSE]
  /\ sent' = [sent EXCEPT ![p] = 0]
  /\ result' = [result EXCEPT ![p] = "none"]
  /\ \/ result[p] = "ended" /\ Goto(p, "signout")
     \/ result[p] # "ended" /\ Respond(p)
  /\ UNCHANGED <<store, keycloak, reply>>

(* The release throws: the exception replaces the result, the key stays    *)
(* until its TTL runs out.                                                 *)
ReleaseFails(p) ==
  /\ "lock" \in Faults
  /\ pc[p] = "releasing" /\ handle[p]
  /\ lock' = IF lock = p THEN Orphan ELSE lock
  /\ handle' = [handle EXCEPT ![p] = FALSE]
  /\ sent' = [sent EXCEPT ![p] = 0]
  /\ result' = [result EXCEPT ![p] = "none"]
  /\ Respond(p)                                    \* 500
  /\ UNCHANGED <<store, keycloak, reply>>

(* AccessTokenMiddleware on SessionEnded: SignOutAsync deletes the ticket. *)
SignOut(r) ==
  /\ pc[r] = "signout"
  /\ \/ ticket' = Gone                             \* 401
     \/ "write" \in Faults /\ ticket' = ticket      \* 500
  /\ Respond(r)
  /\ UNCHANGED <<expired, lock, keycloak, handle, sent, reply, result>>

-----------------------------------------------------------------------------
(* POST /bff/logout: authorization, then the bounded wait for the lock.    *)
StartLogout(l) ==
  /\ pc[l] = "idle"
  /\ \E t \in Retrieve :
       \/ /\ t = Gone
          /\ Respond(l)                            \* 401
       \/ /\ t # Gone
          /\ Goto(l, "logoutTrying")
  /\ UNCHANGED <<store, lock, keycloak, handle, sent, reply, result>>

LogoutAcquires(l) ==
  /\ pc[l] = "logoutTrying"
  /\ LockAvailable
  /\ lock' = l
  /\ handle' = [handle EXCEPT ![l] = TRUE]
  /\ Goto(l, "logoutRead")
  /\ UNCHANGED <<store, keycloak, sent, reply, result>>

(* AcquireOrWaitAsync gives null after 10 s and logout goes on without     *)
(* the lock; a lock command that throws ends the request instead.          *)
LogoutWaitEnds(l) ==
  /\ pc[l] = "logoutTrying"
  /\ MaybeTaken
  /\ \/ Goto(l, "logoutRead")
     \/ "lock" \in Faults /\ Respond(l)            \* 500
  /\ UNCHANGED <<store, keycloak, handle, sent, reply, result>>

LogoutReread(l) ==
  /\ pc[l] = "logoutRead"
  /\ \E t \in Retrieve :
       \/ /\ t.rt # 0
          /\ sent' = [sent EXCEPT ![l] = t.rt]
          /\ Goto(l, "ending")
       \/ /\ t.rt = 0
          /\ Goto(l, "logoutDelete")
          /\ UNCHANGED sent
  /\ UNCHANGED <<store, lock, keycloak, handle, reply, result>>

(* EndSessionAsync: Keycloak ends the SSO session for a token it accepts;  *)
(* every failure is swallowed.                                             *)
KeycloakEndSession(l) ==
  /\ pc[l] = "ending"
  /\ \/ Accepts(sent[l]) /\ kcAlive' = FALSE
     \/ ~Accepts(sent[l]) /\ kcAlive' = kcAlive
     \/ "timeout" \in Faults /\ kcAlive' = kcAlive
  /\ Goto(l, "logoutDelete")
  /\ UNCHANGED <<store, lock, kcRt, kcAt, late, handle, sent, reply, result>>

(* SignOutAsync of the cookie scheme deletes the ticket, or throws; the    *)
(* finally block releases the lock either way.                             *)
LogoutDelete(l) ==
  /\ pc[l] = "logoutDelete"
  /\ \/ /\ ticket' = Gone
        /\ Finish(l, "loggedOut")
     \/ /\ "write" \in Faults
        /\ ticket' \in {ticket, Gone}
        /\ Finish(l, "error")
  /\ UNCHANGED <<expired, lock, keycloak, handle, sent, reply>>

-----------------------------------------------------------------------------
(* Time passes for an access token.                                        *)
AccessTokenExpires(a) ==
  /\ a \in (1..kcAt) \ expired
  /\ expired' = expired \cup {a}
  /\ UNCHANGED <<ticket, lock, keycloak, pc, handle, sent, reply, result>>

(* Redis drops the lock key after LockTtl.                                 *)
LockExpires ==
  /\ \/ lock = Orphan
     \/ "ttl" \in Faults /\ lock \in Procs
  /\ lock' = Free
  /\ UNCHANGED <<store, keycloak, pc, handle, sent, reply, result>>

(* The ticket's absolute expiration, or the fixation guard's delete when   *)
(* the browser comes back through the sign-in callback.                    *)
TicketExpires ==
  /\ ticket # Gone
  /\ ticket' = Gone
  /\ UNCHANGED <<expired, lock, keycloak, pc, handle, sent, reply, result>>

(* Keycloak ends the SSO session on its own: an admin, its idle time-out.  *)
KeycloakEndsSession ==
  /\ kcAlive
  /\ kcAlive' = FALSE
  /\ UNCHANGED <<store, lock, kcRt, kcAt, late, pc, handle, sent, reply, result>>

(* POST /bff/backchannel-logout for the ended session; takes no lock.      *)
BackchannelLogout ==
  /\ ~kcAlive
  /\ ticket # Gone
  /\ ticket' = Gone
  /\ UNCHANGED <<expired, lock, keycloak, pc, handle, sent, reply, result>>

(* The BFF instance dies: its lock stays until the TTL, a call it sent may *)
(* still arrive.                                                           *)
Crash(p) ==
  /\ pc[p] # "idle"
  /\ \/ "crash" \in Faults
     \/ "halt" \in Faults /\ pc[p] \notin {"refreshing", "replied"}
  /\ lock' = IF lock = p THEN Orphan ELSE lock
  /\ handle' = [handle EXCEPT ![p] = FALSE]
  /\ \/ late' = late
     \/ pc[p] = "refreshing" /\ late' = late \cup {sent[p]}
  /\ sent' = [sent EXCEPT ![p] = 0]
  /\ reply' = [reply EXCEPT ![p] = Gone]
  /\ result' = [result EXCEPT ![p] = "none"]
  /\ Goto(p, "idle")
  /\ UNCHANGED <<store, kcAlive, kcRt, kcAt>>

-----------------------------------------------------------------------------
RequestStep(r) ==
  \/ TryAcquire(r) \/ AcquireAborted(r) \/ Poll(r) \/ WaitTimesOut(r)
  \/ RereadUnderLock(r) \/ KeycloakRefresh(r) \/ RefreshFails(r)
  \/ ReplyLost(r) \/ WriteBack(r) \/ WriteBackFails(r)
  \/ HandleInvalidGrant(r) \/ Release(r) \/ ReleaseFails(r) \/ SignOut(r)

LogoutStep(l) ==
  \/ LogoutAcquires(l) \/ LogoutWaitEnds(l) \/ LogoutReread(l)
  \/ KeycloakEndSession(l) \/ LogoutDelete(l) \/ Release(l) \/ ReleaseFails(l)

Environment ==
  \/ \E a \in 1..kcAt : AccessTokenExpires(a)
  \/ \E z \in late : LateRefresh(z)
  \/ LockExpires
  \/ TicketExpires
  \/ KeycloakEndsSession
  \/ BackchannelLogout
  \/ \E p \in Procs : Crash(p)

Next ==
  \/ \E r \in Requests : StartRequest(r) \/ RequestStep(r)
  \/ \E l \in Logouts : StartLogout(l) \/ LogoutStep(l)
  \/ Environment

Spec == Init /\ [][Next]_vars

(* Weak fairness of each request's own steps: the thread pool runs it, and *)
(* every await of the code has a time-out.  The 10 s bound on the wait for *)
(* the lock is a timer of its own, running through both halves of the      *)
(* polling loop.  Redis expires keys.                                      *)
WaitDeadline(r) == AcquireAborted(r) \/ WaitTimesOut(r)

Fairness ==
  /\ \A r \in Requests : WF_vars(RequestStep(r)) /\ WF_vars(WaitDeadline(r))
  /\ \A l \in Logouts : WF_vars(LogoutStep(l))
  /\ WF_vars(LockExpires)

FairSpec == Spec /\ Fairness

-----------------------------------------------------------------------------
(***************************************************************************)
(* Properties                                                              *)
(***************************************************************************)

(* T-09: once the ticket is deleted (logout, back-channel logout, sign-out *)
(* or expiry) no refresh that is still under way writes it back.           *)
NoResurrection == [][ticket = Gone => ticket' = Gone]_vars

(* Whatever the interleaving, and even when locks expire under their       *)
(* holders, replies are lost and instances crash, a write-back never       *)
(* replaces the ticket's tokens by older ones: with strict rotation only   *)
(* the latest grant can still be waiting to be stored.                     *)
StoredTokensMoveForward ==
  [][ "norotate" \notin Faults /\ ticket' # Gone =>
        ticket'.rt >= ticket.rt /\ ticket'.at >= ticket.at ]_vars

(* At most one process works under the session's refresh lock, whichever   *)
(* BFF instance it runs on, as long as no lock outlives its TTL.           *)
LockExclusion ==
  "ttl" \notin Faults =>
    \A p, q \in Procs : handle[p] /\ handle[q] => p = q

(* A lock that expired and was retaken is never released by the wrong      *)
(* holder: while p works on with its handle, its lock goes away only by    *)
(* the TTL, that is in a step in which no process moves.                   *)
LockNeverStolen ==
  [][ \A p \in Procs :
        handle[p] /\ handle'[p] /\ lock = p /\ lock' # p => pc' = pc ]_vars

(* Exactly one refresh per expired access token: nobody asks Keycloak for  *)
(* a refresh while the stored ticket has a fresh access token.             *)
NoNeedlessRefresh ==
  "ttl" \notin Faults =>
    \A r \in Requests :
      pc[r] = "refreshing" => ticket = Gone \/ ~IsFresh(ticket)

(* Without a lost update the refresh token sent under the lock, by a       *)
(* refresh or by logout's end-session call, is the one Keycloak accepts.   *)
LostUpdateFaults == {"ttl", "timeout", "write", "crash"}
LockHolderSendsCurrentToken ==
  Faults \cap LostUpdateFaults = {} =>
    \A p \in Procs :
      handle[p] /\ pc[p] \in {"refreshing", "ending"} /\ kcAlive =>
        sent[p] = kcRt

(* The session is over for good: its ticket is gone, Keycloak ended it, or *)
(* it never had a refresh token to go on with.                             *)
SessionOver == ticket = Gone \/ ticket.rt = 0 \/ ~kcAlive

(* A session that is fine is not ended.  Two failures break it: a failed   *)
(* re-read under the lock is taken for a deleted ticket, and a lock whose  *)
(* TTL ends between Keycloak's rotation and the write-back lets the next   *)
(* holder's re-read after invalid_grant still show the old token.          *)
SignOutOnlyWhenOver ==
  \A r \in Requests : pc[r] = "signout" => SessionOver

(* Without failures a request is told the session ended only when it has,  *)
(* however many requests, logouts and session ends race.                   *)
FaultFreeSignOut ==
  Faults \cap (LostUpdateFaults \cup {"read"}) = {} => SignOutOnlyWhenOver

(* Every request and every logout is answered: no wait for the lock, for   *)
(* Redis or for Keycloak lasts forever.                                    *)
EveryRequestAnswered ==
  \A p \in Procs : pc[p] # "idle" ~> pc[p] = "idle"

(* The session's lock never stays taken: its holder releases it, and one   *)
(* that a crash or an abandoned command left behind expires.               *)
LockEventuallyFree == lock # Free ~> lock = Free

(* The tokens that count: a grant whose reply is on its way is the         *)
(* session's next state already, unless the ticket has been deleted.       *)
Pending(r) == pc[r] = "replied" /\ reply[r] # Gone

CurrentTokens ==
  IF ticket # Gone /\ \E r \in Requests : Pending(r)
  THEN reply[CHOOSE r \in Requests : Pending(r)]
  ELSE ticket

Atomic == INSTANCE AtomicSession
            WITH session <- CurrentTokens, alive <- kcAlive, issued <- kcAt

(* Without a lost update, the requests, logouts and session ends that race *)
(* behave like a session whose ticket and Keycloak never disagree: lock,   *)
(* re-read and conditional write make a refresh atomic.                    *)
ImplementsAtomicSession == Atomic!ASpec
=============================================================================
