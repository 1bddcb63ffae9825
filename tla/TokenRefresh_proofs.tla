------------------------ MODULE TokenRefresh_proofs -------------------------
(* Proofs about TokenRefresh, for any set of requests and logouts, any     *)
(* combination of faults and any number of tokens.                         *)
EXTENDS TokenRefresh, TLAPS

-----------------------------------------------------------------------------
(* Next, with each action named once: what every proof below cases on.     *)
LEMMA NextCases ==
  ASSUME Next
  PROVE  \/ \E r \in Requests :
              \/ StartRequest(r) \/ TryAcquire(r) \/ AcquireAborted(r)
              \/ Poll(r) \/ WaitTimesOut(r) \/ RereadUnderLock(r)
              \/ KeycloakRefresh(r) \/ RefreshFails(r) \/ ReplyLost(r)
              \/ WriteBack(r) \/ WriteBackFails(r) \/ HandleInvalidGrant(r)
              \/ SignOut(r)
         \/ \E l \in Logouts :
              \/ StartLogout(l) \/ LogoutAcquires(l) \/ LogoutWaitEnds(l)
              \/ LogoutReread(l) \/ KeycloakEndSession(l) \/ LogoutDelete(l)
         \/ \E p \in Procs : Release(p) \/ ReleaseFails(p) \/ Crash(p)
         \/ \E a \in 1..kcAt : AccessTokenExpires(a)
         \/ \E z \in late : LateRefresh(z)
         \/ LockExpires \/ TicketExpires \/ KeycloakEndsSession
         \/ BackchannelLogout
  BY DEF Next, RequestStep, LogoutStep, Environment, Procs

(* The tokens of a granted refresh are not the null ticket.                *)
LEMMA GrantIsNotGone ==
  ASSUME NEW a \in Nat, NEW b \in Nat
  PROVE  [at |-> a + 1, rt |-> b] # Gone
  BY DEF Gone

(* The null ticket, and the tokens of a grant, are tickets.                *)
LEMMA TokenTypes ==
  /\ Gone \in Tokens
  /\ \A a, b \in Nat : [at |-> a, rt |-> b] \in Tokens
  /\ \A t \in Tokens : t.at \in Nat /\ t.rt \in Nat
  BY DEF Gone, Tokens

(* Every state is well typed.                                              *)
THEOREM TypeCorrect == Spec => []TypeOK
<1> USE DEF TypeOK, Steps, Results
<1>1. Init => TypeOK
  BY TokenTypes DEF Init
<1>2. TypeOK /\ [Next]_vars => TypeOK'
  <2> SUFFICES ASSUME TypeOK, [Next]_vars PROVE TypeOK'
    OBVIOUS
  <2> USE TokenTypes DEF Procs, store, keycloak, Goto, Respond, Finish
  <2>1. CASE UNCHANGED vars
    BY <2>1 DEF vars
  <2>2. ASSUME NEW r \in Requests,
               StartRequest(r)
        PROVE  TypeOK'
    BY <2>2 DEF StartRequest
  <2>3. ASSUME NEW r \in Requests,
               TryAcquire(r)
        PROVE  TypeOK'
    BY <2>3 DEF TryAcquire
  <2>4. ASSUME NEW r \in Requests,
               AcquireAborted(r)
        PROVE  TypeOK'
    BY <2>4 DEF AcquireAborted, MaybeTaken
  <2>5. ASSUME NEW r \in Requests,
               Poll(r) \/ WaitTimesOut(r)
        PROVE  TypeOK'
    BY <2>5 DEF Poll, WaitTimesOut
  <2>6. ASSUME NEW r \in Requests,
               RereadUnderLock(r)
        PROVE  TypeOK'
    BY <2>6 DEF RereadUnderLock, Retrieve, NeedsRefresh
  <2>7. ASSUME NEW r \in Requests,
               KeycloakRefresh(r)
        PROVE  TypeOK'
    BY <2>7 DEF KeycloakRefresh, Grant
  <2>8. ASSUME NEW r \in Requests,
               RefreshFails(r)
        PROVE  TypeOK'
    BY <2>8 DEF RefreshFails
  <2>9. ASSUME NEW r \in Requests,
               ReplyLost(r)
        PROVE  TypeOK'
    BY <2>9 DEF ReplyLost
  <2>10. ASSUME NEW r \in Requests,
               WriteBack(r)
        PROVE  TypeOK'
    BY <2>10 DEF WriteBack, TryUpdateTokens, ApplyRefreshedTokens
  <2>11. ASSUME NEW r \in Requests,
               WriteBackFails(r)
        PROVE  TypeOK'
    BY <2>11 DEF WriteBackFails, TryUpdateTokens, ApplyRefreshedTokens
  <2>12. ASSUME NEW r \in Requests,
               HandleInvalidGrant(r)
        PROVE  TypeOK'
    BY <2>12 DEF HandleInvalidGrant
  <2>13. ASSUME NEW r \in Requests,
               SignOut(r)
        PROVE  TypeOK'
    BY <2>13 DEF SignOut
  <2>14. ASSUME NEW l \in Logouts,
               StartLogout(l)
        PROVE  TypeOK'
    BY <2>14 DEF StartLogout
  <2>15. ASSUME NEW l \in Logouts,
               LogoutAcquires(l)
        PROVE  TypeOK'
    BY <2>15 DEF LogoutAcquires
  <2>16. ASSUME NEW l \in Logouts,
               LogoutWaitEnds(l)
        PROVE  TypeOK'
    BY <2>16 DEF LogoutWaitEnds, MaybeTaken
  <2>17. ASSUME NEW l \in Logouts,
               LogoutReread(l)
        PROVE  TypeOK'
    BY <2>17 DEF LogoutReread, Retrieve
  <2>18. ASSUME NEW l \in Logouts,
               KeycloakEndSession(l)
        PROVE  TypeOK'
    BY <2>18 DEF KeycloakEndSession
  <2>19. ASSUME NEW l \in Logouts,
               LogoutDelete(l)
        PROVE  TypeOK'
    BY <2>19 DEF LogoutDelete
  <2>20. ASSUME NEW p \in Procs,
               Release(p)
        PROVE  TypeOK'
    BY <2>20 DEF Release, LockRelease
  <2>21. ASSUME NEW p \in Procs,
               ReleaseFails(p)
        PROVE  TypeOK'
    BY <2>21 DEF ReleaseFails
  <2>22. ASSUME NEW p \in Procs,
               Crash(p)
        PROVE  TypeOK'
    BY <2>22 DEF Crash
  <2>23. ASSUME NEW a \in 1..kcAt,
               AccessTokenExpires(a)
        PROVE  TypeOK'
    BY <2>23 DEF AccessTokenExpires
  <2>24. ASSUME NEW z \in late,
               LateRefresh(z)
        PROVE  TypeOK'
    BY <2>24 DEF LateRefresh, Grant
  <2>25. CASE LockExpires \/ TicketExpires \/ KeycloakEndsSession
              \/ BackchannelLogout
    BY <2>25 DEF LockExpires, TicketExpires, KeycloakEndsSession,
                 BackchannelLogout
  <2>26. QED
    BY <2>1, <2>2, <2>3, <2>4, <2>5, <2>6, <2>7, <2>8, <2>9, <2>10, <2>11,
       <2>12, <2>13, <2>14, <2>15, <2>16, <2>17, <2>18, <2>19, <2>20,
       <2>21, <2>22, <2>23, <2>24, <2>25, NextCases
<1>3. QED
  BY <1>1, <1>2, PTL DEF Spec

-----------------------------------------------------------------------------
(***************************************************************************)
(* No resurrection.  The only step that sets the ticket is the write-back, *)
(* and it does so only while the key exists.                               *)
(***************************************************************************)

(* Which steps touch the ticket at all, and how.                           *)
LEMMA TicketSteps ==
  ASSUME [Next]_vars
  PROVE  \/ ticket' = ticket
         \/ ticket' = Gone
         \/ /\ ticket # Gone
            /\ \E r \in Requests :
                 Pending(r) /\ ticket' = ApplyRefreshedTokens(reply[r])
<1> USE DEF store, Pending
<1>1. CASE UNCHANGED vars
  BY <1>1 DEF vars
<1>2. ASSUME NEW r \in Requests,
             \/ StartRequest(r) \/ TryAcquire(r) \/ AcquireAborted(r)
             \/ Poll(r) \/ WaitTimesOut(r) \/ RereadUnderLock(r)
             \/ KeycloakRefresh(r) \/ RefreshFails(r) \/ ReplyLost(r)
             \/ HandleInvalidGrant(r)
      PROVE  ticket' = ticket
  BY <1>2 DEF StartRequest, TryAcquire, AcquireAborted, Poll, WaitTimesOut,
              RereadUnderLock, KeycloakRefresh, RefreshFails, ReplyLost,
              HandleInvalidGrant
<1>3. ASSUME NEW r \in Requests,
             WriteBack(r) \/ WriteBackFails(r) \/ SignOut(r)
      PROVE  \/ ticket' = ticket
             \/ ticket' = Gone
             \/ /\ ticket # Gone
                /\ Pending(r) /\ ticket' = ApplyRefreshedTokens(reply[r])
  BY <1>3 DEF WriteBack, WriteBackFails, SignOut, TryUpdateTokens
<1>4. ASSUME NEW l \in Logouts,
             \/ StartLogout(l) \/ LogoutAcquires(l) \/ LogoutWaitEnds(l)
             \/ LogoutReread(l) \/ KeycloakEndSession(l) \/ LogoutDelete(l)
      PROVE  ticket' = ticket \/ ticket' = Gone
  BY <1>4 DEF StartLogout, LogoutAcquires, LogoutWaitEnds, LogoutReread,
              KeycloakEndSession, LogoutDelete
<1>5. ASSUME NEW p \in Procs, Release(p) \/ ReleaseFails(p) \/ Crash(p)
      PROVE  ticket' = ticket
  BY <1>5 DEF Release, ReleaseFails, Crash, LockRelease
<1>6. ASSUME NEW a \in 1..kcAt, AccessTokenExpires(a) PROVE ticket' = ticket
  BY <1>6 DEF AccessTokenExpires
<1>7. ASSUME NEW z \in late, LateRefresh(z) PROVE ticket' = ticket
  BY <1>7 DEF LateRefresh
<1>8. CASE LockExpires \/ TicketExpires \/ KeycloakEndsSession
           \/ BackchannelLogout
  BY <1>8 DEF LockExpires, TicketExpires, KeycloakEndsSession,
              BackchannelLogout
<1>9. QED
  BY <1>1, <1>2, <1>3, <1>4, <1>5, <1>6, <1>7, <1>8, NextCases

(* A deleted ticket stays deleted, whatever fails and however the          *)
(* requests, logouts and session ends interleave.                          *)
THEOREM TicketStaysGone == Spec => NoResurrection
<1>1. [Next]_vars => [ticket = Gone => ticket' = Gone]_vars
  BY TicketSteps
<1>2. QED
  BY <1>1, PTL DEF Spec, NoResurrection

-----------------------------------------------------------------------------
(***************************************************************************)
(* Lock exclusion.  Inductive form: a handle is a claim on the lock key.   *)
(***************************************************************************)
HandleOwnsLock == "ttl" \notin Faults => \A p \in Procs : handle[p] => lock = p

(* The lock key carries the value of the one process with a handle.        *)
LEMMA HandleInvariant == Spec => []HandleOwnsLock
<1> USE DEF HandleOwnsLock
<1>1. Init => HandleOwnsLock
  BY DEF Init
<1>2. TypeOK /\ HandleOwnsLock /\ [Next]_vars => HandleOwnsLock'
  <2> SUFFICES ASSUME TypeOK, HandleOwnsLock, [Next]_vars, "ttl" \notin Faults
               PROVE  \A p \in Procs : handle'[p] => lock' = p
    OBVIOUS
  <2> USE ProcsAssumption DEF TypeOK, Procs
  <2>1. CASE lock' = lock /\ handle' = handle
    BY <2>1
  <2>2. ASSUME NEW r \in Requests, TryAcquire(r)
        PROVE  \A p \in Procs : handle'[p] => lock' = p
    BY <2>2 DEF TryAcquire, LockAvailable
  <2>3. ASSUME NEW r \in Requests, AcquireAborted(r)
        PROVE  \A p \in Procs : handle'[p] => lock' = p
    BY <2>3 DEF AcquireAborted, MaybeTaken
  <2>4. ASSUME NEW l \in Logouts, LogoutAcquires(l)
        PROVE  \A p \in Procs : handle'[p] => lock' = p
    BY <2>4 DEF LogoutAcquires, LockAvailable
  <2>5. ASSUME NEW l \in Logouts, LogoutWaitEnds(l)
        PROVE  \A p \in Procs : handle'[p] => lock' = p
    BY <2>5 DEF LogoutWaitEnds, MaybeTaken
  <2>6. ASSUME NEW q \in Procs, Release(q) \/ ReleaseFails(q) \/ Crash(q)
        PROVE  \A p \in Procs : handle'[p] => lock' = p
    BY <2>6 DEF Release, ReleaseFails, Crash, LockRelease
  <2>7. CASE LockExpires
    BY <2>7 DEF LockExpires
  <2>8. ASSUME NEW r \in Requests,
               \/ StartRequest(r) \/ Poll(r) \/ WaitTimesOut(r)
               \/ RereadUnderLock(r) \/ KeycloakRefresh(r) \/ RefreshFails(r)
               \/ ReplyLost(r) \/ WriteBack(r) \/ WriteBackFails(r)
               \/ HandleInvalidGrant(r) \/ SignOut(r)
        PROVE  lock' = lock /\ handle' = handle
    BY <2>8 DEF StartRequest, Poll, WaitTimesOut, RereadUnderLock,
                KeycloakRefresh, RefreshFails, ReplyLost, WriteBack,
                WriteBackFails, HandleInvalidGrant, SignOut
  <2>9. ASSUME NEW l \in Logouts,
               \/ StartLogout(l) \/ LogoutReread(l)
               \/ KeycloakEndSession(l) \/ LogoutDelete(l)
        PROVE  lock' = lock /\ handle' = handle
    BY <2>9 DEF StartLogout, LogoutReread, KeycloakEndSession, LogoutDelete
  <2>10. ASSUME \/ \E a \in 1..kcAt : AccessTokenExpires(a)
                \/ \E z \in late : LateRefresh(z)
                \/ TicketExpires \/ KeycloakEndsSession \/ BackchannelLogout
                \/ UNCHANGED vars
         PROVE  lock' = lock /\ handle' = handle
    BY <2>10 DEF AccessTokenExpires, LateRefresh, TicketExpires,
                 KeycloakEndsSession, BackchannelLogout, vars
  <2>11. QED
    BY <2>1, <2>2, <2>3, <2>4, <2>5, <2>6, <2>7, <2>8, <2>9, <2>10,
       NextCases
<1>3. QED
  BY <1>1, <1>2, TypeCorrect, PTL DEF Spec

(* While no lock outlives its TTL, two processes never work under the same *)
(* session's lock at the same time.                                        *)
THEOREM OneLockHolder == Spec => []LockExclusion
<1>1. HandleOwnsLock => LockExclusion
  BY DEF HandleOwnsLock, LockExclusion
<1>2. QED
  BY <1>1, HandleInvariant, PTL

-----------------------------------------------------------------------------
(***************************************************************************)
(* Stored tokens move forward.  The inductive invariant says why the lock  *)
(* is not even needed for it: Keycloak's strict rotation lets one grant at *)
(* most be on its way to the ticket, and while it is, every other copy of  *)
(* a refresh token (in the ticket, in a call, in an abandoned call) is     *)
(* older than the one Keycloak accepts, so nobody else gets a grant.       *)
(***************************************************************************)
InUse(p) == pc[p] = "refreshing"

(* No token anywhere is newer than the last one Keycloak issued.           *)
TokensBounded ==
  /\ ticket.rt <= kcRt
  /\ ticket.at <= kcAt
  /\ \A p \in Procs : InUse(p) => sent[p] <= kcRt
  /\ \A z \in late : z <= kcRt

(* A grant that waits to be stored is the latest one.                      *)
PendingIsLatest ==
  \A r \in Requests : Pending(r) =>
    /\ reply[r].rt = kcRt
    /\ reply[r].at <= kcAt
    /\ ticket.rt < kcRt
    /\ ticket.at < reply[r].at
    /\ \A p \in Procs : InUse(p) => sent[p] < kcRt
    /\ \A z \in late : z < kcRt
    /\ \A q \in Requests : Pending(q) => q = r

(* What it takes for a write-back to move the stored tokens forward.       *)
ForwardInv ==
  "norotate" \notin Faults => TokensBounded /\ PendingIsLatest

(* Every step keeps ForwardInv.                                            *)
LEMMA ForwardStep ==
  ASSUME TypeOK, ForwardInv, [Next]_vars, "norotate" \notin Faults
  PROVE  (TokensBounded /\ PendingIsLatest)'
<1> DEFINE I == TokensBounded /\ PendingIsLatest
<1> USE TokenTypes, GrantIsNotGone
    DEF ForwardInv, TokensBounded, PendingIsLatest, Pending, InUse, TypeOK,
        Procs, store, keycloak, Goto, Respond, Finish
<1>0. Gone.at = 0 /\ Gone.rt = 0
  BY DEF Gone
<1>1. CASE UNCHANGED vars
  BY <1>1 DEF vars
<1>2. ASSUME NEW r \in Requests, StartRequest(r) PROVE I'
  BY <1>2 DEF StartRequest
<1>3. ASSUME NEW r \in Requests, TryAcquire(r) PROVE I'
  BY <1>3 DEF TryAcquire
<1>4. ASSUME NEW r \in Requests, AcquireAborted(r) PROVE I'
  BY <1>4 DEF AcquireAborted
<1>5. ASSUME NEW r \in Requests, Poll(r) PROVE I'
  BY <1>5 DEF Poll
<1>5a. ASSUME NEW r \in Requests, WaitTimesOut(r) PROVE I'
  BY <1>5a DEF WaitTimesOut
<1>6. ASSUME NEW r \in Requests, RereadUnderLock(r) PROVE I'
  BY <1>6, <1>0 DEF RereadUnderLock, Retrieve, NeedsRefresh
<1>7. ASSUME NEW r \in Requests, KeycloakRefresh(r) PROVE I'
  BY <1>7 DEF KeycloakRefresh, Grant, Accepts
<1>8. ASSUME NEW r \in Requests, RefreshFails(r) PROVE I'
  BY <1>8 DEF RefreshFails
<1>9. ASSUME NEW r \in Requests, ReplyLost(r) PROVE I'
  BY <1>9 DEF ReplyLost
<1>10. ASSUME NEW r \in Requests, WriteBack(r) PROVE I'
  BY <1>10, <1>0 DEF WriteBack, TryUpdateTokens, ApplyRefreshedTokens
<1>11. ASSUME NEW r \in Requests, WriteBackFails(r) PROVE I'
  BY <1>11 DEF WriteBackFails, TryUpdateTokens, ApplyRefreshedTokens
<1>12. ASSUME NEW r \in Requests, HandleInvalidGrant(r) PROVE I'
  BY <1>12 DEF HandleInvalidGrant
<1>13. ASSUME NEW r \in Requests, SignOut(r) PROVE I'
  BY <1>13, <1>0 DEF SignOut
<1>14. ASSUME NEW l \in Logouts, StartLogout(l) PROVE I'
  BY <1>14 DEF StartLogout
<1>14a. ASSUME NEW l \in Logouts, LogoutAcquires(l) PROVE I'
  BY <1>14a DEF LogoutAcquires
<1>15. ASSUME NEW l \in Logouts, LogoutWaitEnds(l) PROVE I'
  BY <1>15 DEF LogoutWaitEnds
<1>16. ASSUME NEW l \in Logouts, LogoutReread(l) PROVE I'
  BY <1>16 DEF LogoutReread
<1>17. ASSUME NEW l \in Logouts, KeycloakEndSession(l) PROVE I'
  BY <1>17 DEF KeycloakEndSession
<1>18. ASSUME NEW l \in Logouts, LogoutDelete(l) PROVE I'
  BY <1>18, <1>0 DEF LogoutDelete
<1>19. ASSUME NEW p \in Procs, Release(p) PROVE I'
  BY <1>19 DEF Release, LockRelease
<1>20. ASSUME NEW p \in Procs, ReleaseFails(p) PROVE I'
  BY <1>20 DEF ReleaseFails
<1>21. ASSUME NEW p \in Procs, Crash(p) PROVE I'
  BY <1>21 DEF Crash
<1>22. ASSUME NEW a \in 1..kcAt, AccessTokenExpires(a) PROVE I'
  BY <1>22 DEF AccessTokenExpires
<1>23. ASSUME NEW z \in late, LateRefresh(z) PROVE I'
  BY <1>23 DEF LateRefresh, Grant, Accepts
<1>24. CASE LockExpires \/ KeycloakEndsSession
  BY <1>24 DEF LockExpires, KeycloakEndsSession
<1>25. CASE TicketExpires
  BY <1>25, <1>0 DEF TicketExpires
<1>25a. CASE BackchannelLogout
  BY <1>25a, <1>0 DEF BackchannelLogout
<1>26. QED
  BY <1>1, <1>2, <1>3, <1>4, <1>5, <1>5a, <1>6, <1>7, <1>8, <1>9, <1>10,
     <1>11, <1>12, <1>13, <1>14, <1>14a, <1>15, <1>16, <1>17, <1>18, <1>19,
     <1>20, <1>21, <1>22, <1>23, <1>24, <1>25, <1>25a, NextCases

(* ForwardInv holds in every state.                                        *)
LEMMA ForwardInvariant == Spec => []ForwardInv
<1>1. Init => ForwardInv
  <2>1. Init => /\ ticket.rt <= kcRt /\ ticket.at <= kcAt /\ late = {}
                /\ \A p \in Procs : pc[p] = "idle"
    BY DEF Init
  <2>2. QED
    BY <2>1 DEF ForwardInv, TokensBounded, PendingIsLatest, Pending, InUse,
                Procs
<1>2. TypeOK /\ ForwardInv /\ [Next]_vars => ForwardInv'
  BY ForwardStep DEF ForwardInv
<1>3. QED
  BY <1>1, <1>2, TypeCorrect, PTL DEF Spec

(* Whatever expires, is lost or crashes, a write-back never puts an older  *)
(* token pair over a newer one.                                            *)
THEOREM TokensNeverGoBack == Spec => StoredTokensMoveForward
<1> DEFINE Step == "norotate" \notin Faults /\ ticket' # Gone =>
                     ticket'.rt >= ticket.rt /\ ticket'.at >= ticket.at
<1>1. TypeOK /\ ForwardInv /\ [Next]_vars => [Step]_vars
  BY TicketSteps, TokenTypes
  DEF TypeOK, ForwardInv, TokensBounded, PendingIsLatest, Procs,
      ApplyRefreshedTokens
<1>2. QED
  BY <1>1, TypeCorrect, ForwardInvariant, PTL
  DEF Spec, StoredTokensMoveForward

-----------------------------------------------------------------------------
(***************************************************************************)
(* The lock is not stolen.                                                 *)
(***************************************************************************)
StealStep ==
  \A p \in Procs : handle[p] /\ handle'[p] /\ lock = p /\ lock' # p => pc' = pc

(* Every step is a StealStep: LockReleaseAsync deletes the key only if it  *)
(* still has the caller's own value.                                       *)
LEMMA StealSteps ==
  ASSUME TypeOK, [Next]_vars
  PROVE  StealStep
<1> USE ProcsAssumption
  DEF StealStep, TypeOK, Procs, store, keycloak, Goto, Respond, Finish
<1>1. ASSUME NEW r \in Requests, StartRequest(r) PROVE StealStep
  BY <1>1 DEF StartRequest
<1>2. ASSUME NEW r \in Requests, TryAcquire(r) PROVE StealStep
  BY <1>2 DEF TryAcquire, LockAvailable
<1>3. ASSUME NEW r \in Requests, AcquireAborted(r) PROVE StealStep
  BY <1>3 DEF AcquireAborted, MaybeTaken
<1>4. ASSUME NEW r \in Requests, Poll(r) PROVE StealStep
  BY <1>4 DEF Poll
<1>5. ASSUME NEW r \in Requests, WaitTimesOut(r) PROVE StealStep
  BY <1>5 DEF WaitTimesOut
<1>6. ASSUME NEW r \in Requests, RereadUnderLock(r) PROVE StealStep
  BY <1>6 DEF RereadUnderLock
<1>7. ASSUME NEW r \in Requests, KeycloakRefresh(r) PROVE StealStep
  BY <1>7 DEF KeycloakRefresh
<1>8. ASSUME NEW r \in Requests, RefreshFails(r) PROVE StealStep
  BY <1>8 DEF RefreshFails
<1>9. ASSUME NEW r \in Requests, ReplyLost(r) PROVE StealStep
  BY <1>9 DEF ReplyLost
<1>10. ASSUME NEW r \in Requests, WriteBack(r) PROVE StealStep
  BY <1>10 DEF WriteBack
<1>11. ASSUME NEW r \in Requests, WriteBackFails(r) PROVE StealStep
  BY <1>11 DEF WriteBackFails
<1>12. ASSUME NEW r \in Requests, HandleInvalidGrant(r) PROVE StealStep
  BY <1>12 DEF HandleInvalidGrant
<1>13. ASSUME NEW r \in Requests, SignOut(r) PROVE StealStep
  BY <1>13 DEF SignOut
<1>14. ASSUME NEW l \in Logouts, StartLogout(l) PROVE StealStep
  BY <1>14 DEF StartLogout
<1>15. ASSUME NEW l \in Logouts, LogoutAcquires(l) PROVE StealStep
  BY <1>15 DEF LogoutAcquires, LockAvailable
<1>16. ASSUME NEW l \in Logouts, LogoutWaitEnds(l) PROVE StealStep
  BY <1>16 DEF LogoutWaitEnds, MaybeTaken
<1>17. ASSUME NEW l \in Logouts, LogoutReread(l) PROVE StealStep
  BY <1>17 DEF LogoutReread
<1>18. ASSUME NEW l \in Logouts, KeycloakEndSession(l) PROVE StealStep
  BY <1>18 DEF KeycloakEndSession
<1>19. ASSUME NEW l \in Logouts, LogoutDelete(l) PROVE StealStep
  BY <1>19 DEF LogoutDelete
<1>20. ASSUME NEW p \in Procs, Release(p) PROVE StealStep
  BY <1>20 DEF Release, LockRelease
<1>21. ASSUME NEW p \in Procs, ReleaseFails(p) PROVE StealStep
  BY <1>21 DEF ReleaseFails
<1>22. ASSUME NEW p \in Procs, Crash(p) PROVE StealStep
  BY <1>22 DEF Crash
<1>23. ASSUME NEW a \in 1..kcAt, AccessTokenExpires(a) PROVE StealStep
  BY <1>23 DEF AccessTokenExpires
<1>24. ASSUME NEW z \in late, LateRefresh(z) PROVE StealStep
  BY <1>24 DEF LateRefresh
<1>25. ASSUME LockExpires PROVE StealStep
  BY <1>25 DEF LockExpires
<1>26. ASSUME TicketExpires PROVE StealStep
  BY <1>26 DEF TicketExpires
<1>27. ASSUME KeycloakEndsSession PROVE StealStep
  BY <1>27 DEF KeycloakEndsSession
<1>28. ASSUME BackchannelLogout PROVE StealStep
  BY <1>28 DEF BackchannelLogout
<1>29. ASSUME UNCHANGED vars PROVE StealStep
  BY <1>29 DEF vars
<1> QED
  BY <1>1, <1>2, <1>3, <1>4, <1>5, <1>6, <1>7, <1>8, <1>9, <1>10, <1>11, <1>12,
     <1>13, <1>14, <1>15, <1>16, <1>17, <1>18, <1>19, <1>20, <1>21, <1>22, <1>23, <1>24,
     <1>25, <1>26, <1>27, <1>28, <1>29, NextCases

(* A process that works on under its lock loses it to nothing but the TTL, *)
(* with every failure allowed.                                             *)
THEOREM LockKeptByHolder == Spec => LockNeverStolen
<1>1. TypeOK /\ [Next]_vars => [StealStep]_vars
  BY StealSteps
<1>2. QED
  BY <1>1, TypeCorrect, PTL DEF Spec, LockNeverStolen, StealStep

-----------------------------------------------------------------------------
(***************************************************************************)
(* Under the lock.                                                         *)
(***************************************************************************)
WorkHoldsLock ==
  \A r \in Requests : pc[r] \in {"locked", "refreshing", "replied"} => handle[r]

(* Every step keeps WorkHoldsLock.                                         *)
LEMMA WorkStep ==
  ASSUME TypeOK, WorkHoldsLock, [Next]_vars
  PROVE  WorkHoldsLock'
<1> USE ProcsAssumption
  DEF WorkHoldsLock, TypeOK, Procs, store, keycloak, Goto, Respond, Finish
<1>1. ASSUME NEW r \in Requests, StartRequest(r) PROVE WorkHoldsLock'
  BY <1>1 DEF StartRequest
<1>2. ASSUME NEW r \in Requests, TryAcquire(r) PROVE WorkHoldsLock'
  BY <1>2 DEF TryAcquire
<1>3. ASSUME NEW r \in Requests, AcquireAborted(r) PROVE WorkHoldsLock'
  BY <1>3 DEF AcquireAborted
<1>4. ASSUME NEW r \in Requests, Poll(r) PROVE WorkHoldsLock'
  BY <1>4 DEF Poll
<1>5. ASSUME NEW r \in Requests, WaitTimesOut(r) PROVE WorkHoldsLock'
  BY <1>5 DEF WaitTimesOut
<1>6. ASSUME NEW r \in Requests, RereadUnderLock(r) PROVE WorkHoldsLock'
  BY <1>6 DEF RereadUnderLock
<1>7. ASSUME NEW r \in Requests, KeycloakRefresh(r) PROVE WorkHoldsLock'
  BY <1>7 DEF KeycloakRefresh
<1>8. ASSUME NEW r \in Requests, RefreshFails(r) PROVE WorkHoldsLock'
  BY <1>8 DEF RefreshFails
<1>9. ASSUME NEW r \in Requests, ReplyLost(r) PROVE WorkHoldsLock'
  BY <1>9 DEF ReplyLost
<1>10. ASSUME NEW r \in Requests, WriteBack(r) PROVE WorkHoldsLock'
  BY <1>10 DEF WriteBack
<1>11. ASSUME NEW r \in Requests, WriteBackFails(r) PROVE WorkHoldsLock'
  BY <1>11 DEF WriteBackFails
<1>12. ASSUME NEW r \in Requests, HandleInvalidGrant(r) PROVE WorkHoldsLock'
  BY <1>12 DEF HandleInvalidGrant
<1>13. ASSUME NEW r \in Requests, SignOut(r) PROVE WorkHoldsLock'
  BY <1>13 DEF SignOut
<1>14. ASSUME NEW l \in Logouts, StartLogout(l) PROVE WorkHoldsLock'
  BY <1>14 DEF StartLogout
<1>15. ASSUME NEW l \in Logouts, LogoutAcquires(l) PROVE WorkHoldsLock'
  BY <1>15 DEF LogoutAcquires
<1>16. ASSUME NEW l \in Logouts, LogoutWaitEnds(l) PROVE WorkHoldsLock'
  BY <1>16 DEF LogoutWaitEnds
<1>17. ASSUME NEW l \in Logouts, LogoutReread(l) PROVE WorkHoldsLock'
  BY <1>17 DEF LogoutReread
<1>18. ASSUME NEW l \in Logouts, KeycloakEndSession(l) PROVE WorkHoldsLock'
  BY <1>18 DEF KeycloakEndSession
<1>19. ASSUME NEW l \in Logouts, LogoutDelete(l) PROVE WorkHoldsLock'
  BY <1>19 DEF LogoutDelete
<1>20. ASSUME NEW p \in Procs, Release(p) PROVE WorkHoldsLock'
  BY <1>20 DEF Release
<1>21. ASSUME NEW p \in Procs, ReleaseFails(p) PROVE WorkHoldsLock'
  BY <1>21 DEF ReleaseFails
<1>22. ASSUME NEW p \in Procs, Crash(p) PROVE WorkHoldsLock'
  BY <1>22 DEF Crash
<1>23. ASSUME NEW a \in 1..kcAt, AccessTokenExpires(a) PROVE WorkHoldsLock'
  BY <1>23 DEF AccessTokenExpires
<1>24. ASSUME NEW z \in late, LateRefresh(z) PROVE WorkHoldsLock'
  BY <1>24 DEF LateRefresh
<1>25. ASSUME LockExpires PROVE WorkHoldsLock'
  BY <1>25 DEF LockExpires
<1>26. ASSUME TicketExpires PROVE WorkHoldsLock'
  BY <1>26 DEF TicketExpires
<1>27. ASSUME KeycloakEndsSession PROVE WorkHoldsLock'
  BY <1>27 DEF KeycloakEndsSession
<1>28. ASSUME BackchannelLogout PROVE WorkHoldsLock'
  BY <1>28 DEF BackchannelLogout
<1>29. ASSUME UNCHANGED vars PROVE WorkHoldsLock'
  BY <1>29 DEF vars
<1> QED
  BY <1>1, <1>2, <1>3, <1>4, <1>5, <1>6, <1>7, <1>8, <1>9, <1>10, <1>11, <1>12,
     <1>13, <1>14, <1>15, <1>16, <1>17, <1>18, <1>19, <1>20, <1>21, <1>22, <1>23, <1>24,
     <1>25, <1>26, <1>27, <1>28, <1>29, NextCases

(* The lock's owner and the work under it, in every state.                 *)
LEMMA WorkInvariant == Spec => [](TypeOK /\ HandleOwnsLock /\ WorkHoldsLock)
<1>1. Init => WorkHoldsLock
  BY DEF Init, WorkHoldsLock, Procs
<1>2. TypeOK /\ WorkHoldsLock /\ [Next]_vars => WorkHoldsLock'
  BY WorkStep
<1>3. QED
  BY <1>1, <1>2, TypeCorrect, HandleInvariant, PTL DEF Spec

(* Without expired locks a request at work is the only holder of a handle, *)
(* hence the only one at work.                                             *)
LEMMA OneWorker ==
  ASSUME HandleOwnsLock, WorkHoldsLock, "ttl" \notin Faults,
         NEW r \in Requests, pc[r] \in {"locked", "refreshing", "replied"}
  PROVE  /\ \A p \in Procs : handle[p] => p = r
         /\ \A q \in Requests : pc[q] \in {"locked", "refreshing", "replied"} => q = r
  BY DEF HandleOwnsLock, WorkHoldsLock, Procs

(* Every step keeps NoNeedlessRefresh: the ticket was re-read under the    *)
(* lock, and nobody else stores a token before the lock is released.       *)
LEMMA NeedlessStep ==
  ASSUME TypeOK, HandleOwnsLock, WorkHoldsLock, NoNeedlessRefresh, [Next]_vars
  PROVE  NoNeedlessRefresh'
<1> USE OneWorker, TokenTypes
  DEF NoNeedlessRefresh, TypeOK, IsFresh, Procs, store, keycloak, Goto,
      Respond, Finish
<1>1. ASSUME NEW r \in Requests, StartRequest(r) PROVE NoNeedlessRefresh'
  BY <1>1 DEF StartRequest
<1>2. ASSUME NEW r \in Requests, TryAcquire(r) PROVE NoNeedlessRefresh'
  BY <1>2 DEF TryAcquire
<1>3. ASSUME NEW r \in Requests, AcquireAborted(r) PROVE NoNeedlessRefresh'
  BY <1>3 DEF AcquireAborted
<1>4. ASSUME NEW r \in Requests, Poll(r) PROVE NoNeedlessRefresh'
  BY <1>4 DEF Poll
<1>5. ASSUME NEW r \in Requests, WaitTimesOut(r) PROVE NoNeedlessRefresh'
  BY <1>5 DEF WaitTimesOut
<1>6. ASSUME NEW r \in Requests, RereadUnderLock(r) PROVE NoNeedlessRefresh'
  BY <1>6 DEF RereadUnderLock, Retrieve, NeedsRefresh, Gone
<1>7. ASSUME NEW r \in Requests, KeycloakRefresh(r) PROVE NoNeedlessRefresh'
  BY <1>7 DEF KeycloakRefresh
<1>8. ASSUME NEW r \in Requests, RefreshFails(r) PROVE NoNeedlessRefresh'
  BY <1>8 DEF RefreshFails
<1>9. ASSUME NEW r \in Requests, ReplyLost(r) PROVE NoNeedlessRefresh'
  BY <1>9 DEF ReplyLost
<1>10. ASSUME NEW r \in Requests, WriteBack(r) PROVE NoNeedlessRefresh'
  BY <1>10 DEF WriteBack, TryUpdateTokens
<1>11. ASSUME NEW r \in Requests, WriteBackFails(r) PROVE NoNeedlessRefresh'
  BY <1>11 DEF WriteBackFails, TryUpdateTokens
<1>12. ASSUME NEW r \in Requests, HandleInvalidGrant(r) PROVE NoNeedlessRefresh'
  BY <1>12 DEF HandleInvalidGrant
<1>13. ASSUME NEW r \in Requests, SignOut(r) PROVE NoNeedlessRefresh'
  BY <1>13 DEF SignOut
<1>14. ASSUME NEW l \in Logouts, StartLogout(l) PROVE NoNeedlessRefresh'
  BY <1>14 DEF StartLogout
<1>15. ASSUME NEW l \in Logouts, LogoutAcquires(l) PROVE NoNeedlessRefresh'
  BY <1>15 DEF LogoutAcquires
<1>16. ASSUME NEW l \in Logouts, LogoutWaitEnds(l) PROVE NoNeedlessRefresh'
  BY <1>16 DEF LogoutWaitEnds
<1>17. ASSUME NEW l \in Logouts, LogoutReread(l) PROVE NoNeedlessRefresh'
  BY <1>17 DEF LogoutReread
<1>18. ASSUME NEW l \in Logouts, KeycloakEndSession(l) PROVE NoNeedlessRefresh'
  BY <1>18 DEF KeycloakEndSession
<1>19. ASSUME NEW l \in Logouts, LogoutDelete(l) PROVE NoNeedlessRefresh'
  BY <1>19 DEF LogoutDelete
<1>20. ASSUME NEW p \in Procs, Release(p) PROVE NoNeedlessRefresh'
  BY <1>20 DEF Release
<1>21. ASSUME NEW p \in Procs, ReleaseFails(p) PROVE NoNeedlessRefresh'
  BY <1>21 DEF ReleaseFails
<1>22. ASSUME NEW p \in Procs, Crash(p) PROVE NoNeedlessRefresh'
  BY <1>22 DEF Crash
<1>23. ASSUME NEW a \in 1..kcAt, AccessTokenExpires(a) PROVE NoNeedlessRefresh'
  BY <1>23 DEF AccessTokenExpires
<1>24. ASSUME NEW z \in late, LateRefresh(z) PROVE NoNeedlessRefresh'
  BY <1>24 DEF LateRefresh
<1>25. ASSUME LockExpires PROVE NoNeedlessRefresh'
  BY <1>25 DEF LockExpires
<1>26. ASSUME TicketExpires PROVE NoNeedlessRefresh'
  BY <1>26 DEF TicketExpires
<1>27. ASSUME KeycloakEndsSession PROVE NoNeedlessRefresh'
  BY <1>27 DEF KeycloakEndsSession
<1>28. ASSUME BackchannelLogout PROVE NoNeedlessRefresh'
  BY <1>28 DEF BackchannelLogout
<1>29. ASSUME UNCHANGED vars PROVE NoNeedlessRefresh'
  BY <1>29 DEF vars
<1> QED
  BY <1>1, <1>2, <1>3, <1>4, <1>5, <1>6, <1>7, <1>8, <1>9, <1>10, <1>11, <1>12,
     <1>13, <1>14, <1>15, <1>16, <1>17, <1>18, <1>19, <1>20, <1>21, <1>22, <1>23, <1>24,
     <1>25, <1>26, <1>27, <1>28, <1>29, NextCases

(* Nobody asks Keycloak for a refresh while the stored access token is     *)
(* fresh.                                                                  *)
THEOREM RefreshNeeded == Spec => []NoNeedlessRefresh
<1>1. Init => NoNeedlessRefresh
  BY DEF Init, NoNeedlessRefresh, Procs
<1>2. /\ TypeOK /\ HandleOwnsLock /\ WorkHoldsLock /\ NoNeedlessRefresh
      /\ [Next]_vars
      => NoNeedlessRefresh'
  BY NeedlessStep
<1>3. QED
  BY <1>1, <1>2, WorkInvariant, PTL DEF Spec

(* None of the failures that lose an update: an expired lock, an abandoned *)
(* call to Keycloak, a failed write, a crash.                              *)
NoLostUpdate == Faults \cap LostUpdateFaults = {}

(* Ticket and Keycloak agree: the stored refresh token, or the one of the  *)
(* grant that waits to be stored, is the one Keycloak accepts; so is the   *)
(* one a lock holder sends; and a refusal under the lock means that        *)
(* Keycloak ended the session.                                             *)
SyncInv ==
  NoLostUpdate =>
    /\ late = {}
    /\ kcRt # 0
    /\ ticket # Gone /\ ticket.rt # 0 /\ (\A r \in Requests : ~Pending(r)) =>
         ticket.rt = kcRt
    /\ \A r \in Requests : Pending(r) =>
         reply[r].rt = kcRt /\ (ticket = Gone \/ ticket.rt # 0)
    /\ \A p \in Procs : handle[p] /\ pc[p] \in {"refreshing", "ending"} => sent[p] = kcRt
    /\ \A r \in Requests : pc[r] = "refreshing" => ticket = Gone \/ ticket.rt # 0
    /\ \A r \in Requests : pc[r] = "replied" /\ reply[r] = Gone => ~kcAlive

(* The four failures, one by one.                                          *)
LEMMA NoLostFaults ==
  ASSUME NoLostUpdate
  PROVE  /\ "ttl" \notin Faults /\ "timeout" \notin Faults
         /\ "write" \notin Faults /\ "crash" \notin Faults
  BY DEF NoLostUpdate, LostUpdateFaults

(* The fields of the null ticket.                                          *)
LEMMA GoneFields == Gone.at = 0 /\ Gone.rt = 0
  BY DEF Gone

(* Every step keeps SyncInv.                                               *)
LEMMA SyncStep ==
  ASSUME TypeOK, HandleOwnsLock, WorkHoldsLock, SyncInv, [Next]_vars
  PROVE  SyncInv'
<1> USE ProcsAssumption, OneWorker, TokenTypes, GoneFields, NoLostFaults
  DEF SyncInv, Pending, TypeOK, Procs, store, keycloak, Goto, Respond, Finish
<1>1. ASSUME NEW r \in Requests, StartRequest(r) PROVE SyncInv'
  BY <1>1 DEF StartRequest
<1>2. ASSUME NEW r \in Requests, TryAcquire(r) PROVE SyncInv'
  BY <1>2 DEF TryAcquire
<1>3. ASSUME NEW r \in Requests, AcquireAborted(r) PROVE SyncInv'
  BY <1>3 DEF AcquireAborted
<1>4. ASSUME NEW r \in Requests, Poll(r) PROVE SyncInv'
  BY <1>4 DEF Poll
<1>5. ASSUME NEW r \in Requests, WaitTimesOut(r) PROVE SyncInv'
  BY <1>5 DEF WaitTimesOut
<1>6. ASSUME NEW r \in Requests, RereadUnderLock(r) PROVE SyncInv'
  BY <1>6 DEF RereadUnderLock, Retrieve, NeedsRefresh
<1>7. ASSUME NEW r \in Requests, KeycloakRefresh(r) PROVE SyncInv'
  <2> SUFFICES ASSUME NoLostUpdate PROVE SyncInv'
    BY DEF SyncInv, NoLostUpdate
  <2>1. /\ pc[r] = "refreshing" /\ handle[r] /\ r \in Procs
        /\ sent[r] = kcRt /\ kcRt # 0 /\ late = {}
        /\ ticket = Gone \/ ticket.rt # 0
    BY <1>7 DEF KeycloakRefresh, WorkHoldsLock
  <2>2. /\ \A p \in Procs : handle[p] => p = r
        /\ \A q \in Requests : pc[q] \in {"locked", "refreshing", "replied"} => q = r
    BY <2>1
  <2>3. /\ pc' = [pc EXCEPT ![r] = "replied"]
        /\ ticket' = ticket /\ late' = late /\ kcAlive' = kcAlive
        /\ handle' = handle /\ sent' = sent
    BY <1>7 DEF KeycloakRefresh
  <2>4. /\ pc'[r] = "replied"
        /\ \A q \in Requests : pc'[q] \in {"locked", "refreshing", "replied"} => q = r
        /\ \A p \in Procs : handle'[p] => p = r
    BY <2>1, <2>2, <2>3
  <2>5. \/ reply'[r] # Gone /\ reply'[r].rt = kcRt' /\ kcRt' # 0
        \/ reply'[r] = Gone /\ ~kcAlive /\ kcRt' = kcRt
    <3>1. CASE /\ Accepts(sent[r]) /\ Grant
             /\ reply' = [reply EXCEPT ![r] = [at |-> kcAt', rt |-> kcRt']]
      <4>1. reply'[r] = [at |-> kcAt + 1, rt |-> kcRt']
        BY <3>1, <2>1 DEF Grant
      <4>2. kcRt' \in Nat \ {0}
        BY <3>1, <2>1 DEF Grant
      <4>3. reply'[r] # Gone
        BY <4>1, <4>2 DEF Gone
      <4> QED
        BY <4>1, <4>2, <4>3
    <3>2. CASE /\ ~Accepts(sent[r]) /\ reply' = [reply EXCEPT ![r] = Gone]
             /\ kcRt' = kcRt
      BY <3>2, <2>1 DEF Accepts
    <3> QED
      BY <1>7, <3>1, <3>2 DEF KeycloakRefresh
  <2>6. ASSUME NEW q \in Requests, Pending(q)' PROVE q = r /\ reply'[r] # Gone
    BY <2>4, <2>6
  <2>7. \A q \in Requests : Pending(q)' =>
          reply'[q].rt = kcRt' /\ (ticket' = Gone \/ ticket'.rt # 0)
    BY <2>1, <2>3, <2>5, <2>6
  <2>8. ticket' # Gone /\ ticket'.rt # 0 /\ (\A q \in Requests : ~Pending(q)') =>
          ticket'.rt = kcRt'
    <3>1. CASE reply'[r] # Gone
      BY <3>1, <2>4
    <3>2. CASE reply'[r] = Gone
      <4>1. \A q \in Requests : ~Pending(q)
        BY <2>1, <2>2
      <4> QED
        BY <4>1, <3>2, <2>3, <2>5
    <3> QED
      BY <3>1, <3>2
  <2>9. /\ \A p \in Procs : ~(handle'[p] /\ pc'[p] \in {"refreshing", "ending"})
        /\ \A q \in Requests : pc'[q] # "refreshing"
        /\ \A q \in Requests : pc'[q] = "replied" /\ reply'[q] = Gone => ~kcAlive'
    BY <2>3, <2>4, <2>5
  <2> QED
    BY <2>1, <2>3, <2>5, <2>7, <2>8, <2>9
<1>8. ASSUME NEW r \in Requests, RefreshFails(r) PROVE SyncInv'
  BY <1>8 DEF RefreshFails
<1>9. ASSUME NEW r \in Requests, ReplyLost(r) PROVE SyncInv'
  BY <1>9 DEF ReplyLost
<1>10. ASSUME NEW r \in Requests, WriteBack(r) PROVE SyncInv'
  BY <1>10 DEF WriteBack, TryUpdateTokens, ApplyRefreshedTokens
<1>11. ASSUME NEW r \in Requests, WriteBackFails(r) PROVE SyncInv'
  BY <1>11 DEF WriteBackFails
<1>12. ASSUME NEW r \in Requests, HandleInvalidGrant(r) PROVE SyncInv'
  BY <1>12 DEF HandleInvalidGrant
<1>13. ASSUME NEW r \in Requests, SignOut(r) PROVE SyncInv'
  BY <1>13 DEF SignOut
<1>14. ASSUME NEW l \in Logouts, StartLogout(l) PROVE SyncInv'
  BY <1>14 DEF StartLogout
<1>15. ASSUME NEW l \in Logouts, LogoutAcquires(l) PROVE SyncInv'
  BY <1>15 DEF LogoutAcquires
<1>16. ASSUME NEW l \in Logouts, LogoutWaitEnds(l) PROVE SyncInv'
  BY <1>16 DEF LogoutWaitEnds
<1>17. ASSUME NEW l \in Logouts, LogoutReread(l) PROVE SyncInv'
  BY <1>17 DEF LogoutReread, Retrieve
<1>18. ASSUME NEW l \in Logouts, KeycloakEndSession(l) PROVE SyncInv'
  BY <1>18 DEF KeycloakEndSession
<1>19. ASSUME NEW l \in Logouts, LogoutDelete(l) PROVE SyncInv'
  BY <1>19 DEF LogoutDelete
<1>20. ASSUME NEW p \in Procs, Release(p) PROVE SyncInv'
  BY <1>20 DEF Release
<1>21. ASSUME NEW p \in Procs, ReleaseFails(p) PROVE SyncInv'
  BY <1>21 DEF ReleaseFails
<1>22. ASSUME NEW p \in Procs, Crash(p) PROVE SyncInv'
  BY <1>22 DEF Crash
<1>23. ASSUME NEW a \in 1..kcAt, AccessTokenExpires(a) PROVE SyncInv'
  BY <1>23 DEF AccessTokenExpires
<1>24. ASSUME NEW z \in late, LateRefresh(z) PROVE SyncInv'
  BY <1>24 DEF LateRefresh
<1>25. ASSUME LockExpires PROVE SyncInv'
  BY <1>25 DEF LockExpires
<1>26. ASSUME TicketExpires PROVE SyncInv'
  BY <1>26 DEF TicketExpires
<1>27. ASSUME KeycloakEndsSession PROVE SyncInv'
  BY <1>27 DEF KeycloakEndsSession
<1>28. ASSUME BackchannelLogout PROVE SyncInv'
  BY <1>28 DEF BackchannelLogout
<1>29. ASSUME UNCHANGED vars PROVE SyncInv'
  BY <1>29 DEF vars
<1> QED
  BY <1>1, <1>2, <1>3, <1>4, <1>5, <1>6, <1>7, <1>8, <1>9, <1>10, <1>11, <1>12,
     <1>13, <1>14, <1>15, <1>16, <1>17, <1>18, <1>19, <1>20, <1>21, <1>22, <1>23, <1>24,
     <1>25, <1>26, <1>27, <1>28, <1>29, NextCases

(* SyncInv and what it rests on, in every state.                           *)
LEMMA SyncInvariant == Spec => [](TypeOK /\ HandleOwnsLock /\ WorkHoldsLock /\ SyncInv)
<1>1. Init => SyncInv
  BY DEF Init, SyncInv, Pending, Procs
<1>2. TypeOK /\ HandleOwnsLock /\ WorkHoldsLock /\ SyncInv /\ [Next]_vars => SyncInv'
  BY SyncStep
<1>3. QED
  BY <1>1, <1>2, WorkInvariant, PTL DEF Spec

(* Without a lost update the refresh token sent under the lock is the one  *)
(* Keycloak accepts.                                                       *)
THEOREM CurrentTokenSent == Spec => []LockHolderSendsCurrentToken
<1>1. SyncInv => LockHolderSendsCurrentToken
  BY DEF SyncInv, NoLostUpdate, LockHolderSendsCurrentToken
<1>2. QED
  BY <1>1, SyncInvariant, PTL

(* A request that is about to sign the user out, or will once its lock is  *)
(* released, does so because the session is over.                          *)
OverInv ==
  NoLostUpdate /\ "read" \notin Faults =>
    \A r \in Requests :
      pc[r] = "signout" \/ (pc[r] = "releasing" /\ result[r] = "ended") => SessionOver

(* Every step keeps OverInv: a session that is over stays over.            *)
LEMMA OverStep ==
  ASSUME TypeOK, HandleOwnsLock, WorkHoldsLock, SyncInv, OverInv, [Next]_vars
  PROVE  OverInv'
<1> USE ProcsAssumption, TokenTypes, GoneFields, NoLostFaults
  DEF OverInv, SyncInv, SessionOver, Pending, TypeOK, Procs, store, keycloak,
      Goto, Respond, Finish
<1>1. ASSUME NEW r \in Requests, StartRequest(r) PROVE OverInv'
  BY <1>1 DEF StartRequest
<1>2. ASSUME NEW r \in Requests, TryAcquire(r) PROVE OverInv'
  BY <1>2 DEF TryAcquire
<1>3. ASSUME NEW r \in Requests, AcquireAborted(r) PROVE OverInv'
  BY <1>3 DEF AcquireAborted
<1>4. ASSUME NEW r \in Requests, Poll(r) PROVE OverInv'
  BY <1>4 DEF Poll, Retrieve
<1>5. ASSUME NEW r \in Requests, WaitTimesOut(r) PROVE OverInv'
  BY <1>5 DEF WaitTimesOut
<1>6. ASSUME NEW r \in Requests, RereadUnderLock(r) PROVE OverInv'
  BY <1>6 DEF RereadUnderLock, Retrieve, NeedsRefresh
<1>7. ASSUME NEW r \in Requests, KeycloakRefresh(r) PROVE OverInv'
  BY <1>7 DEF KeycloakRefresh, Grant, Accepts
<1>8. ASSUME NEW r \in Requests, RefreshFails(r) PROVE OverInv'
  BY <1>8 DEF RefreshFails
<1>9. ASSUME NEW r \in Requests, ReplyLost(r) PROVE OverInv'
  BY <1>9 DEF ReplyLost
<1>10. ASSUME NEW r \in Requests, WriteBack(r) PROVE OverInv'
  BY <1>10 DEF WriteBack, TryUpdateTokens, ApplyRefreshedTokens
<1>11. ASSUME NEW r \in Requests, WriteBackFails(r) PROVE OverInv'
  BY <1>11 DEF WriteBackFails
<1>12. ASSUME NEW r \in Requests, HandleInvalidGrant(r) PROVE OverInv'
  BY <1>12 DEF HandleInvalidGrant, Retrieve
<1>13. ASSUME NEW r \in Requests, SignOut(r) PROVE OverInv'
  BY <1>13 DEF SignOut
<1>14. ASSUME NEW l \in Logouts, StartLogout(l) PROVE OverInv'
  BY <1>14 DEF StartLogout
<1>15. ASSUME NEW l \in Logouts, LogoutAcquires(l) PROVE OverInv'
  BY <1>15 DEF LogoutAcquires
<1>16. ASSUME NEW l \in Logouts, LogoutWaitEnds(l) PROVE OverInv'
  BY <1>16 DEF LogoutWaitEnds
<1>17. ASSUME NEW l \in Logouts, LogoutReread(l) PROVE OverInv'
  BY <1>17 DEF LogoutReread
<1>18. ASSUME NEW l \in Logouts, KeycloakEndSession(l) PROVE OverInv'
  BY <1>18 DEF KeycloakEndSession
<1>19. ASSUME NEW l \in Logouts, LogoutDelete(l) PROVE OverInv'
  BY <1>19 DEF LogoutDelete
<1>20. ASSUME NEW p \in Procs, Release(p) PROVE OverInv'
  BY <1>20 DEF Release
<1>21. ASSUME NEW p \in Procs, ReleaseFails(p) PROVE OverInv'
  BY <1>21 DEF ReleaseFails
<1>22. ASSUME NEW p \in Procs, Crash(p) PROVE OverInv'
  BY <1>22 DEF Crash
<1>23. ASSUME NEW a \in 1..kcAt, AccessTokenExpires(a) PROVE OverInv'
  BY <1>23 DEF AccessTokenExpires
<1>24. ASSUME NEW z \in late, LateRefresh(z) PROVE OverInv'
  BY <1>24 DEF LateRefresh
<1>25. ASSUME LockExpires PROVE OverInv'
  BY <1>25 DEF LockExpires
<1>26. ASSUME TicketExpires PROVE OverInv'
  BY <1>26 DEF TicketExpires
<1>27. ASSUME KeycloakEndsSession PROVE OverInv'
  BY <1>27 DEF KeycloakEndsSession
<1>28. ASSUME BackchannelLogout PROVE OverInv'
  BY <1>28 DEF BackchannelLogout
<1>29. ASSUME UNCHANGED vars PROVE OverInv'
  BY <1>29 DEF vars
<1> QED
  BY <1>1, <1>2, <1>3, <1>4, <1>5, <1>6, <1>7, <1>8, <1>9, <1>10, <1>11, <1>12,
     <1>13, <1>14, <1>15, <1>16, <1>17, <1>18, <1>19, <1>20, <1>21, <1>22, <1>23, <1>24,
     <1>25, <1>26, <1>27, <1>28, <1>29, NextCases

(* Without failures a request is told that its session ended only when it  *)
(* has.                                                                    *)
THEOREM SignOutJustified == Spec => []FaultFreeSignOut
<1>1. Init => OverInv
  BY DEF Init, OverInv, Procs
<1>2. /\ TypeOK /\ HandleOwnsLock /\ WorkHoldsLock /\ SyncInv /\ OverInv
      /\ [Next]_vars
      => OverInv'
  BY OverStep
<1>3. OverInv => FaultFreeSignOut
  BY DEF OverInv, NoLostUpdate, FaultFreeSignOut, SignOutOnlyWhenOver, LostUpdateFaults
<1>4. QED
  BY <1>1, <1>2, <1>3, SyncInvariant, PTL DEF Spec

(* A step that changes neither the ticket nor what waits to be stored.     *)
QuietMove ==
  /\ ticket' = ticket /\ kcAt' = kcAt /\ kcAlive' \in {kcAlive, FALSE}
  /\ \A r \in Requests :
       Pending(r)' = Pending(r) /\ (Pending(r) => reply'[r] = reply[r])

(* A step that ends with the ticket deleted.                               *)
Deletion == ticket' = Gone /\ kcAlive' = kcAlive /\ kcAt' = kcAt

(* What a step can do to the tokens that count.                            *)
Moves ==
  \/ QuietMove
  \/ Deletion
  \/ \E r \in Requests : KeycloakRefresh(r) \/ (WriteBack(r) /\ ticket # Gone)

(* Without a lost update every step is one of Moves.                       *)
LEMMA MoveStep ==
  ASSUME NoLostUpdate, TypeOK, SyncInv, [Next]_vars
  PROVE  Moves
<1> USE ProcsAssumption, NoLostFaults
  DEF Moves, QuietMove, Deletion, Pending, TypeOK, Procs, store, keycloak,
      Goto, Respond, Finish
<1>1. ASSUME NEW r \in Requests, StartRequest(r) PROVE Moves
  BY <1>1 DEF StartRequest
<1>2. ASSUME NEW r \in Requests, TryAcquire(r) PROVE Moves
  BY <1>2 DEF TryAcquire
<1>3. ASSUME NEW r \in Requests, AcquireAborted(r) PROVE Moves
  BY <1>3 DEF AcquireAborted
<1>4. ASSUME NEW r \in Requests, Poll(r) PROVE Moves
  BY <1>4 DEF Poll
<1>5. ASSUME NEW r \in Requests, WaitTimesOut(r) PROVE Moves
  BY <1>5 DEF WaitTimesOut
<1>6. ASSUME NEW r \in Requests, RereadUnderLock(r) PROVE Moves
  BY <1>6 DEF RereadUnderLock
<1>7. ASSUME NEW r \in Requests, KeycloakRefresh(r) PROVE Moves
  BY <1>7
<1>8. ASSUME NEW r \in Requests, RefreshFails(r) PROVE Moves
  BY <1>8 DEF RefreshFails
<1>9. ASSUME NEW r \in Requests, ReplyLost(r) PROVE Moves
  BY <1>9 DEF ReplyLost
<1>10. ASSUME NEW r \in Requests, WriteBack(r) PROVE Moves
  BY <1>10 DEF WriteBack, TryUpdateTokens
<1>11. ASSUME NEW r \in Requests, WriteBackFails(r) PROVE Moves
  BY <1>11 DEF WriteBackFails
<1>12. ASSUME NEW r \in Requests, HandleInvalidGrant(r) PROVE Moves
  BY <1>12 DEF HandleInvalidGrant
<1>13. ASSUME NEW r \in Requests, SignOut(r) PROVE Moves
  BY <1>13 DEF SignOut
<1>14. ASSUME NEW l \in Logouts, StartLogout(l) PROVE Moves
  BY <1>14 DEF StartLogout
<1>15. ASSUME NEW l \in Logouts, LogoutAcquires(l) PROVE Moves
  BY <1>15 DEF LogoutAcquires
<1>16. ASSUME NEW l \in Logouts, LogoutWaitEnds(l) PROVE Moves
  BY <1>16 DEF LogoutWaitEnds
<1>17. ASSUME NEW l \in Logouts, LogoutReread(l) PROVE Moves
  BY <1>17 DEF LogoutReread
<1>18. ASSUME NEW l \in Logouts, KeycloakEndSession(l) PROVE Moves
  BY <1>18 DEF KeycloakEndSession
<1>19. ASSUME NEW l \in Logouts, LogoutDelete(l) PROVE Moves
  BY <1>19 DEF LogoutDelete
<1>20. ASSUME NEW p \in Procs, Release(p) PROVE Moves
  BY <1>20 DEF Release
<1>21. ASSUME NEW p \in Procs, ReleaseFails(p) PROVE Moves
  BY <1>21 DEF ReleaseFails
<1>22. ASSUME NEW p \in Procs, Crash(p) PROVE Moves
  BY <1>22 DEF Crash
<1>23. ASSUME NEW a \in 1..kcAt, AccessTokenExpires(a) PROVE Moves
  BY <1>23 DEF AccessTokenExpires
<1>24. ASSUME NEW z \in late, LateRefresh(z) PROVE Moves
  BY <1>24 DEF SyncInv
<1>25. ASSUME LockExpires PROVE Moves
  BY <1>25 DEF LockExpires
<1>26. ASSUME TicketExpires PROVE Moves
  BY <1>26 DEF TicketExpires
<1>27. ASSUME KeycloakEndsSession PROVE Moves
  BY <1>27 DEF KeycloakEndsSession
<1>28. ASSUME BackchannelLogout PROVE Moves
  BY <1>28 DEF BackchannelLogout
<1>29. ASSUME UNCHANGED vars PROVE Moves
  BY <1>29 DEF vars
<1> QED
  BY <1>1, <1>2, <1>3, <1>4, <1>5, <1>6, <1>7, <1>8, <1>9, <1>10, <1>11, <1>12,
     <1>13, <1>14, <1>15, <1>16, <1>17, <1>18, <1>19, <1>20, <1>21, <1>22, <1>23, <1>24,
     <1>25, <1>26, <1>27, <1>28, <1>29, NextCases

(* The tokens that count before a step: the one pending grant's, if the    *)
(* ticket is still there, and else the ticket's.                           *)
LEMMA CurrentNow ==
  ASSUME HandleOwnsLock, WorkHoldsLock, NoLostUpdate
  PROVE  /\ \A r \in Requests : Pending(r) =>
              CurrentTokens = IF ticket # Gone THEN reply[r] ELSE Gone
         /\ (\A r \in Requests : ~Pending(r)) => CurrentTokens = ticket
<1>1. \A q, r \in Requests : Pending(q) /\ Pending(r) => q = r
  BY NoLostFaults DEF HandleOwnsLock, WorkHoldsLock, Pending, Procs
<1>2. ASSUME NEW r \in Requests, Pending(r)
      PROVE  CurrentTokens = IF ticket # Gone THEN reply[r] ELSE Gone
  <2>1. (CHOOSE q \in Requests : Pending(q)) = r
    BY <1>1, <1>2
  <2> QED
    BY <2>1, <1>2 DEF CurrentTokens
<1>3. ASSUME \A r \in Requests : ~Pending(r) PROVE CurrentTokens = ticket
  BY <1>3 DEF CurrentTokens
<1> QED
  BY <1>2, <1>3

(* The same after a step.                                                  *)
LEMMA CurrentNext ==
  ASSUME HandleOwnsLock', WorkHoldsLock', NoLostUpdate
  PROVE  /\ \A r \in Requests : Pending(r)' =>
              CurrentTokens' = IF ticket' # Gone THEN reply'[r] ELSE Gone
         /\ (\A r \in Requests : ~Pending(r)') => CurrentTokens' = ticket'
<1>1. \A q, r \in Requests : Pending(q)' /\ Pending(r)' => q = r
  BY NoLostFaults DEF HandleOwnsLock, WorkHoldsLock, Pending, Procs
<1>2. ASSUME NEW r \in Requests, Pending(r)'
      PROVE  CurrentTokens' = IF ticket' # Gone THEN reply'[r] ELSE Gone
  <2>1. (CHOOSE q \in Requests : Pending(q)') = r
    BY <1>1, <1>2
  <2> QED
    BY <2>1, <1>2 DEF CurrentTokens
<1>3. ASSUME \A r \in Requests : ~Pending(r)' PROVE CurrentTokens' = ticket'
  BY <1>3 DEF CurrentTokens
<1> QED
  BY <1>2, <1>3

(* Every step is a step of AtomicSession on the tokens that count, or      *)
(* changes nothing it sees.                                                *)
LEMMA AtomicStep ==
  ASSUME NoLostUpdate, [Next]_vars,
         TypeOK, HandleOwnsLock, WorkHoldsLock, SyncInv,
         HandleOwnsLock', WorkHoldsLock'
  PROVE  [Atomic!ANext]_(Atomic!avars)
<1> DEFINE S == CurrentTokens
<1>a. /\ \A r \in Requests : Pending(r) =>
              S = IF ticket # Gone THEN reply[r] ELSE Gone
      /\ (\A r \in Requests : ~Pending(r)) => S = ticket
  BY CurrentNow
<1>b. /\ \A r \in Requests : Pending(r)' =>
              S' = IF ticket' # Gone THEN reply'[r] ELSE Gone
      /\ (\A r \in Requests : ~Pending(r)') => S' = ticket'
  BY CurrentNext
<1> HIDE DEF S
<1>1. CASE QuietMove
  <2>1. S' = S
    <3>1. CASE \E r \in Requests : Pending(r)
      BY <1>1, <1>a, <1>b, <3>1 DEF QuietMove
    <3>2. CASE \A r \in Requests : ~Pending(r)
      BY <1>1, <1>a, <1>b, <3>2 DEF QuietMove
    <3> QED
      BY <3>1, <3>2
  <2> QED
    BY <1>1, <2>1
      DEF QuietMove, S, TypeOK, Atomic!ANext, Atomic!avars,
          Atomic!KeycloakEnds
<1>2. CASE Deletion
  <2>1. S' = Gone
    BY <1>2, <1>b DEF Deletion
  <2> QED
    BY <1>2, <2>1
      DEF Deletion, S, Gone, Atomic!ANext, Atomic!avars,
          Atomic!EndSession, Atomic!NoSession
<1>3. ASSUME NEW r \in Requests, KeycloakRefresh(r)
      PROVE  [Atomic!ANext]_(Atomic!avars)
  <2>1. /\ r \in Procs /\ pc[r] = "refreshing" /\ sent[r] = kcRt /\ kcRt \in Nat \ {0}
        /\ ticket = Gone \/ ticket.rt # 0
        /\ \A q \in Requests : ~Pending(q)
        /\ ticket # Gone => ticket.rt = kcRt
    BY <1>3, OneWorker, NoLostFaults
      DEF KeycloakRefresh, WorkHoldsLock, SyncInv, Procs, TypeOK, Pending
  <2>2. S = ticket /\ ticket' = ticket /\ kcAlive' = kcAlive
    BY <2>1, <1>a, <1>3 DEF KeycloakRefresh, store
  <2>3. pc' = [pc EXCEPT ![r] = "replied"]
    BY <1>3 DEF KeycloakRefresh, Goto
  <2>4. CASE /\ Accepts(sent[r]) /\ Grant
             /\ reply' = [reply EXCEPT ![r] = [at |-> kcAt', rt |-> kcRt']]
    <3>1. /\ kcAlive /\ kcAt' = kcAt + 1 /\ kcAt \in Nat
          /\ kcRt' \in {kcRt + 1, kcRt}
          /\ reply'[r] = [at |-> kcAt', rt |-> kcRt']
      BY <2>1, <2>4 DEF Accepts, Grant, TypeOK
    <3>2. Pending(r)'
      <4>1. reply'[r] # Gone
        BY <3>1, <2>1 DEF Gone
      <4>2. pc'[r] = "replied"
        BY <2>1, <2>3 DEF TypeOK
      <4> QED
        BY <4>1, <4>2 DEF Pending
    <3>3. CASE ticket = Gone
      <4>1. S = Gone /\ S' = Gone
        BY <3>2, <3>3, <2>2, <1>b
      <4> QED
        BY <4>1, <3>1, <2>2
          DEF S, Gone, Atomic!ANext, Atomic!GrantToNobody,
              Atomic!NoSession
    <3>4. CASE ticket # Gone
      <4>1. S' = [at |-> kcAt', rt |-> kcRt'] /\ S.rt = kcRt
        BY <3>1, <3>2, <3>4, <2>1, <2>2, <1>b
      <4> QED
        BY <4>1, <3>1, <2>1, <2>2 DEF S, Atomic!ANext, Atomic!Refresh
    <3> QED
      BY <3>3, <3>4
  <2>5. CASE /\ ~Accepts(sent[r]) /\ reply' = [reply EXCEPT ![r] = Gone]
             /\ UNCHANGED <<kcAt, kcRt>>
    <3>1. \A q \in Requests : ~Pending(q)'
      BY <2>1, <2>3, <2>5 DEF Pending, TypeOK, Procs
    <3> QED
      BY <3>1, <2>2, <2>5, <1>b DEF S, Atomic!avars
  <2> QED
    BY <1>3, <2>4, <2>5 DEF KeycloakRefresh
<1>4. ASSUME NEW r \in Requests, WriteBack(r), ticket # Gone
      PROVE  [Atomic!ANext]_(Atomic!avars)
  <2>1. /\ r \in Procs /\ pc[r] = "replied" /\ Pending(r) /\ reply[r] \in Tokens
        /\ \A q \in Requests : Pending(q) => q = r
    BY <1>4, OneWorker, NoLostFaults DEF WriteBack, Procs, TypeOK, Pending
  <2>2. ticket' = reply[r]
    BY <1>4, <2>1 DEF WriteBack, TryUpdateTokens, ApplyRefreshedTokens, Tokens
  <2>3. \A q \in Requests : ~Pending(q)'
    BY <1>4, <2>1 DEF WriteBack, Finish, Pending, TypeOK, Procs
  <2>4. S' = S
    BY <1>4, <1>a, <1>b, <2>1, <2>2, <2>3
  <2> QED
    BY <2>4, <1>4 DEF S, WriteBack, keycloak, Atomic!avars
<1> QED
  BY <1>1, <1>2, <1>3, <1>4, MoveStep DEF Moves

(* The session starts as AtomicSession does.                               *)
LEMMA AtomicInit == Init => Atomic!AInit
<1> SUFFICES ASSUME Init PROVE Atomic!AInit
  OBVIOUS
<1>1. \A r \in Requests : ~Pending(r)
  BY DEF Init, Pending, Procs
<1>2. CurrentTokens = ticket
  BY <1>1 DEF CurrentTokens
<1> QED
  BY <1>2 DEF Init, Atomic!AInit

(* Lock, re-read and conditional write make a refresh atomic: without a    *)
(* lost update the protocol implements AtomicSession, for any number of    *)
(* requests and logouts.                                                   *)
THEOREM RefreshIsAtomic == NoLostUpdate => (Spec => ImplementsAtomicSession)
<1> SUFFICES ASSUME NoLostUpdate PROVE Spec => ImplementsAtomicSession
  OBVIOUS
<1>1. /\ TypeOK /\ HandleOwnsLock /\ WorkHoldsLock /\ SyncInv
      /\ HandleOwnsLock' /\ WorkHoldsLock' /\ [Next]_vars
      => [Atomic!ANext]_(Atomic!avars)
  BY AtomicStep
<1>2. QED
  BY <1>1, AtomicInit, SyncInvariant, PTL
    DEF Spec, ImplementsAtomicSession, Atomic!ASpec
=============================================================================
