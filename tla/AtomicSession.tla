---------------------------- MODULE AtomicSession ---------------------------
(***************************************************************************)
(* What the BFF promises of one session when nothing fails: the ticket and *)
(* Keycloak agree.  A refresh changes both in one step, the session ends   *)
(* once and for good, and after that a grant that was already under way    *)
(* goes to nobody.                                                         *)
(***************************************************************************)
EXTENDS Naturals

VARIABLES session,   \* the session's current tokens, NoSession once it ended
          alive,     \* Keycloak still has the SSO session
          issued     \* the last access token Keycloak issued

avars == <<session, alive, issued>>

NoSession == [at |-> 0, rt |-> 0]

AInit ==
  /\ session \in {[at |-> 1, rt |-> 1], [at |-> 1, rt |-> 0]}
  /\ alive = TRUE
  /\ issued = 1

(* The session moves to the tokens Keycloak just issued.                   *)
Refresh ==
  /\ alive
  /\ session.rt # 0
  /\ issued' = issued + 1
  /\ session' \in {[at |-> issued', rt |-> session.rt + 1],
                   [at |-> issued', rt |-> session.rt]}
  /\ UNCHANGED alive

(* Keycloak issues tokens for a session whose ticket is already deleted.   *)
GrantToNobody ==
  /\ alive
  /\ session = NoSession
  /\ issued' = issued + 1
  /\ UNCHANGED <<session, alive>>

EndSession ==
  /\ session # NoSession
  /\ session' = NoSession
  /\ UNCHANGED <<alive, issued>>

KeycloakEnds ==
  /\ alive
  /\ alive' = FALSE
  /\ UNCHANGED <<session, issued>>

ANext == Refresh \/ GrantToNobody \/ EndSession \/ KeycloakEnds

ASpec == AInit /\ [][ANext]_avars
=============================================================================
