------------------------- MODULE Entitlements_proofs ------------------------
(***************************************************************************)
(* Proofs about Entitlements, for any number of commands and evaluations,  *)
(* any reasons, any clock and any length of a trial.                       *)
(***************************************************************************)
EXTENDS Entitlements, TLAPS

-----------------------------------------------------------------------------
(* Types *)

(* The constants and the kinds of values.                                  *)
LEMMA Basics ==
  /\ MaxTime \in Nat /\ TrialLength \in Nat /\ 1 <= TrialLength
  /\ Never = MaxTime + 1 /\ Time = 0..MaxTime
  /\ NoRow \notin Overrides /\ NoRow \notin Time /\ NoWrite \notin Overrides /\ NoWrite # NoRow
  BY TimeAssumption, NullAssumption DEF Never, Time

(* A command that asks nothing yet is well typed.                          *)
LEMMA UnaskedType == Unasked \in Asked
  BY ReasonsAssumption, TimeAssumption DEF Unasked, Asked, Kinds, Expiries, Time

(* Saving a change keeps the row an override, and its id.                  *)
LEMMA ReplaceType ==
  ASSUME TypeOK, NEW c \in Commands, row # NoRow
  PROVE  Replace(c) \in Overrides /\ Replace(c).id = row.id
<1>1. row \in Overrides /\ asked[c] \in Asked
  BY DEF TypeOK
<1>2. /\ Pick(seen[c].reason, asked[c].reason, row.reason) \in Reasons
      /\ Pick(seen[c].exp, asked[c].exp, row.exp) \in Expiries
      /\ Pick(seen[c].granted, asked[c].at, row.granted) \in Time
  BY <1>1 DEF Overrides, Asked, Pick
<1> QED
  BY <1>1, <1>2 DEF Replace, Overrides

(* An inserted override is one, and carries the id of its command.         *)
LEMMA NewOverrideType ==
  ASSUME TypeOK, NEW c \in Commands
  PROVE  NewOverride(c) \in Overrides /\ NewOverride(c).id = c
  BY DEF TypeOK, NewOverride, Overrides, Asked

(* The initial state is well typed.                                        *)
LEMMA TypeInit == Init => TypeOK
<1> SUFFICES ASSUME Init PROVE TypeOK
  OBVIOUS
<1> USE DEF Init
<1>1. 0 \in Time
  BY TimeAssumption DEF Time
<1>2. /\ now \in Time /\ tenantExists \in BOOLEAN /\ row \in Overrides \cup {NoRow}
      /\ trial \in Time \cup {NoRow} /\ audit \subseteq Commands
  BY <1>1
<1>3. /\ pc \in [Commands -> Steps] /\ asked \in [Commands -> Asked]
      /\ seen \in [Commands -> Overrides \cup {NoRow}]
      /\ pend \in [Commands -> Overrides \cup {NoRow, NoWrite}]
  BY UnaskedType DEF Steps
<1>4. /\ verdict \in [Commands -> {"none", "ok", "refused", "notFound", "trialUsed", "conflict", "error"}]
      /\ epc \in [Evaluators -> {"idle", "override", "trial"}] /\ at \in [Evaluators -> Time]
      /\ answer \in [Evaluators -> {"none", "enabled", "disabled"}]
  BY <1>1
<1>5. /\ absent \in [Commands -> BOOLEAN] /\ always \in [Evaluators -> BOOLEAN]
      /\ once \in [Evaluators -> BOOLEAN]
  OBVIOUS
<1> QED
  BY <1>2, <1>3, <1>4, <1>5 DEF TypeOK

(* The history variables keep their types in every step.                  *)
LEMMA HistoryTypes ==
  ASSUME TypeOK, Observe
  PROVE  /\ absent' \in [Commands -> BOOLEAN]
         /\ always' \in [Evaluators -> BOOLEAN]
         /\ once' \in [Evaluators -> BOOLEAN]
  BY DEF TypeOK, Observe, Entitled

(* What a running command has noted stays noted, and a missing override is *)
(* noted at once.                                                          *)
LEMMA AbsentNoted ==
  ASSUME TypeOK, Observe, NEW c \in Commands, pc'[c] # "new"
  PROVE  /\ absent[c] => absent'[c]
         /\ pc[c] \notin {"new", "done"} /\ row' = NoRow => absent'[c]
         /\ pc[c] = "new" /\ row = NoRow => absent'[c]
  BY DEF TypeOK, Observe

(* The tenant check changes nothing of what was asked but a trial's time.  *)
LEMMA CheckTenantAsks ==
  ASSUME TypeOK, NEW c \in Commands, CheckTenant(c)
  PROVE  /\ asked' \in [Commands -> Asked]
         /\ \A q \in Commands : asked'[q].kind = asked[q].kind
<1>1. now \in Time /\ asked \in [Commands -> Asked]
  BY DEF TypeOK
<1>2. CASE asked' = asked
  BY <1>1, <1>2
<1>3. CASE asked' = [asked EXCEPT ![c].at = now]
  BY <1>1, <1>3 DEF Asked
<1>4. asked' = asked \/ asked' = [asked EXCEPT ![c].at = now]
  <2>1. CASE asked[c].kind = "trial"
    BY <2>1 DEF CheckTenant
  <2>2. CASE asked[c].kind # "trial"
    BY <1>1, <2>2 DEF CheckTenant, Asked
  <2> QED
    BY <2>1, <2>2
<1> QED
  BY <1>2, <1>3, <1>4

(* Every step keeps the types.                                             *)
LEMMA TypeStep ==
  ASSUME TypeOK, [Next]_vars
  PROVE  TypeOK'
<1> USE HistoryTypes DEF TypeOK, Steps, Goto, End, tables, command, evaluation, history
<1>1. ASSUME NEW c \in Commands, Refuse(c), Observe PROVE TypeOK'
  BY <1>1 DEF Refuse
<1>2. ASSUME NEW c \in Commands, StartGrant(c), Observe PROVE TypeOK'
  <2>1. asked' \in [Commands -> Asked]
    BY <1>2 DEF StartGrant, Asked, Kinds
  <2> QED
    BY <1>2, <2>1 DEF StartGrant
<1>3. ASSUME NEW c \in Commands, StartRevoke(c), Observe PROVE TypeOK'
  <2>1. asked' \in [Commands -> Asked]
    BY <1>3 DEF StartRevoke, Asked, Kinds
  <2> QED
    BY <1>3, <2>1 DEF StartRevoke
<1>4. ASSUME NEW c \in Commands, StartTrial(c), Observe PROVE TypeOK'
  <2>1. asked' \in [Commands -> Asked]
    BY <1>4 DEF StartTrial, Asked, Kinds
  <2> QED
    BY <1>4, <2>1 DEF StartTrial
<1>5. ASSUME NEW c \in Commands, CheckTenant(c), Observe PROVE TypeOK'
  <2>1. asked' \in [Commands -> Asked]
    BY <1>5, CheckTenantAsks
  <2> QED
    BY <1>5, <2>1 DEF CheckTenant
<1>6. ASSUME NEW c \in Commands, ReadOverride(c), Observe PROVE TypeOK'
  BY <1>6 DEF ReadOverride
<1>7. ASSUME NEW c \in Commands, GrantInsert(c), Observe PROVE TypeOK'
  <2>1. NewOverride(c) \in Overrides
    BY NewOverrideType
  <2>2. pend' \in [Commands -> Overrides \cup {NoRow, NoWrite}]
    BY <1>7, <2>1 DEF GrantInsert
  <2> QED
    BY <1>7, <2>2 DEF GrantInsert
<1>8. ASSUME NEW c \in Commands, GrantReread(c), Observe PROVE TypeOK'
  BY <1>8 DEF GrantReread
<1>9. ASSUME NEW c \in Commands, GrantUpdate(c), Observe PROVE TypeOK'
  <2>1. Replace(c) \in Overrides
    BY <1>9, ReplaceType DEF GrantUpdate, SameRow
  <2>2. pend' \in [Commands -> Overrides \cup {NoRow, NoWrite}]
    BY <1>9, <2>1 DEF GrantUpdate
  <2> QED
    BY <1>9, <2>2 DEF GrantUpdate
<1>10. ASSUME NEW c \in Commands, GrantUnchanged(c), Observe PROVE TypeOK'
  BY <1>10 DEF GrantUnchanged
<1>11. ASSUME NEW c \in Commands, GrantConflict(c), Observe PROVE TypeOK'
  BY <1>11 DEF GrantConflict
<1>12. ASSUME NEW c \in Commands, RevokeDelete(c), Observe PROVE TypeOK'
  BY <1>12 DEF RevokeDelete
<1>13. ASSUME NEW c \in Commands, ReadTrial(c), Observe PROVE TypeOK'
  BY <1>13 DEF ReadTrial
<1>14. ASSUME NEW c \in Commands, TrialInsert(c), Observe PROVE TypeOK'
  BY <1>14 DEF TrialInsert
<1>15. ASSUME NEW c \in Commands, AppendAudit(c), Observe PROVE TypeOK'
  BY <1>15 DEF AppendAudit, AppendRecord
<1>16. ASSUME NEW c \in Commands, Commit(c), Observe PROVE TypeOK'
  BY <1>16 DEF Commit, Apply, Asked
<1>17. ASSUME NEW c \in Commands, Fail(c), Observe PROVE TypeOK'
  <2>1. row' \in Overrides \cup {NoRow} /\ trial' \in Time \cup {NoRow} /\ audit' \subseteq Commands
    BY <1>17 DEF Fail, Apply, Asked
  <2> QED
    BY <1>17, <2>1 DEF Fail
<1>18. ASSUME NEW e \in Evaluators, StartEvaluation(e), Observe PROVE TypeOK'
  BY <1>18 DEF StartEvaluation
<1>19. ASSUME NEW e \in Evaluators, EvaluateOverride(e), Observe PROVE TypeOK'
  BY <1>19 DEF EvaluateOverride, Evaluated
<1>20. ASSUME NEW e \in Evaluators, EvaluateTrial(e), Observe PROVE TypeOK'
  BY <1>20 DEF EvaluateTrial, Evaluated
<1>21. ASSUME Tick, Observe PROVE TypeOK'
  BY <1>21, Basics DEF Tick
<1>22. ASSUME Provision, Observe PROVE TypeOK'
  BY <1>22 DEF Provision
<1>23. ASSUME UNCHANGED vars PROVE TypeOK'
  BY <1>23 DEF vars
<1> QED
  BY <1>1, <1>2, <1>3, <1>4, <1>5, <1>6, <1>7, <1>8, <1>9, <1>10, <1>11, <1>12,
     <1>13, <1>14, <1>15, <1>16, <1>17, <1>18, <1>19, <1>20, <1>21, <1>22, <1>23 DEF Next, CommandStep

(* Type correctness: every reachable state is well typed, whatever the     *)
(* commands, evaluations and clock.                                        *)
THEOREM TypeCorrect == Spec => []TypeOK
  BY TypeInit, TypeStep, PTL DEF Spec

(* A record belongs to a command that has ended, with success or with a    *)
(* lost answer; a success has its record.                                  *)
EndedInv ==
  /\ \A c \in audit : pc[c] = "done" /\ verdict[c] \in {"ok", "error"}
  /\ \A c \in Commands : verdict[c] = "ok" => c \in audit

(* The row's writer is on record. One transaction at most has written the  *)
(* override and not ended; what it wrote is a new row with its own id, or  *)
(* the stored row under its id, and nobody changes the row meanwhile.      *)
WriteInv ==
  /\ row # NoRow => row.id \in audit
  /\ \A c \in Commands : pend[c] # NoWrite =>
       /\ pc[c] \in {"audit", "commit"}
       /\ pend[c] # NoRow =>
            /\ asked[c].kind = "grant"
            /\ pend[c].id = c \/ pend[c].id \in audit
            /\ row = NoRow \/ row.id = pend[c].id
       /\ \A q \in Commands : pend[q] # NoWrite => q = c

(* The command's transaction has inserted the trial and not ended.         *)
TrialOpen(c) == asked[c].kind = "trial" /\ pc[c] \in {"audit", "commit"}

(* One transaction at most has inserted the trial, and then there is no    *)
(* trial yet.                                                              *)
TrialInv ==
  \A c \in Commands : TrialOpen(c) =>
    trial = NoRow /\ \A q \in Commands : TrialOpen(q) => q = c

(* A running command has noted a missing override. A revoke about to       *)
(* delete has read a row, and that row is still there or was gone          *)
(* meanwhile; one that has deleted or found nothing noted it, or its       *)
(* delete is not committed yet.                                            *)
RevokeInv ==
  \A c \in Commands :
    /\ pc[c] \notin {"new", "done"} /\ row = NoRow => absent[c]
    /\ asked[c].kind = "revoke" /\ pc[c] = "write" =>
         seen[c] # NoRow /\ (absent[c] \/ row.id = seen[c].id)
    /\ asked[c].kind = "revoke" /\ pc[c] \in {"audit", "commit"} =>
         absent[c] \/ pend[c] = NoRow
    /\ verdict[c] = "ok" /\ asked[c].kind = "revoke" => absent[c]

(* An evaluation past its first read, of a tenant entitled so far, will    *)
(* find the trial active: the override was not, and a trial is never       *)
(* moved. The answers given agree with the history.                        *)
EvaluationInv ==
  \A e \in Evaluators :
    /\ epc[e] # "idle" => answer[e] = "none"
    /\ epc[e] = "trial" /\ always[e] => TrialActive(trial, at[e])
    /\ answer[e] = "disabled" => ~always[e]
    /\ answer[e] = "enabled" => once[e]

(* The inductive invariant.                                                *)
IInv == TypeOK /\ EndedInv /\ WriteInv /\ TrialInv /\ RevokeInv /\ EvaluationInv

(* It holds initially.                                                     *)
LEMMA IInvInit == Init => IInv
  BY TypeInit DEF Init, IInv, EndedInv, WriteInv, TrialInv, TrialOpen, RevokeInv, EvaluationInv

(* Every step keeps EndedInv.                                              *)
LEMMA EndedStep ==
  ASSUME TypeOK, EndedInv, [Next]_vars
  PROVE  EndedInv'
<1> USE DEF TypeOK, EndedInv, Goto, End, tables, command, evaluation, history
<1>1. ASSUME NEW c \in Commands, Refuse(c), Observe PROVE EndedInv'
  BY <1>1 DEF Refuse
<1>2. ASSUME NEW c \in Commands, StartGrant(c), Observe PROVE EndedInv'
  BY <1>2 DEF StartGrant
<1>3. ASSUME NEW c \in Commands, StartRevoke(c), Observe PROVE EndedInv'
  BY <1>3 DEF StartRevoke
<1>4. ASSUME NEW c \in Commands, StartTrial(c), Observe PROVE EndedInv'
  BY <1>4 DEF StartTrial
<1>5. ASSUME NEW c \in Commands, CheckTenant(c), Observe PROVE EndedInv'
  BY <1>5 DEF CheckTenant
<1>6. ASSUME NEW c \in Commands, ReadOverride(c), Observe PROVE EndedInv'
  BY <1>6 DEF ReadOverride
<1>7. ASSUME NEW c \in Commands, GrantInsert(c), Observe PROVE EndedInv'
  BY <1>7 DEF GrantInsert
<1>8. ASSUME NEW c \in Commands, GrantReread(c), Observe PROVE EndedInv'
  BY <1>8 DEF GrantReread
<1>9. ASSUME NEW c \in Commands, GrantUpdate(c), Observe PROVE EndedInv'
  BY <1>9 DEF GrantUpdate
<1>10. ASSUME NEW c \in Commands, GrantUnchanged(c), Observe PROVE EndedInv'
  BY <1>10 DEF GrantUnchanged
<1>11. ASSUME NEW c \in Commands, GrantConflict(c), Observe PROVE EndedInv'
  BY <1>11 DEF GrantConflict
<1>12. ASSUME NEW c \in Commands, RevokeDelete(c), Observe PROVE EndedInv'
  BY <1>12 DEF RevokeDelete
<1>13. ASSUME NEW c \in Commands, ReadTrial(c), Observe PROVE EndedInv'
  BY <1>13 DEF ReadTrial
<1>14. ASSUME NEW c \in Commands, TrialInsert(c), Observe PROVE EndedInv'
  BY <1>14 DEF TrialInsert
<1>15. ASSUME NEW c \in Commands, AppendAudit(c), Observe PROVE EndedInv'
  BY <1>15 DEF AppendAudit, AppendRecord
<1>16. ASSUME NEW c \in Commands, Commit(c), Observe PROVE EndedInv'
  BY <1>16 DEF Commit, Apply
<1>17. ASSUME NEW c \in Commands, Fail(c), Observe PROVE EndedInv'
  BY <1>17 DEF Fail, Apply
<1>18. ASSUME NEW e \in Evaluators, StartEvaluation(e), Observe PROVE EndedInv'
  BY <1>18 DEF StartEvaluation
<1>19. ASSUME NEW e \in Evaluators, EvaluateOverride(e), Observe PROVE EndedInv'
  BY <1>19 DEF EvaluateOverride, Evaluated
<1>20. ASSUME NEW e \in Evaluators, EvaluateTrial(e), Observe PROVE EndedInv'
  BY <1>20 DEF EvaluateTrial, Evaluated
<1>21. ASSUME Tick, Observe PROVE EndedInv'
  BY <1>21 DEF Tick
<1>22. ASSUME Provision, Observe PROVE EndedInv'
  BY <1>22 DEF Provision
<1>23. ASSUME UNCHANGED vars PROVE EndedInv'
  BY <1>23 DEF vars
<1> QED
  BY <1>1, <1>2, <1>3, <1>4, <1>5, <1>6, <1>7, <1>8, <1>9, <1>10, <1>11, <1>12,
     <1>13, <1>14, <1>15, <1>16, <1>17, <1>18, <1>19, <1>20, <1>21, <1>22, <1>23 DEF Next, CommandStep

(* Every step keeps WriteInv: a write waits until every other writer has   *)
(* ended.                                                                  *)
LEMMA WriteStep ==
  ASSUME TypeOK, EndedInv, WriteInv, [Next]_vars
  PROVE  WriteInv'
<1> USE Basics DEF TypeOK, EndedInv, WriteInv, OverrideFree, Goto, End, tables, command, evaluation, history
<1>1. ASSUME NEW c \in Commands, Refuse(c), Observe PROVE WriteInv'
  BY <1>1 DEF Refuse
<1>2. ASSUME NEW c \in Commands, StartGrant(c), Observe PROVE WriteInv'
  BY <1>2 DEF StartGrant
<1>3. ASSUME NEW c \in Commands, StartRevoke(c), Observe PROVE WriteInv'
  BY <1>3 DEF StartRevoke
<1>4. ASSUME NEW c \in Commands, StartTrial(c), Observe PROVE WriteInv'
  BY <1>4 DEF StartTrial
<1>5. ASSUME NEW c \in Commands, CheckTenant(c), Observe PROVE WriteInv'
  <2>1. \A q \in Commands : asked'[q].kind = asked[q].kind
    BY <1>5, CheckTenantAsks
  <2> QED
    BY <1>5, <2>1 DEF CheckTenant
<1>6. ASSUME NEW c \in Commands, ReadOverride(c), Observe PROVE WriteInv'
  BY <1>6 DEF ReadOverride
<1>7. ASSUME NEW c \in Commands, GrantInsert(c), Observe PROVE WriteInv'
  <2>1. NewOverride(c).id = c /\ NewOverride(c) \in Overrides
    BY NewOverrideType
  <2>2. \A q \in Commands \ {c} : pend'[q] = NoWrite /\ pend[q] = NoWrite
    BY <1>7 DEF GrantInsert
  <2>3. \/ row = NoRow /\ pend'[c] = NewOverride(c) /\ pc'[c] = "audit"
        \/ pend'[c] = NoWrite
    <3>1. pend[c] = NoWrite
      BY <1>7 DEF GrantInsert
    <3> QED
      BY <1>7, <3>1 DEF GrantInsert
  <2> QED
    BY <1>7, <2>1, <2>2, <2>3 DEF GrantInsert
<1>8. ASSUME NEW c \in Commands, GrantReread(c), Observe PROVE WriteInv'
  BY <1>8 DEF GrantReread
<1>9. ASSUME NEW c \in Commands, GrantUpdate(c), Observe PROVE WriteInv'
  BY <1>9, ReplaceType DEF GrantUpdate, SameRow
<1>10. ASSUME NEW c \in Commands, GrantUnchanged(c), Observe PROVE WriteInv'
  BY <1>10 DEF GrantUnchanged
<1>11. ASSUME NEW c \in Commands, GrantConflict(c), Observe PROVE WriteInv'
  BY <1>11 DEF GrantConflict
<1>12. ASSUME NEW c \in Commands, RevokeDelete(c), Observe PROVE WriteInv'
  BY <1>12 DEF RevokeDelete, SameRow
<1>13. ASSUME NEW c \in Commands, ReadTrial(c), Observe PROVE WriteInv'
  BY <1>13 DEF ReadTrial
<1>14. ASSUME NEW c \in Commands, TrialInsert(c), Observe PROVE WriteInv'
  BY <1>14 DEF TrialInsert
<1>15. ASSUME NEW c \in Commands, AppendAudit(c), Observe PROVE WriteInv'
  BY <1>15 DEF AppendAudit, AppendRecord
<1>16. ASSUME NEW c \in Commands, Commit(c), Observe PROVE WriteInv'
  BY <1>16 DEF Commit, Apply
<1>17. ASSUME NEW c \in Commands, Fail(c), Observe PROVE WriteInv'
  BY <1>17 DEF Fail, Apply
<1>18. ASSUME NEW e \in Evaluators, StartEvaluation(e), Observe PROVE WriteInv'
  BY <1>18 DEF StartEvaluation
<1>19. ASSUME NEW e \in Evaluators, EvaluateOverride(e), Observe PROVE WriteInv'
  BY <1>19 DEF EvaluateOverride, Evaluated
<1>20. ASSUME NEW e \in Evaluators, EvaluateTrial(e), Observe PROVE WriteInv'
  BY <1>20 DEF EvaluateTrial, Evaluated
<1>21. ASSUME Tick, Observe PROVE WriteInv'
  BY <1>21 DEF Tick
<1>22. ASSUME Provision, Observe PROVE WriteInv'
  BY <1>22 DEF Provision
<1>23. ASSUME UNCHANGED vars PROVE WriteInv'
  BY <1>23 DEF vars
<1> QED
  BY <1>1, <1>2, <1>3, <1>4, <1>5, <1>6, <1>7, <1>8, <1>9, <1>10, <1>11, <1>12,
     <1>13, <1>14, <1>15, <1>16, <1>17, <1>18, <1>19, <1>20, <1>21, <1>22, <1>23 DEF Next, CommandStep

(* Every step keeps TrialInv: the unique index makes a second insert wait. *)
LEMMA TrialStep ==
  ASSUME TypeOK, TrialInv, [Next]_vars
  PROVE  TrialInv'
<1> USE DEF TypeOK, TrialInv, TrialOpen, Goto, End, tables, command, evaluation, history
<1>1. ASSUME NEW c \in Commands, Refuse(c), Observe PROVE TrialInv'
  BY <1>1 DEF Refuse
<1>2. ASSUME NEW c \in Commands, StartGrant(c), Observe PROVE TrialInv'
  BY <1>2 DEF StartGrant
<1>3. ASSUME NEW c \in Commands, StartRevoke(c), Observe PROVE TrialInv'
  BY <1>3 DEF StartRevoke
<1>4. ASSUME NEW c \in Commands, StartTrial(c), Observe PROVE TrialInv'
  BY <1>4 DEF StartTrial
<1>5. ASSUME NEW c \in Commands, CheckTenant(c), Observe PROVE TrialInv'
  BY <1>5 DEF CheckTenant
<1>6. ASSUME NEW c \in Commands, ReadOverride(c), Observe PROVE TrialInv'
  BY <1>6 DEF ReadOverride
<1>7. ASSUME NEW c \in Commands, GrantInsert(c), Observe PROVE TrialInv'
  BY <1>7 DEF GrantInsert
<1>8. ASSUME NEW c \in Commands, GrantReread(c), Observe PROVE TrialInv'
  BY <1>8 DEF GrantReread
<1>9. ASSUME NEW c \in Commands, GrantUpdate(c), Observe PROVE TrialInv'
  BY <1>9 DEF GrantUpdate
<1>10. ASSUME NEW c \in Commands, GrantUnchanged(c), Observe PROVE TrialInv'
  BY <1>10 DEF GrantUnchanged
<1>11. ASSUME NEW c \in Commands, GrantConflict(c), Observe PROVE TrialInv'
  BY <1>11 DEF GrantConflict
<1>12. ASSUME NEW c \in Commands, RevokeDelete(c), Observe PROVE TrialInv'
  BY <1>12 DEF RevokeDelete
<1>13. ASSUME NEW c \in Commands, ReadTrial(c), Observe PROVE TrialInv'
  BY <1>13 DEF ReadTrial
<1>14. ASSUME NEW c \in Commands, TrialInsert(c), Observe PROVE TrialInv'
  BY <1>14 DEF TrialInsert, TrialFree
<1>15. ASSUME NEW c \in Commands, AppendAudit(c), Observe PROVE TrialInv'
  BY <1>15 DEF AppendAudit, AppendRecord
<1>16. ASSUME NEW c \in Commands, Commit(c), Observe PROVE TrialInv'
  BY <1>16 DEF Commit, Apply
<1>17. ASSUME NEW c \in Commands, Fail(c), Observe PROVE TrialInv'
  BY <1>17 DEF Fail, Apply
<1>18. ASSUME NEW e \in Evaluators, StartEvaluation(e), Observe PROVE TrialInv'
  BY <1>18 DEF StartEvaluation
<1>19. ASSUME NEW e \in Evaluators, EvaluateOverride(e), Observe PROVE TrialInv'
  BY <1>19 DEF EvaluateOverride, Evaluated
<1>20. ASSUME NEW e \in Evaluators, EvaluateTrial(e), Observe PROVE TrialInv'
  BY <1>20 DEF EvaluateTrial, Evaluated
<1>21. ASSUME Tick, Observe PROVE TrialInv'
  BY <1>21 DEF Tick
<1>22. ASSUME Provision, Observe PROVE TrialInv'
  BY <1>22 DEF Provision
<1>23. ASSUME UNCHANGED vars PROVE TrialInv'
  BY <1>23 DEF vars
<1> QED
  BY <1>1, <1>2, <1>3, <1>4, <1>5, <1>6, <1>7, <1>8, <1>9, <1>10, <1>11, <1>12,
     <1>13, <1>14, <1>15, <1>16, <1>17, <1>18, <1>19, <1>20, <1>21, <1>22, <1>23 DEF Next, CommandStep

(* Every step keeps RevokeInv.                                             *)
LEMMA RevokeStep ==
  ASSUME TypeOK, EndedInv, WriteInv, RevokeInv, [Next]_vars
  PROVE  RevokeInv'
<1> USE Basics, AbsentNoted
    DEF TypeOK, EndedInv, WriteInv, RevokeInv, Goto, End, tables, command, evaluation, history
<1>1. ASSUME NEW c \in Commands, Refuse(c), Observe PROVE RevokeInv'
  BY <1>1 DEF Refuse
<1>2. ASSUME NEW c \in Commands, StartGrant(c), Observe PROVE RevokeInv'
  BY <1>2 DEF StartGrant
<1>3. ASSUME NEW c \in Commands, StartRevoke(c), Observe PROVE RevokeInv'
  BY <1>3 DEF StartRevoke
<1>4. ASSUME NEW c \in Commands, StartTrial(c), Observe PROVE RevokeInv'
  BY <1>4 DEF StartTrial
<1>5. ASSUME NEW c \in Commands, CheckTenant(c), Observe PROVE RevokeInv'
  BY <1>5 DEF CheckTenant
<1>6. ASSUME NEW c \in Commands, ReadOverride(c), Observe PROVE RevokeInv'
  BY <1>6 DEF ReadOverride
<1>7. ASSUME NEW c \in Commands, GrantInsert(c), Observe PROVE RevokeInv'
  <2>1. /\ asked' = asked /\ row' = row /\ seen' = seen /\ asked[c].kind = "grant"
        /\ pc[c] \notin {"new", "done"} /\ pc'[c] # "new"
    BY <1>7 DEF GrantInsert
  <2>2. \A q \in Commands \ {c} : pc'[q] = pc[q] /\ pend'[q] = pend[q] /\ verdict'[q] = verdict[q]
    BY <1>7 DEF GrantInsert
  <2> QED
    BY <1>7, <2>1, <2>2
<1>8. ASSUME NEW c \in Commands, GrantReread(c), Observe PROVE RevokeInv'
  BY <1>8 DEF GrantReread
<1>9. ASSUME NEW c \in Commands, GrantUpdate(c), Observe PROVE RevokeInv'
  BY <1>9 DEF GrantUpdate
<1>10. ASSUME NEW c \in Commands, GrantUnchanged(c), Observe PROVE RevokeInv'
  BY <1>10 DEF GrantUnchanged
<1>11. ASSUME NEW c \in Commands, GrantConflict(c), Observe PROVE RevokeInv'
  BY <1>11 DEF GrantConflict
<1>12. ASSUME NEW c \in Commands, RevokeDelete(c), Observe PROVE RevokeInv'
  BY <1>12 DEF RevokeDelete, SameRow
<1>13. ASSUME NEW c \in Commands, ReadTrial(c), Observe PROVE RevokeInv'
  BY <1>13 DEF ReadTrial
<1>14. ASSUME NEW c \in Commands, TrialInsert(c), Observe PROVE RevokeInv'
  BY <1>14 DEF TrialInsert
<1>15. ASSUME NEW c \in Commands, AppendAudit(c), Observe PROVE RevokeInv'
  BY <1>15 DEF AppendAudit, AppendRecord
<1>16. ASSUME NEW c \in Commands, Commit(c), Observe PROVE RevokeInv'
  BY <1>16 DEF Commit, Apply
<1>17. ASSUME NEW c \in Commands, Fail(c), Observe PROVE RevokeInv'
  BY <1>17 DEF Fail, Apply
<1>18. ASSUME NEW e \in Evaluators, StartEvaluation(e), Observe PROVE RevokeInv'
  BY <1>18 DEF StartEvaluation
<1>19. ASSUME NEW e \in Evaluators, EvaluateOverride(e), Observe PROVE RevokeInv'
  BY <1>19 DEF EvaluateOverride, Evaluated
<1>20. ASSUME NEW e \in Evaluators, EvaluateTrial(e), Observe PROVE RevokeInv'
  BY <1>20 DEF EvaluateTrial, Evaluated
<1>21. ASSUME Tick, Observe PROVE RevokeInv'
  BY <1>21 DEF Tick
<1>22. ASSUME Provision, Observe PROVE RevokeInv'
  BY <1>22 DEF Provision
<1>23. ASSUME UNCHANGED vars PROVE RevokeInv'
  BY <1>23 DEF vars
<1> QED
  BY <1>1, <1>2, <1>3, <1>4, <1>5, <1>6, <1>7, <1>8, <1>9, <1>10, <1>11, <1>12,
     <1>13, <1>14, <1>15, <1>16, <1>17, <1>18, <1>19, <1>20, <1>21, <1>22, <1>23 DEF Next, CommandStep

(* No step changes a trial that is there.                                  *)
LEMMA TrialKept ==
  ASSUME TypeOK, TrialInv, [Next]_vars
  PROVE  trial # NoRow => trial' = trial
<1> USE DEF TypeOK, TrialInv, TrialOpen, Goto, End, tables, command, evaluation, history
<1>1. ASSUME NEW c \in Commands, Refuse(c), Observe PROVE trial # NoRow => trial' = trial
  BY <1>1 DEF Refuse
<1>2. ASSUME NEW c \in Commands, StartGrant(c), Observe PROVE trial # NoRow => trial' = trial
  BY <1>2 DEF StartGrant
<1>3. ASSUME NEW c \in Commands, StartRevoke(c), Observe PROVE trial # NoRow => trial' = trial
  BY <1>3 DEF StartRevoke
<1>4. ASSUME NEW c \in Commands, StartTrial(c), Observe PROVE trial # NoRow => trial' = trial
  BY <1>4 DEF StartTrial
<1>5. ASSUME NEW c \in Commands, CheckTenant(c), Observe PROVE trial # NoRow => trial' = trial
  BY <1>5 DEF CheckTenant
<1>6. ASSUME NEW c \in Commands, ReadOverride(c), Observe PROVE trial # NoRow => trial' = trial
  BY <1>6 DEF ReadOverride
<1>7. ASSUME NEW c \in Commands, GrantInsert(c), Observe PROVE trial # NoRow => trial' = trial
  BY <1>7 DEF GrantInsert
<1>8. ASSUME NEW c \in Commands, GrantReread(c), Observe PROVE trial # NoRow => trial' = trial
  BY <1>8 DEF GrantReread
<1>9. ASSUME NEW c \in Commands, GrantUpdate(c), Observe PROVE trial # NoRow => trial' = trial
  BY <1>9 DEF GrantUpdate
<1>10. ASSUME NEW c \in Commands, GrantUnchanged(c), Observe PROVE trial # NoRow => trial' = trial
  BY <1>10 DEF GrantUnchanged
<1>11. ASSUME NEW c \in Commands, GrantConflict(c), Observe PROVE trial # NoRow => trial' = trial
  BY <1>11 DEF GrantConflict
<1>12. ASSUME NEW c \in Commands, RevokeDelete(c), Observe PROVE trial # NoRow => trial' = trial
  BY <1>12 DEF RevokeDelete
<1>13. ASSUME NEW c \in Commands, ReadTrial(c), Observe PROVE trial # NoRow => trial' = trial
  BY <1>13 DEF ReadTrial
<1>14. ASSUME NEW c \in Commands, TrialInsert(c), Observe PROVE trial # NoRow => trial' = trial
  BY <1>14 DEF TrialInsert
<1>15. ASSUME NEW c \in Commands, AppendAudit(c), Observe PROVE trial # NoRow => trial' = trial
  BY <1>15 DEF AppendAudit, AppendRecord
<1>16. ASSUME NEW c \in Commands, Commit(c), Observe PROVE trial # NoRow => trial' = trial
  BY <1>16 DEF Commit, Apply
<1>17. ASSUME NEW c \in Commands, Fail(c), Observe PROVE trial # NoRow => trial' = trial
  BY <1>17 DEF Fail, Apply
<1>18. ASSUME NEW e \in Evaluators, StartEvaluation(e), Observe PROVE trial # NoRow => trial' = trial
  BY <1>18 DEF StartEvaluation
<1>19. ASSUME NEW e \in Evaluators, EvaluateOverride(e), Observe PROVE trial # NoRow => trial' = trial
  BY <1>19 DEF EvaluateOverride, Evaluated
<1>20. ASSUME NEW e \in Evaluators, EvaluateTrial(e), Observe PROVE trial # NoRow => trial' = trial
  BY <1>20 DEF EvaluateTrial, Evaluated
<1>21. ASSUME Tick, Observe PROVE trial # NoRow => trial' = trial
  BY <1>21 DEF Tick
<1>22. ASSUME Provision, Observe PROVE trial # NoRow => trial' = trial
  BY <1>22 DEF Provision
<1>23. ASSUME UNCHANGED vars PROVE trial # NoRow => trial' = trial
  BY <1>23 DEF vars
<1> QED
  BY <1>1, <1>2, <1>3, <1>4, <1>5, <1>6, <1>7, <1>8, <1>9, <1>10, <1>11, <1>12,
     <1>13, <1>14, <1>15, <1>16, <1>17, <1>18, <1>19, <1>20, <1>21, <1>22, <1>23 DEF Next, CommandStep

(* Every step keeps EvaluationInv.                                         *)
LEMMA EvaluationStep ==
  ASSUME TypeOK, TrialInv, EvaluationInv, [Next]_vars
  PROVE  EvaluationInv'
<1> USE Basics, TrialKept DEF TypeOK, EvaluationInv, Observe, Goto, End, tables, command, evaluation, history
<1>1. ASSUME NEW c \in Commands, Refuse(c), Observe PROVE EvaluationInv'
  BY <1>1 DEF Refuse, TrialActive, Entitled
<1>2. ASSUME NEW c \in Commands, StartGrant(c), Observe PROVE EvaluationInv'
  BY <1>2 DEF StartGrant, TrialActive, Entitled
<1>3. ASSUME NEW c \in Commands, StartRevoke(c), Observe PROVE EvaluationInv'
  BY <1>3 DEF StartRevoke, TrialActive, Entitled
<1>4. ASSUME NEW c \in Commands, StartTrial(c), Observe PROVE EvaluationInv'
  BY <1>4 DEF StartTrial, TrialActive, Entitled
<1>5. ASSUME NEW c \in Commands, CheckTenant(c), Observe PROVE EvaluationInv'
  BY <1>5 DEF CheckTenant, TrialActive, Entitled
<1>6. ASSUME NEW c \in Commands, ReadOverride(c), Observe PROVE EvaluationInv'
  BY <1>6 DEF ReadOverride, TrialActive, Entitled
<1>7. ASSUME NEW c \in Commands, GrantInsert(c), Observe PROVE EvaluationInv'
  BY <1>7 DEF GrantInsert, TrialActive, Entitled
<1>8. ASSUME NEW c \in Commands, GrantReread(c), Observe PROVE EvaluationInv'
  BY <1>8 DEF GrantReread, TrialActive, Entitled
<1>9. ASSUME NEW c \in Commands, GrantUpdate(c), Observe PROVE EvaluationInv'
  BY <1>9 DEF GrantUpdate, TrialActive, Entitled
<1>10. ASSUME NEW c \in Commands, GrantUnchanged(c), Observe PROVE EvaluationInv'
  BY <1>10 DEF GrantUnchanged, TrialActive, Entitled
<1>11. ASSUME NEW c \in Commands, GrantConflict(c), Observe PROVE EvaluationInv'
  BY <1>11 DEF GrantConflict, TrialActive, Entitled
<1>12. ASSUME NEW c \in Commands, RevokeDelete(c), Observe PROVE EvaluationInv'
  BY <1>12 DEF RevokeDelete, TrialActive, Entitled
<1>13. ASSUME NEW c \in Commands, ReadTrial(c), Observe PROVE EvaluationInv'
  BY <1>13 DEF ReadTrial, TrialActive, Entitled
<1>14. ASSUME NEW c \in Commands, TrialInsert(c), Observe PROVE EvaluationInv'
  BY <1>14 DEF TrialInsert, TrialActive, Entitled
<1>15. ASSUME NEW c \in Commands, AppendAudit(c), Observe PROVE EvaluationInv'
  BY <1>15 DEF AppendAudit, TrialActive, Entitled, AppendRecord
<1>16. ASSUME NEW c \in Commands, Commit(c), Observe PROVE EvaluationInv'
  BY <1>16 DEF Commit, TrialActive, Entitled, Apply
<1>17. ASSUME NEW c \in Commands, Fail(c), Observe PROVE EvaluationInv'
  BY <1>17 DEF Fail, TrialActive, Entitled, Apply
<1>18. ASSUME NEW e \in Evaluators, StartEvaluation(e), Observe PROVE EvaluationInv'
  BY <1>18 DEF StartEvaluation, TrialActive, Entitled
<1>19. ASSUME NEW e \in Evaluators, EvaluateOverride(e), Observe PROVE EvaluationInv'
  BY <1>19 DEF EvaluateOverride, TrialActive, Entitled, Evaluated, OverrideActive
<1>20. ASSUME NEW e \in Evaluators, EvaluateTrial(e), Observe PROVE EvaluationInv'
  BY <1>20 DEF EvaluateTrial, TrialActive, Entitled, Evaluated
<1>21. ASSUME Tick, Observe PROVE EvaluationInv'
  BY <1>21 DEF Tick, TrialActive, Entitled
<1>22. ASSUME Provision, Observe PROVE EvaluationInv'
  BY <1>22 DEF Provision, TrialActive, Entitled
<1>23. ASSUME UNCHANGED vars PROVE EvaluationInv'
  BY <1>23 DEF vars
<1> QED
  BY <1>1, <1>2, <1>3, <1>4, <1>5, <1>6, <1>7, <1>8, <1>9, <1>10, <1>11, <1>12,
     <1>13, <1>14, <1>15, <1>16, <1>17, <1>18, <1>19, <1>20, <1>21, <1>22, <1>23 DEF Next, CommandStep

(* The inductive invariant holds in every reachable state.                 *)
THEOREM IInvariant == Spec => []IInv
<1>1. ASSUME IInv, [Next]_vars PROVE IInv'
  BY <1>1, TypeStep, EndedStep, WriteStep, TrialStep, RevokeStep, EvaluationStep DEF IInv
<1> QED
  BY <1>1, IInvInit, PTL DEF Spec

(* A command that succeeded has its audit record, one that was turned down *)
(* has none, and the writer of the override is on record, however the      *)
(* transactions interleave and fail.                                       *)
THEOREM AuditSound == Spec => []AuditMatchesOutcome
<1>1. IInv => AuditMatchesOutcome
  BY DEF IInv, EndedInv, WriteInv, AuditMatchesOutcome
<1> QED
  BY <1>1, IInvariant, PTL

(* A trial that was started is never replaced or moved, however many       *)
(* admins race.                                                            *)
THEOREM TrialOnce == Spec => OneTrialEver
<1>1. IInv /\ [Next]_vars => [trial # NoRow => trial' = trial]_vars
  BY TrialKept DEF IInv
<1> QED
  BY <1>1, IInvariant, PTL DEF Spec, OneTrialEver

(* A revoke that reports success took effect: the override was gone at     *)
(* some moment while it ran, also when another command replaced the row    *)
(* under it.                                                               *)
THEOREM RevokeSound == Spec => []RevokeTookEffect
<1>1. IInv => RevokeTookEffect
  BY DEF IInv, RevokeInv, RevokeTookEffect
<1> QED
  BY <1>1, IInvariant, PTL

(* Two reads with commits in between: a tenant entitled throughout an      *)
(* evaluation is never denied.                                             *)
THEOREM NeverDeniedWrongly == Spec => []NoFalseDenial
<1>1. IInv => NoFalseDenial
  BY DEF IInv, EvaluationInv, NoFalseDenial
<1> QED
  BY <1>1, IInvariant, PTL

(* A tenant that was entitled at no moment of an evaluation is never       *)
(* allowed.                                                                *)
THEOREM NeverAllowedWrongly == Spec => []NoFalseGrant
<1>1. IInv => NoFalseGrant
  BY DEF IInv, EvaluationInv, NoFalseGrant
<1> QED
  BY <1>1, IInvariant, PTL

(* A change and its record come in one step, which is a commit.            *)
RecordStep ==
  /\ row' # row \/ trial' # trial => audit' # audit
  /\ audit' # audit => \E c \in Commands : pc[c] = "commit" /\ pc'[c] = "done"

(* Every step is of that kind.                                             *)
LEMMA RecordSteps ==
  ASSUME TypeOK, EndedInv, [Next]_vars
  PROVE  RecordStep
<1> USE DEF TypeOK, EndedInv, RecordStep, Goto, End, tables, command, evaluation, history
<1>1. ASSUME NEW c \in Commands, Refuse(c), Observe PROVE RecordStep
  BY <1>1 DEF Refuse
<1>2. ASSUME NEW c \in Commands, StartGrant(c), Observe PROVE RecordStep
  BY <1>2 DEF StartGrant
<1>3. ASSUME NEW c \in Commands, StartRevoke(c), Observe PROVE RecordStep
  BY <1>3 DEF StartRevoke
<1>4. ASSUME NEW c \in Commands, StartTrial(c), Observe PROVE RecordStep
  BY <1>4 DEF StartTrial
<1>5. ASSUME NEW c \in Commands, CheckTenant(c), Observe PROVE RecordStep
  BY <1>5 DEF CheckTenant
<1>6. ASSUME NEW c \in Commands, ReadOverride(c), Observe PROVE RecordStep
  BY <1>6 DEF ReadOverride
<1>7. ASSUME NEW c \in Commands, GrantInsert(c), Observe PROVE RecordStep
  BY <1>7 DEF GrantInsert
<1>8. ASSUME NEW c \in Commands, GrantReread(c), Observe PROVE RecordStep
  BY <1>8 DEF GrantReread
<1>9. ASSUME NEW c \in Commands, GrantUpdate(c), Observe PROVE RecordStep
  BY <1>9 DEF GrantUpdate
<1>10. ASSUME NEW c \in Commands, GrantUnchanged(c), Observe PROVE RecordStep
  BY <1>10 DEF GrantUnchanged
<1>11. ASSUME NEW c \in Commands, GrantConflict(c), Observe PROVE RecordStep
  BY <1>11 DEF GrantConflict
<1>12. ASSUME NEW c \in Commands, RevokeDelete(c), Observe PROVE RecordStep
  BY <1>12 DEF RevokeDelete
<1>13. ASSUME NEW c \in Commands, ReadTrial(c), Observe PROVE RecordStep
  BY <1>13 DEF ReadTrial
<1>14. ASSUME NEW c \in Commands, TrialInsert(c), Observe PROVE RecordStep
  BY <1>14 DEF TrialInsert
<1>15. ASSUME NEW c \in Commands, AppendAudit(c), Observe PROVE RecordStep
  BY <1>15 DEF AppendAudit, AppendRecord
<1>16. ASSUME NEW c \in Commands, Commit(c), Observe PROVE RecordStep
  BY <1>16 DEF Commit, Apply
<1>17. ASSUME NEW c \in Commands, Fail(c), Observe PROVE RecordStep
  BY <1>17 DEF Fail, Apply
<1>18. ASSUME NEW e \in Evaluators, StartEvaluation(e), Observe PROVE RecordStep
  BY <1>18 DEF StartEvaluation
<1>19. ASSUME NEW e \in Evaluators, EvaluateOverride(e), Observe PROVE RecordStep
  BY <1>19 DEF EvaluateOverride, Evaluated
<1>20. ASSUME NEW e \in Evaluators, EvaluateTrial(e), Observe PROVE RecordStep
  BY <1>20 DEF EvaluateTrial, Evaluated
<1>21. ASSUME Tick, Observe PROVE RecordStep
  BY <1>21 DEF Tick
<1>22. ASSUME Provision, Observe PROVE RecordStep
  BY <1>22 DEF Provision
<1>23. ASSUME UNCHANGED vars PROVE RecordStep
  BY <1>23 DEF vars
<1> QED
  BY <1>1, <1>2, <1>3, <1>4, <1>5, <1>6, <1>7, <1>8, <1>9, <1>10, <1>11, <1>12,
     <1>13, <1>14, <1>15, <1>16, <1>17, <1>18, <1>19, <1>20, <1>21, <1>22, <1>23 DEF Next, CommandStep

(* No override and no trial changes without a record in the same step, and *)
(* no record appears but by a commit.                                      *)
THEOREM RecordsSound == Spec => RecordsCommitWithChanges
<1>1. IInv /\ [Next]_vars => [RecordStep]_vars
  BY RecordSteps DEF IInv
<1> QED
  BY <1>1, IInvariant, PTL DEF Spec, RecordsCommitWithChanges, RecordStep
=============================================================================
