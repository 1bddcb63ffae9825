-------------------------- MODULE DeployGate_proofs --------------------------
(***************************************************************************)
(* Proofs about DeployGate, for every number of versions, releases, ticks  *)
(* and disclosures and for every policy: type correctness, the gate, and   *)
(* the realm rebuild.                                                      *)
(***************************************************************************)
EXTENDS DeployGate, TLAPS

------------------------------------------------------------------------------
(* The constants *)

\* Days are numbers.
LEMMA DayType == \A t \in Nat : Day(t) \in Nat
  BY DEF Day

\* The last day of an exception is a number.
LEMMA ThroughType == \A p \in 1 .. MaxPolicy : \A i \in Images : Through[p][i] \in Nat
  BY DeployGateAssumption

\* The bounds and the releases are numbers.
LEMMA BoundTypes ==
  /\ MaxFiles \in Nat /\ 1 <= MaxFiles /\ MaxPolicy \in Nat /\ 1 <= MaxPolicy
  /\ MaxTime \in Nat /\ Never = MaxTime + 1 /\ Releases \subseteq Nat
  BY DeployGateAssumption DEF Never

\* No command that starts containers is among those the operator edits during.
LEMMA EditsOnlyBefore ==
  "up" \notin EditsDuring /\ "prepare" \notin EditsDuring /\ "rebuild" \notin EditsDuring
  BY DeployGateAssumption

------------------------------------------------------------------------------
(* Types *)

\* The initial state is well typed.
LEMMA TypeInit == Init => TypeOK
  BY BoundTypes DEF Init, TypeOK, Idle, NoResult, Commands

\* Every step keeps the types.
LEMMA TypeStep ==
  ASSUME TypeOK, [Next]_vars
  PROVE  TypeOK'
<1> USE BoundTypes DEF TypeOK, Commands
<1>1. ASSUME cmd_assemble PROVE TypeOK'
  BY <1>1 DEF cmd_assemble, Idle
<1>2. ASSUME assemble_step PROVE TypeOK'
  BY <1>2 DEF assemble_step, Advance, Advanced, LastStep, Idle
<1>3. ASSUME cmd_scan PROVE TypeOK'
  BY <1>3 DEF cmd_scan, Idle
<1>4. ASSUME scan_reads_exceptions PROVE TypeOK'
  BY <1>4 DEF scan_reads_exceptions, At
<1>5. ASSUME scan_updates_database PROVE TypeOK'
  BY <1>5 DEF scan_updates_database, At
<1>6. ASSUME scan_targets PROVE TypeOK'
  BY <1>6 DEF scan_targets, At
<1>7. ASSUME scan_writes_result PROVE TypeOK'
  BY <1>7 DEF scan_writes_result, At, Advance, Advanced, LastStep, Idle, NoResult
<1>8. ASSUME cmd_up PROVE TypeOK'
  BY <1>8 DEF cmd_up, Start, Idle
<1>9. ASSUME up_checks PROVE TypeOK'
  BY <1>9 DEF up_checks, At, Advance, Advanced, LastStep, Idle
<1>10. ASSUME up_starts_caddy PROVE TypeOK'
  BY <1>10 DEF up_starts_caddy, At, Advance, Advanced, LastStep, Idle, PinnedImage
<1>11. ASSUME up_prepares_keyring PROVE TypeOK'
  BY <1>11 DEF up_prepares_keyring, At, Advance, Advanced, LastStep, Idle, ReleaseImage
<1>12. ASSUME up_starts_all PROVE TypeOK'
  <2>1. keycloak' \in [running : BOOLEAN, realm : BOOLEAN, admin : BOOLEAN, realUser : BOOLEAN]
    BY <1>12 DEF up_starts_all, Started
  <2>2. containers' = {Pinned(stack.generated), Release(stack.env)}
    BY <1>12 DEF up_starts_all, PinnedImage, ReleaseImage
  <2>3. job' = Idle
    BY <1>12 DEF up_starts_all, At, Advance, Advanced, LastStep
  <2> QED
    BY <1>12, <2>1, <2>2, <2>3 DEF up_starts_all, Idle
<1>13. ASSUME cmd_keyring_prepare PROVE TypeOK'
  BY <1>13 DEF cmd_keyring_prepare, Start, Idle
<1>14. ASSUME keyring_prepare PROVE TypeOK'
  BY <1>14 DEF keyring_prepare, At, Advance, Advanced, LastStep, Idle, ReleaseImage
<1>15. ASSUME cmd_realm_rebuild PROVE TypeOK'
  BY <1>15 DEF cmd_realm_rebuild, Start, Idle
<1>16. ASSUME rebuild_checks PROVE TypeOK'
  BY <1>16 DEF rebuild_checks, At, Advance, Advanced, LastStep, Idle
<1>17. ASSUME rebuild_stops_keycloak PROVE TypeOK'
  BY <1>17 DEF rebuild_stops_keycloak, At, Advance, Advanced, LastStep, Idle
<1>18. ASSUME rebuild_drops_database PROVE TypeOK'
  BY <1>18 DEF rebuild_drops_database, At, Advance, Advanced, LastStep, Idle
<1>19. ASSUME rebuild_starts_keycloak PROVE TypeOK'
  BY <1>19 DEF rebuild_starts_keycloak, At, Advance, Advanced, LastStep, Idle, PinnedImage, Started
<1>20. ASSUME CommandEnds PROVE TypeOK'
  BY <1>20 DEF CommandEnds, Idle
<1>21. ASSUME PullClone PROVE TypeOK'
  BY <1>21 DEF PullClone
<1>22. ASSUME CreateRealUser PROVE TypeOK'
  BY <1>22 DEF CreateRealUser
<1>23. ASSUME RetireBootstrap PROVE TypeOK'
  BY <1>23 DEF RetireBootstrap
<1>24. ASSUME RotateBootstrap PROVE TypeOK'
  BY <1>24 DEF RotateBootstrap
<1>25. ASSUME Tick PROVE TypeOK'
  BY <1>25 DEF Tick
<1>26. ASSUME NEW r \in Releases, SaveImages(r) PROVE TypeOK'
  BY <1>26 DEF SaveImages
<1>27. ASSUME NEW r \in Releases, EditEnv(r) PROVE TypeOK'
  BY <1>27 DEF EditEnv
<1>28. ASSUME NEW i \in Images, Disclose(i) PROVE TypeOK'
  BY <1>28 DEF Disclose
<1>29. ASSUME UNCHANGED vars PROVE TypeOK'
  BY <1>29 DEF vars
<1> QED
  BY <1>1, <1>2, <1>3, <1>4, <1>5, <1>6, <1>7, <1>8, <1>9, <1>10, <1>11, <1>12,
     <1>13, <1>14, <1>15, <1>16, <1>17, <1>18, <1>19, <1>20, <1>21, <1>22, <1>23, <1>24,
     <1>25, <1>26, <1>27, <1>28, <1>29 DEF Next

\* Type correctness: every variable has its type in every reachable state.
THEOREM TypeCorrect == Spec => []TypeOK
  BY TypeInit, TypeStep, PTL DEF Spec

------------------------------------------------------------------------------
(* The gate *)

\* What a scan knows at each of its steps: its exceptions are no older than the policy it will
\* write into the result; what its database lacks became known later; and at the end, if it is
\* trusted and found nothing, each image became known later or is excepted for long enough.
ScanInv ==
    job.cmd = "scan" =>
      /\ job.refs \subseteq Images
      /\ job.policy \in Nat /\ job.policy <= clone.policy
      /\ job.at # 1 => /\ job.entries \in 1 .. MaxPolicy
                       /\ job.policy <= job.entries /\ job.entries <= clone.policy
      /\ job.at \notin {1, 2} =>
            /\ job.time \in Nat /\ job.time <= now
            /\ job.trusted \in BOOLEAN
            /\ job.trusted => \A i \in Images \ job.db : known[i] >= job.time
      /\ job.at \notin {1, 2, 3} =>
            /\ job.through \in Nat /\ job.found \in BOOLEAN
            /\ job.trusted /\ ~job.found =>
                  \A i \in job.refs : \/ known[i] >= job.time
                                       \/ /\ Through[job.entries][i] # 0
                                          /\ job.through <= Through[job.entries][i]

\* The same of a green result, as long as the clone still has the policy it was made with: a
\* pull during the scan or after it leaves a result of an older policy, which the gate refuses.
ResultInv ==
    result.exists =>
      /\ result.refs \subseteq Images
      /\ result.policy \in Nat /\ result.policy <= clone.policy
      /\ result.at \in Nat /\ result.at <= now
      /\ result.through \in Nat
      /\ result.green /\ result.policy = clone.policy =>
            \A i \in result.refs : \/ known[i] >= result.at
                                    \/ /\ Through[result.policy][i] # 0
                                       /\ result.through <= Through[result.policy][i]

Cleared(i, t) == i \in Images /\ (known[i] + MAX_SCAN_AGE >= t \/ ExceptedAt(i, t))

\* A command past the gate: both images were cleared when it passed, and from its second step
\* on the assembled files are those of the clone.
StartInv ==
    job.cmd \in {"up", "prepare", "rebuild"} =>
      /\ job.time \in Nat /\ job.time <= now
      /\ Cleared(Pinned(clone.files), job.time) /\ Cleared(Release(stack.env), job.time)
      /\ job.cmd # "up" \/ job.at # 1 => stack.generated = clone.files

GateInv == TypeOK /\ ScanInv /\ ResultInv /\ StartInv

\* A deployment that names a release is made of known images.
LEMMA RefsAreImages == ASSUME TypeOK, stack.env # 0 PROVE deploy_refs \subseteq Images
  BY DeployGateAssumption DEF TypeOK, deploy_refs, Images

\* The gate: a result it accepts clears every image of the deployment at this moment.
LEMMA GateClears ==
  ASSUME TypeOK, ResultInv, freshness_ok
  PROVE  \A i \in deploy_refs : Cleared(i, now)
<1> SUFFICES ASSUME NEW i \in deploy_refs PROVE Cleared(i, now)
  OBVIOUS
<1>1. /\ stack.env # 0 /\ result.exists /\ result.green /\ result.policy = clone.policy
      /\ result.refs = deploy_refs /\ now - result.at <= 2 /\ Day(now) <= result.through
  BY DEF freshness_ok, deploy_refs_ok, env_ok, scan_result_ok, MAX_SCAN_AGE
<1>2. i \in Images /\ i \in result.refs
  BY <1>1, RefsAreImages
<1>3. /\ known[i] \in Nat /\ now \in Nat /\ Day(now) \in Nat
      /\ result.at \in Nat /\ result.through \in Nat /\ Through[clone.policy][i] \in Nat
  BY <1>1, <1>2, BoundTypes, DayType, ThroughType DEF TypeOK, ResultInv
<1>4. \/ known[i] >= result.at
      \/ Through[clone.policy][i] # 0 /\ result.through <= Through[clone.policy][i]
  BY <1>1, <1>2 DEF ResultInv
<1> QED
  BY <1>1, <1>2, <1>3, <1>4 DEF Cleared, ExceptedAt, MAX_SCAN_AGE

\* The gate's invariant holds initially: there is no result and no command.
LEMMA GateInit == Init => GateInv
  BY TypeInit DEF Init, GateInv, ScanInv, ResultInv, StartInv, Idle, NoResult

\* A scan knows at each step what ScanInv says, whatever is pulled or disclosed meanwhile.
LEMMA ScanStep ==
  ASSUME TypeOK, ScanInv, [Next]_vars
  PROVE  ScanInv'
<1> USE BoundTypes, ThroughType, RefsAreImages DEF TypeOK, ScanInv
<1>1. ASSUME cmd_assemble PROVE ScanInv'
  BY <1>1 DEF cmd_assemble, Idle
<1>2. ASSUME assemble_step PROVE ScanInv'
  BY <1>2 DEF assemble_step, Advance, Advanced, LastStep, Idle
<1>3. ASSUME cmd_scan PROVE ScanInv'
  BY <1>3 DEF cmd_scan, Idle, deploy_refs_ok, env_ok
<1>4. ASSUME scan_reads_exceptions PROVE ScanInv'
  BY <1>4 DEF scan_reads_exceptions, At
<1>5. ASSUME scan_updates_database PROVE ScanInv'
  BY <1>5 DEF scan_updates_database, At
<1>6. ASSUME scan_targets PROVE ScanInv'
  BY <1>6 DEF scan_targets, At
<1>7. ASSUME scan_writes_result PROVE ScanInv'
  BY <1>7 DEF scan_writes_result, At, Advance, Advanced, LastStep, Idle
<1>8. ASSUME cmd_up PROVE ScanInv'
  BY <1>8 DEF cmd_up, Start, Idle
<1>9. ASSUME up_checks PROVE ScanInv'
  BY <1>9 DEF up_checks, At, Advance, Advanced, LastStep, Idle
<1>10. ASSUME up_starts_caddy PROVE ScanInv'
  BY <1>10 DEF up_starts_caddy, At, Advance, Advanced, LastStep, Idle
<1>11. ASSUME up_prepares_keyring PROVE ScanInv'
  BY <1>11 DEF up_prepares_keyring, At, Advance, Advanced, LastStep, Idle
<1>12. ASSUME up_starts_all PROVE ScanInv'
  BY <1>12 DEF up_starts_all, At, Advance, Advanced, LastStep, Idle
<1>13. ASSUME cmd_keyring_prepare PROVE ScanInv'
  BY <1>13 DEF cmd_keyring_prepare, Start, Idle
<1>14. ASSUME keyring_prepare PROVE ScanInv'
  BY <1>14 DEF keyring_prepare, At, Advance, Advanced, LastStep, Idle
<1>15. ASSUME cmd_realm_rebuild PROVE ScanInv'
  BY <1>15 DEF cmd_realm_rebuild, Start, Idle
<1>16. ASSUME rebuild_checks PROVE ScanInv'
  BY <1>16 DEF rebuild_checks, At, Advance, Advanced, LastStep, Idle
<1>17. ASSUME rebuild_stops_keycloak PROVE ScanInv'
  BY <1>17 DEF rebuild_stops_keycloak, At, Advance, Advanced, LastStep, Idle
<1>18. ASSUME rebuild_drops_database PROVE ScanInv'
  BY <1>18 DEF rebuild_drops_database, At, Advance, Advanced, LastStep, Idle
<1>19. ASSUME rebuild_starts_keycloak PROVE ScanInv'
  BY <1>19 DEF rebuild_starts_keycloak, At, Advance, Advanced, LastStep, Idle
<1>20. ASSUME CommandEnds PROVE ScanInv'
  BY <1>20 DEF CommandEnds, Idle
<1>21. ASSUME PullClone PROVE ScanInv'
  BY <1>21 DEF PullClone, Editable
<1>22. ASSUME CreateRealUser PROVE ScanInv'
  BY <1>22 DEF CreateRealUser
<1>23. ASSUME RetireBootstrap PROVE ScanInv'
  BY <1>23 DEF RetireBootstrap
<1>24. ASSUME RotateBootstrap PROVE ScanInv'
  BY <1>24 DEF RotateBootstrap
<1>25. ASSUME Tick PROVE ScanInv'
  BY <1>25 DEF Tick
<1>26. ASSUME NEW r \in Releases, SaveImages(r) PROVE ScanInv'
  BY <1>26 DEF SaveImages
<1>27. ASSUME NEW r \in Releases, EditEnv(r) PROVE ScanInv'
  BY <1>27 DEF EditEnv
<1>28. ASSUME NEW i \in Images, Disclose(i) PROVE ScanInv'
  BY <1>28 DEF Disclose
<1>29. ASSUME UNCHANGED vars PROVE ScanInv'
  BY <1>29 DEF vars
<1> QED
  BY <1>1, <1>2, <1>3, <1>4, <1>5, <1>6, <1>7, <1>8, <1>9, <1>10, <1>11, <1>12,
     <1>13, <1>14, <1>15, <1>16, <1>17, <1>18, <1>19, <1>20, <1>21, <1>22, <1>23, <1>24,
     <1>25, <1>26, <1>27, <1>28, <1>29 DEF Next

\* A result keeps its meaning when it is written, and while the clone and the database move.
LEMMA ResultStep ==
  ASSUME TypeOK, ScanInv, ResultInv, [Next]_vars
  PROVE  ResultInv'
<1> USE BoundTypes DEF TypeOK, ScanInv, ResultInv
<1>1. ASSUME cmd_assemble PROVE ResultInv'
  BY <1>1 DEF cmd_assemble, Idle
<1>2. ASSUME assemble_step PROVE ResultInv'
  BY <1>2 DEF assemble_step, Advance, Advanced, LastStep, Idle
<1>3. ASSUME cmd_scan PROVE ResultInv'
  BY <1>3 DEF cmd_scan, Idle
<1>4. ASSUME scan_reads_exceptions PROVE ResultInv'
  BY <1>4 DEF scan_reads_exceptions, At
<1>5. ASSUME scan_updates_database PROVE ResultInv'
  BY <1>5 DEF scan_updates_database, At
<1>6. ASSUME scan_targets PROVE ResultInv'
  BY <1>6 DEF scan_targets, At
<1>7. ASSUME scan_writes_result PROVE ResultInv'
  <2>1. /\ job.cmd = "scan" /\ job.at = 4 /\ clone' = clone /\ now' = now /\ known' = known
        /\ result' = [exists |-> TRUE, refs |-> job.refs, policy |-> job.policy, at |-> job.time,
                      green |-> job.trusted /\ ~job.found, through |-> job.through]
    BY <1>7 DEF scan_writes_result, At
  <2>2. /\ result'.refs \subseteq Images /\ result'.policy \in Nat /\ result'.policy <= clone'.policy
        /\ result'.at \in Nat /\ result'.at <= now' /\ result'.through \in Nat
    BY <2>1
  <2>3. ASSUME result'.green, result'.policy = clone'.policy, NEW i \in result'.refs
        PROVE  \/ known'[i] >= result'.at
               \/ /\ Through[result'.policy][i] # 0
                  /\ result'.through <= Through[result'.policy][i]
    <3>1. job.entries = job.policy
      BY <2>1, <2>3
    <3>2. job.trusted /\ ~job.found /\ i \in job.refs
      BY <2>1, <2>3
    <3>3. \/ known[i] >= job.time
          \/ Through[job.entries][i] # 0 /\ job.through <= Through[job.entries][i]
      BY <2>1, <3>2
    <3> QED
      BY <2>1, <3>1, <3>3
  <2> QED
    BY <2>2, <2>3
<1>8. ASSUME cmd_up PROVE ResultInv'
  BY <1>8 DEF cmd_up, Start, Idle
<1>9. ASSUME up_checks PROVE ResultInv'
  BY <1>9 DEF up_checks, At, Advance, Advanced, LastStep, Idle
<1>10. ASSUME up_starts_caddy PROVE ResultInv'
  BY <1>10 DEF up_starts_caddy, At, Advance, Advanced, LastStep, Idle
<1>11. ASSUME up_prepares_keyring PROVE ResultInv'
  BY <1>11 DEF up_prepares_keyring, At, Advance, Advanced, LastStep, Idle
<1>12. ASSUME up_starts_all PROVE ResultInv'
  BY <1>12 DEF up_starts_all, At, Advance, Advanced, LastStep, Idle
<1>13. ASSUME cmd_keyring_prepare PROVE ResultInv'
  BY <1>13 DEF cmd_keyring_prepare, Start, Idle
<1>14. ASSUME keyring_prepare PROVE ResultInv'
  BY <1>14 DEF keyring_prepare, At, Advance, Advanced, LastStep, Idle
<1>15. ASSUME cmd_realm_rebuild PROVE ResultInv'
  BY <1>15 DEF cmd_realm_rebuild, Start, Idle
<1>16. ASSUME rebuild_checks PROVE ResultInv'
  BY <1>16 DEF rebuild_checks, At, Advance, Advanced, LastStep, Idle
<1>17. ASSUME rebuild_stops_keycloak PROVE ResultInv'
  BY <1>17 DEF rebuild_stops_keycloak, At, Advance, Advanced, LastStep, Idle
<1>18. ASSUME rebuild_drops_database PROVE ResultInv'
  BY <1>18 DEF rebuild_drops_database, At, Advance, Advanced, LastStep, Idle
<1>19. ASSUME rebuild_starts_keycloak PROVE ResultInv'
  BY <1>19 DEF rebuild_starts_keycloak, At, Advance, Advanced, LastStep, Idle
<1>20. ASSUME CommandEnds PROVE ResultInv'
  BY <1>20 DEF CommandEnds, Idle
<1>21. ASSUME PullClone PROVE ResultInv'
  BY <1>21 DEF PullClone
<1>22. ASSUME CreateRealUser PROVE ResultInv'
  BY <1>22 DEF CreateRealUser
<1>23. ASSUME RetireBootstrap PROVE ResultInv'
  BY <1>23 DEF RetireBootstrap
<1>24. ASSUME RotateBootstrap PROVE ResultInv'
  BY <1>24 DEF RotateBootstrap
<1>25. ASSUME Tick PROVE ResultInv'
  BY <1>25 DEF Tick
<1>26. ASSUME NEW r \in Releases, SaveImages(r) PROVE ResultInv'
  BY <1>26 DEF SaveImages
<1>27. ASSUME NEW r \in Releases, EditEnv(r) PROVE ResultInv'
  BY <1>27 DEF EditEnv
<1>28. ASSUME NEW i \in Images, Disclose(i) PROVE ResultInv'
  BY <1>28 DEF Disclose
<1>29. ASSUME UNCHANGED vars PROVE ResultInv'
  BY <1>29 DEF vars
<1> QED
  BY <1>1, <1>2, <1>3, <1>4, <1>5, <1>6, <1>7, <1>8, <1>9, <1>10, <1>11, <1>12,
     <1>13, <1>14, <1>15, <1>16, <1>17, <1>18, <1>19, <1>20, <1>21, <1>22, <1>23, <1>24,
     <1>25, <1>26, <1>27, <1>28, <1>29 DEF Next

\* The gate's verdict stays true until the command ends: nobody edits meanwhile.
LEMMA StartStep ==
  ASSUME TypeOK, ResultInv, StartInv, [Next]_vars
  PROVE  StartInv'
<1> USE BoundTypes, ThroughType, EditsOnlyBefore, GateClears 
    DEF TypeOK, StartInv, Cleared, ExceptedAt, MAX_SCAN_AGE, deploy_refs
<1>1. ASSUME cmd_assemble PROVE StartInv'
  BY <1>1 DEF cmd_assemble, Idle
<1>2. ASSUME assemble_step PROVE StartInv'
  BY <1>2 DEF assemble_step, Advance, Advanced, LastStep, Idle
<1>3. ASSUME cmd_scan PROVE StartInv'
  BY <1>3 DEF cmd_scan, Idle
<1>4. ASSUME scan_reads_exceptions PROVE StartInv'
  BY <1>4 DEF scan_reads_exceptions, At
<1>5. ASSUME scan_updates_database PROVE StartInv'
  BY <1>5 DEF scan_updates_database, At
<1>6. ASSUME scan_targets PROVE StartInv'
  BY <1>6 DEF scan_targets, At
<1>7. ASSUME scan_writes_result PROVE StartInv'
  BY <1>7 DEF scan_writes_result, At, Advance, Advanced, LastStep, Idle
<1>8. ASSUME cmd_up PROVE StartInv'
  BY <1>8 DEF cmd_up, Start, Idle
<1>9. ASSUME up_checks PROVE StartInv'
  BY <1>9 DEF up_checks, At, Advance, Advanced, LastStep, Idle, static_ok, manifest_ok
<1>10. ASSUME up_starts_caddy PROVE StartInv'
  BY <1>10 DEF up_starts_caddy, At, Advance, Advanced, LastStep, Idle
<1>11. ASSUME up_prepares_keyring PROVE StartInv'
  BY <1>11 DEF up_prepares_keyring, At, Advance, Advanced, LastStep, Idle
<1>12. ASSUME up_starts_all PROVE StartInv'
  BY <1>12 DEF up_starts_all, At, Advance, Advanced, LastStep, Idle
<1>13. ASSUME cmd_keyring_prepare PROVE StartInv'
  BY <1>13 DEF cmd_keyring_prepare, Start, Idle, deploy_gate_ok, manifest_ok
<1>14. ASSUME keyring_prepare PROVE StartInv'
  BY <1>14 DEF keyring_prepare, At, Advance, Advanced, LastStep, Idle
<1>15. ASSUME cmd_realm_rebuild PROVE StartInv'
  BY <1>15 DEF cmd_realm_rebuild, Start, Idle, deploy_gate_ok, manifest_ok
<1>16. ASSUME rebuild_checks PROVE StartInv'
  BY <1>16 DEF rebuild_checks, At, Advance, Advanced, LastStep, Idle
<1>17. ASSUME rebuild_stops_keycloak PROVE StartInv'
  BY <1>17 DEF rebuild_stops_keycloak, At, Advance, Advanced, LastStep, Idle
<1>18. ASSUME rebuild_drops_database PROVE StartInv'
  BY <1>18 DEF rebuild_drops_database, At, Advance, Advanced, LastStep, Idle
<1>19. ASSUME rebuild_starts_keycloak PROVE StartInv'
  BY <1>19 DEF rebuild_starts_keycloak, At, Advance, Advanced, LastStep, Idle
<1>20. ASSUME CommandEnds PROVE StartInv'
  BY <1>20 DEF CommandEnds, Idle
<1>21. ASSUME PullClone PROVE StartInv'
  BY <1>21 DEF PullClone, Editable
<1>22. ASSUME CreateRealUser PROVE StartInv'
  BY <1>22 DEF CreateRealUser
<1>23. ASSUME RetireBootstrap PROVE StartInv'
  BY <1>23 DEF RetireBootstrap
<1>24. ASSUME RotateBootstrap PROVE StartInv'
  BY <1>24 DEF RotateBootstrap
<1>25. ASSUME Tick PROVE StartInv'
  BY <1>25 DEF Tick
<1>26. ASSUME NEW r \in Releases, SaveImages(r) PROVE StartInv'
  BY <1>26 DEF SaveImages, Editable
<1>27. ASSUME NEW r \in Releases, EditEnv(r) PROVE StartInv'
  BY <1>27 DEF EditEnv, Editable
<1>28. ASSUME NEW i \in Images, Disclose(i) PROVE StartInv'
  BY <1>28 DEF Disclose
<1>29. ASSUME UNCHANGED vars PROVE StartInv'
  BY <1>29 DEF vars
<1> QED
  BY <1>1, <1>2, <1>3, <1>4, <1>5, <1>6, <1>7, <1>8, <1>9, <1>10, <1>11, <1>12,
     <1>13, <1>14, <1>15, <1>16, <1>17, <1>18, <1>19, <1>20, <1>21, <1>22, <1>23, <1>24,
     <1>25, <1>26, <1>27, <1>28, <1>29 DEF Next

\* In every reachable state a scan, its result and a command past the gate mean what the gate
\* takes them to mean.
THEOREM GateInvariant == Spec => []GateInv
<1>1. ASSUME GateInv, [Next]_vars PROVE GateInv'
  BY <1>1, TypeStep, ScanStep, ResultStep, StartStep DEF GateInv
<1> QED
  BY <1>1, GateInit, PTL DEF Spec

\* What a step may start: nothing, or the images of the files and of the release, and then only
\* past the check of the files that the command makes.
StartStepOK ==
    \A i \in StartedImages :
       \/ i \in Images /\ known[i] + MAX_SCAN_AGE >= job.time
       \/ i \in Images /\ ExceptedAt(i, job.time)

\* Every step starts cleared images only.
LEMMA StartsCleared ==
  ASSUME TypeOK, StartInv, [Next]_vars
  PROVE  StartStepOK
<1> USE DEF TypeOK, StartInv, Cleared, StartStepOK, StartedImages
<1>1. ASSUME cmd_assemble PROVE StartStepOK
  BY <1>1 DEF cmd_assemble, Idle
<1>2. ASSUME assemble_step PROVE StartStepOK
  BY <1>2 DEF assemble_step, Advance, Advanced, LastStep, Idle
<1>3. ASSUME cmd_scan PROVE StartStepOK
  BY <1>3 DEF cmd_scan, Idle
<1>4. ASSUME scan_reads_exceptions PROVE StartStepOK
  BY <1>4 DEF scan_reads_exceptions, At
<1>5. ASSUME scan_updates_database PROVE StartStepOK
  BY <1>5 DEF scan_updates_database, At
<1>6. ASSUME scan_targets PROVE StartStepOK
  BY <1>6 DEF scan_targets, At
<1>7. ASSUME scan_writes_result PROVE StartStepOK
  BY <1>7 DEF scan_writes_result, At, Advance, Advanced, LastStep, Idle
<1>8. ASSUME cmd_up PROVE StartStepOK
  BY <1>8 DEF cmd_up, Start, Idle
<1>9. ASSUME up_checks PROVE StartStepOK
  BY <1>9 DEF up_checks, At, Advance, Advanced, LastStep, Idle
<1>10. ASSUME up_starts_caddy PROVE StartStepOK
  BY <1>10 DEF up_starts_caddy, At, Advance, Advanced, LastStep, Idle, PinnedImage
<1>11. ASSUME up_prepares_keyring PROVE StartStepOK
  BY <1>11 DEF up_prepares_keyring, At, Advance, Advanced, LastStep, Idle, ReleaseImage
<1>12. ASSUME up_starts_all PROVE StartStepOK
  BY <1>12 DEF up_starts_all, At, Advance, Advanced, LastStep, Idle, PinnedImage, ReleaseImage, Started
<1>13. ASSUME cmd_keyring_prepare PROVE StartStepOK
  BY <1>13 DEF cmd_keyring_prepare, Start, Idle
<1>14. ASSUME keyring_prepare PROVE StartStepOK
  BY <1>14 DEF keyring_prepare, At, Advance, Advanced, LastStep, Idle, ReleaseImage
<1>15. ASSUME cmd_realm_rebuild PROVE StartStepOK
  BY <1>15 DEF cmd_realm_rebuild, Start, Idle
<1>16. ASSUME rebuild_checks PROVE StartStepOK
  BY <1>16 DEF rebuild_checks, At, Advance, Advanced, LastStep, Idle
<1>17. ASSUME rebuild_stops_keycloak PROVE StartStepOK
  BY <1>17 DEF rebuild_stops_keycloak, At, Advance, Advanced, LastStep, Idle
<1>18. ASSUME rebuild_drops_database PROVE StartStepOK
  BY <1>18 DEF rebuild_drops_database, At, Advance, Advanced, LastStep, Idle
<1>19. ASSUME rebuild_starts_keycloak PROVE StartStepOK
  BY <1>19 DEF rebuild_starts_keycloak, At, Advance, Advanced, LastStep, Idle, PinnedImage, Started
<1>20. ASSUME CommandEnds PROVE StartStepOK
  BY <1>20 DEF CommandEnds, Idle
<1>21. ASSUME PullClone PROVE StartStepOK
  BY <1>21 DEF PullClone
<1>22. ASSUME CreateRealUser PROVE StartStepOK
  BY <1>22 DEF CreateRealUser
<1>23. ASSUME RetireBootstrap PROVE StartStepOK
  BY <1>23 DEF RetireBootstrap
<1>24. ASSUME RotateBootstrap PROVE StartStepOK
  BY <1>24 DEF RotateBootstrap
<1>25. ASSUME Tick PROVE StartStepOK
  BY <1>25 DEF Tick
<1>26. ASSUME NEW r \in Releases, SaveImages(r) PROVE StartStepOK
  BY <1>26 DEF SaveImages
<1>27. ASSUME NEW r \in Releases, EditEnv(r) PROVE StartStepOK
  BY <1>27 DEF EditEnv
<1>28. ASSUME NEW i \in Images, Disclose(i) PROVE StartStepOK
  BY <1>28 DEF Disclose
<1>29. ASSUME UNCHANGED vars PROVE StartStepOK
  BY <1>29 DEF vars
<1> QED
  BY <1>1, <1>2, <1>3, <1>4, <1>5, <1>6, <1>7, <1>8, <1>9, <1>10, <1>11, <1>12,
     <1>13, <1>14, <1>15, <1>16, <1>17, <1>18, <1>19, <1>20, <1>21, <1>22, <1>23, <1>24,
     <1>25, <1>26, <1>27, <1>28, <1>29 DEF Next

\* Whatever is pulled, edited or cut short between scan and gate, and disclosed until the start, no
\* container starts from an image known as vulnerable for more than 24 hours when the command
\* passed its gate, unless the clone's policy excepts it that day.
THEOREM GateHolds == Spec => NoKnownVulnerableStart
<1>1. ASSUME GateInv, [Next]_vars PROVE StartStepOK
  BY <1>1, StartsCleared DEF GateInv
<1>2. GateInv /\ [Next]_vars => [StartStepOK]_vars
  BY <1>1
<1> QED
  BY <1>2, GateInvariant, PTL DEF Spec, NoKnownVulnerableStart, StartStepOK

------------------------------------------------------------------------------
(* The realm rebuild *)

\* The realm and its administrator come and go together because the bootstrap secret is there
\* whenever the realm is not, and past its checks a rebuild meets no retired secret.  (It may meet
\* a real user: accounts are made until Keycloak stops.)
RealmInv ==
    /\ keycloak.realm => keycloak.admin
    /\ ~keycloak.realm => bootstrap /\ ~keycloak.admin
    /\ job.cmd = "rebuild" /\ job.at # 1 => bootstrap

\* Initially there is no realm, and the bootstrap secret is there.
LEMMA RealmInit == Init => RealmInv
  BY DEF Init, RealmInv, Idle

\* Every step keeps the realm's invariant.
LEMMA RealmStep ==
  ASSUME TypeOK, RealmInv, [Next]_vars
  PROVE  RealmInv'
<1> USE DEF TypeOK, RealmInv
<1>1. ASSUME cmd_assemble PROVE RealmInv'
  BY <1>1 DEF cmd_assemble, Idle
<1>2. ASSUME assemble_step PROVE RealmInv'
  BY <1>2 DEF assemble_step, Advance, Advanced, LastStep, Idle
<1>3. ASSUME cmd_scan PROVE RealmInv'
  BY <1>3 DEF cmd_scan, Idle
<1>4. ASSUME scan_reads_exceptions PROVE RealmInv'
  BY <1>4 DEF scan_reads_exceptions, At
<1>5. ASSUME scan_updates_database PROVE RealmInv'
  BY <1>5 DEF scan_updates_database, At
<1>6. ASSUME scan_targets PROVE RealmInv'
  BY <1>6 DEF scan_targets, At
<1>7. ASSUME scan_writes_result PROVE RealmInv'
  BY <1>7 DEF scan_writes_result, At, Advance, Advanced, LastStep, Idle
<1>8. ASSUME cmd_up PROVE RealmInv'
  BY <1>8 DEF cmd_up, Start, Idle
<1>9. ASSUME up_checks PROVE RealmInv'
  BY <1>9 DEF up_checks, At, Advance, Advanced, LastStep, Idle
<1>10. ASSUME up_starts_caddy PROVE RealmInv'
  BY <1>10 DEF up_starts_caddy, At, Advance, Advanced, LastStep, Idle
<1>11. ASSUME up_prepares_keyring PROVE RealmInv'
  BY <1>11 DEF up_prepares_keyring, At, Advance, Advanced, LastStep, Idle
<1>12. ASSUME up_starts_all PROVE RealmInv'
  BY <1>12 DEF up_starts_all, At, Advance, Advanced, LastStep, Idle, Started
<1>13. ASSUME cmd_keyring_prepare PROVE RealmInv'
  BY <1>13 DEF cmd_keyring_prepare, Start, Idle
<1>14. ASSUME keyring_prepare PROVE RealmInv'
  BY <1>14 DEF keyring_prepare, At, Advance, Advanced, LastStep, Idle
<1>15. ASSUME cmd_realm_rebuild PROVE RealmInv'
  BY <1>15 DEF cmd_realm_rebuild, Start, Idle
<1>16. ASSUME rebuild_checks PROVE RealmInv'
  BY <1>16 DEF rebuild_checks, At, Advance, Advanced, LastStep, Idle, 
     identity_facts_known, users_without_synthetic, bootstrap_retired
<1>17. ASSUME rebuild_stops_keycloak PROVE RealmInv'
  BY <1>17 DEF rebuild_stops_keycloak, At, Advance, Advanced, LastStep, Idle
<1>18. ASSUME rebuild_drops_database PROVE RealmInv'
  BY <1>18 DEF rebuild_drops_database, At, Advance, Advanced, LastStep, Idle
<1>19. ASSUME rebuild_starts_keycloak PROVE RealmInv'
  BY <1>19 DEF rebuild_starts_keycloak, At, Advance, Advanced, LastStep, Idle, Started
<1>20. ASSUME CommandEnds PROVE RealmInv'
  BY <1>20 DEF CommandEnds, Idle
<1>21. ASSUME PullClone PROVE RealmInv'
  BY <1>21 DEF PullClone
<1>22. ASSUME CreateRealUser PROVE RealmInv'
  BY <1>22 DEF CreateRealUser
<1>23. ASSUME RetireBootstrap PROVE RealmInv'
  BY <1>23 DEF RetireBootstrap
<1>24. ASSUME RotateBootstrap PROVE RealmInv'
  BY <1>24 DEF RotateBootstrap
<1>25. ASSUME Tick PROVE RealmInv'
  BY <1>25 DEF Tick
<1>26. ASSUME NEW r \in Releases, SaveImages(r) PROVE RealmInv'
  BY <1>26 DEF SaveImages
<1>27. ASSUME NEW r \in Releases, EditEnv(r) PROVE RealmInv'
  BY <1>27 DEF EditEnv
<1>28. ASSUME NEW i \in Images, Disclose(i) PROVE RealmInv'
  BY <1>28 DEF Disclose
<1>29. ASSUME UNCHANGED vars PROVE RealmInv'
  BY <1>29 DEF vars
<1> QED
  BY <1>1, <1>2, <1>3, <1>4, <1>5, <1>6, <1>7, <1>8, <1>9, <1>10, <1>11, <1>12,
     <1>13, <1>14, <1>15, <1>16, <1>17, <1>18, <1>19, <1>20, <1>21, <1>22, <1>23, <1>24,
     <1>25, <1>26, <1>27, <1>28, <1>29 DEF Next

\* In every reachable state the realm has its administrator or the secret to make one.
THEOREM RealmInvariant == Spec => [](TypeOK /\ RealmInv)
  BY RealmInit, RealmStep, TypeInit, TypeStep, PTL DEF Spec

\* However often a rebuild is cut between dropping the database and starting Keycloak again, an
\* imported realm that runs has an administrator.
THEOREM KeycloakAdministered == Spec => []KeycloakHasAdmin
<1>1. RealmInv => KeycloakHasAdmin
  BY DEF RealmInv, KeycloakHasAdmin
<1> QED
  BY <1>1, RealmInvariant, PTL
==============================================================================
