---------------------------- MODULE MCDeployGate ----------------------------
(* The deploy gate on a small instance.  The second policy excepts the      *)
(* images of the first pins on day 1 and those of release 1 until day 2.    *)
EXTENDS DeployGate
ThroughDates ==
    [p \in 1 .. MaxPolicy |->
       [i \in Images |-> CASE p = 2 /\ i = Pinned(1) -> 1
                           [] p = 2 /\ i = Release(1) -> 2
                           [] OTHER -> 0]]
=============================================================================
