----------------------------- MODULE MCKeyRing -----------------------------
(* The key ring on a small instance: key slots are interchangeable. *)
EXTENDS KeyRing, TLC
SlotSymmetry == Permutations(Slots)
=============================================================================
