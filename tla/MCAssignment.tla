---------------------------- MODULE MCAssignment ----------------------------
(* Symmetry for the runs of Assignment whose properties are invariants.    *)
EXTENDS Assignment, TLC

Symmetry == Permutations(Deliveries) \cup Permutations(Postmen)
              \cup Permutations(Beats) \cup Permutations(Slots)
=============================================================================
