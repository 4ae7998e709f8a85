--------------------------- MODULE MCTaskDispatch ---------------------------
(* Instances of TaskDispatch for TLC. *)
EXTENDS TaskDispatch, TLC

Symmetry == Permutations(Ids) \cup Permutations(Workers)
                \cup Permutations(Schedulers)

AllFaults == FaultKinds
=============================================================================
