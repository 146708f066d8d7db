--------------------------- MODULE MCCallQueue ---------------------------
(* Symmetry for model checking CallQueue: callers are interchangeable.     *)
EXTENDS CallQueue, TLC

TaskSymmetry == Permutations(Tasks)
=============================================================================
