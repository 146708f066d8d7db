-------------------------- MODULE MCWorkDispatch --------------------------
(* Symmetry and a bound for model checking WorkDispatch.                   *)
EXTENDS WorkDispatch, TLC

(* Processes are interchangeable.                                          *)
ProcSymmetry == Permutations(Procs)

(* Bound: after a crash, no step from a state with two aborted entries.    *)
Aborted == {x \in Works \X Numbers \X Owners : journal[x[1]][x[2]][x[3]].state = "ABORTED"}
FewAborts == crashes = 0 \/ Cardinality(Aborted) <= 1
=============================================================================
