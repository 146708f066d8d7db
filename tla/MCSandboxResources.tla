------------------------ MODULE MCSandboxResources ------------------------
(* Instances of SandboxResources for TLC.  Works and processes are         *)
(* interchangeable.                                                        *)
EXTENDS SandboxResources, TLC
Symmetry == Permutations(Works) \cup Permutations(Procs)
=============================================================================
