---------------------------- MODULE MCFileLease ----------------------------
(* FileLease for TLC: the processes are interchangeable. *)
EXTENDS FileLease, TLC

Symmetry == Permutations(Acquirers)
=============================================================================
