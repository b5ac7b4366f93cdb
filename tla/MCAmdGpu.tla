------------------------------ MODULE MCAmdGpu ------------------------------
(* Small instances of AmdGpu for TLC.                                      *)
EXTENDS AmdGpu, TLC

Symmetry == Permutations(Threads)
=============================================================================
