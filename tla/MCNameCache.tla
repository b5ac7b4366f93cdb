---------------------------- MODULE MCNameCache ----------------------------
(* Small instances of NameCache for TLC.                                   *)
EXTENDS NameCache, TLC

\* Threads and names are interchangeable.
Symmetry == Permutations(Threads) \cup Permutations(Names)
=============================================================================
