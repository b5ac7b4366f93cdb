------------------------------- MODULE MCRapl -------------------------------
(* Small instances of Rapl for TLC.                                        *)
EXTENDS Rapl, TLC

Symmetry == Permutations(Threads) \cup Permutations(Domains)
=============================================================================
