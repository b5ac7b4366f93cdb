------------------------------ MODULE MCUpdate ------------------------------
(* Small instances of Update for TLC.                                      *)
EXTENDS Update, TLC

CONSTANTS good1, bad, good2

\* good2 did not change the requirements: it also runs with those of good1.
SameRequirements == {<<good2, good1>>, <<good1, good2>>}
=============================================================================
