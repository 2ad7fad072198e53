--------------------------- MODULE MCGradingWorker ---------------------------
(* Small instances of GradingWorker for TLC.                               *)
EXTENDS GradingWorker, TLC

Symmetry == Permutations(Sessions) \union Permutations(Consumers)
=============================================================================
