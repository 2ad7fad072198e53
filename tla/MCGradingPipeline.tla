-------------------------- MODULE MCGradingPipeline --------------------------
(* Small instances of GradingPipeline for TLC.                             *)
EXTENDS GradingPipeline, TLC

Symmetry == Permutations(Handlers) \union Permutations(Consumers)
=============================================================================
