------------------------ MODULE MCCompletionDelivery ------------------------
(* Small instances of CompletionDelivery for TLC.                          *)
EXTENDS CompletionDelivery, TLC

Symmetry == Permutations(Sessions) \union Permutations(Handlers \ {Stopper}) \union Permutations(Relays)
=============================================================================
