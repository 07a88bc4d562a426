------------------------- MODULE MCDeferredBatches -------------------------
EXTENDS DeferredBatches, TLC

(* Two batches, one of two ids and one of one.                             *)
MCContent == [b \in Batch |-> IF b = 1 THEN {1, 2} ELSE {3}]

Symmetry == Permutations(Worker)
=============================================================================
