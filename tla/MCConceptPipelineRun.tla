------------------------- MODULE MCConceptPipelineRun -------------------------
(* ConceptPipelineRun with small constants for TLC. *)
EXTENDS ConceptPipelineRun, TLC

Symmetry == Permutations(Worker)
=============================================================================
