------------------------ MODULE MCConceptPipelineNode ------------------------
(* ConceptPipelineNode with small constants for TLC. *)
EXTENDS ConceptPipelineNode, TLC

Symmetry == Permutations(Worker)
=============================================================================
