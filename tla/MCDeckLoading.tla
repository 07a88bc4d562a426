--------------------------- MODULE MCDeckLoading ---------------------------
EXTENDS DeckLoading, TLC

Symmetry == Permutations(Card) \cup Permutations(Laterality)
=============================================================================
