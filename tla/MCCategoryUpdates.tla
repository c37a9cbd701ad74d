-------------------------- MODULE MCCategoryUpdates --------------------------
EXTENDS CategoryUpdates, TLC

EditSymmetry == Permutations(Client) \cup Permutations(Batch) \cup Permutations(Editor)
=============================================================================
