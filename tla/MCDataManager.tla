--------------------------- MODULE MCDataManager ---------------------------
EXTENDS DataManager, TLC

Symmetry ==
    Permutations(Threads) \cup Permutations(Urls) \cup Permutations(Paths)
=============================================================================
