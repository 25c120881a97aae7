--------------------------- MODULE MCCacheManager ---------------------------
EXTENDS CacheManager, TLC

Symmetry == Permutations(Rid) \cup Permutations(Served) \cup Permutations(Called)
=============================================================================
