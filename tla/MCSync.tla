------------------------------- MODULE MCSync -------------------------------
EXTENDS Sync, TLC
Sym == Permutations(Storages) \cup Permutations(Items)
=============================================================================
