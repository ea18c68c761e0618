----------------------------- MODULE MCStorages -----------------------------
EXTENDS Storages, TLC
Sym == Permutations(StorageIds) \cup Permutations(StorageRequests)
=============================================================================
