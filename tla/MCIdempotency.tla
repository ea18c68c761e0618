--------------------------- MODULE MCIdempotency ---------------------------
EXTENDS Idempotency, TLC
Sym == Permutations(Attempts) \cup Permutations(Bodies) \cup Permutations(Targets)
=============================================================================
