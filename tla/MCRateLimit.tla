---------------------------- MODULE MCRateLimit ----------------------------
EXTENDS RateLimit

CONSTANTS a, b, c

Three == {a, b, c}
Symmetry == Permutations(Three)
=============================================================================
