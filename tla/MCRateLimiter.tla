--------------------------- MODULE MCRateLimiter ---------------------------
EXTENDS RateLimiter, TLC

\* The requests differ in nothing but their names.
RequestSymmetry == Permutations(Requests)
=============================================================================
