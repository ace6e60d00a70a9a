--------------------------- MODULE MCRateLimiter ---------------------------
(* The rate limiter on two CPUs and two sources. *)
EXTENDS RateLimiter, TLC

\* Elements are interchangeable: the pool hands out any free one.
Symmetry == Permutations(Elements) \cup Permutations(CPUs) \cup Permutations(Sources)
============================================================================
