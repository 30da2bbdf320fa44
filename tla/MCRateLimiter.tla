--------------------------- MODULE MCRateLimiter ---------------------------
(* RateLimiter on small instances.  Goroutines are interchangeable, and so    *)
(* are clients, in the safety runs; liveness is checked without symmetry.     *)
EXTENDS RateLimiter, TLC

Symmetry == Permutations(Goroutines) \cup Permutations(Clients)
=============================================================================
