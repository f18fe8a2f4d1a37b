---------------------------- MODULE MCRateLimiter ----------------------------
(* Instances of RateLimiter for TLC.  The sums are such that two shards    *)
(* are in use, one of them through a negative remainder.                   *)
EXTENDS RateLimiter, TLC

CONSTANTS a1, a2

Sums == [ip \in Ip |-> IF ip = a1 THEN 4 ELSE -3]

Symmetries == Permutations(Goroutine)
=============================================================================
