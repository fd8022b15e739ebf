---------------------------- MODULE MCRateLimiter ----------------------------
(* Instances of the token bucket for TLC. *)
EXTENDS RateLimiter, TLC

CONSTANTS c1, c2

TwoCallers == {c1, c2}
BothLimits == {1, Limit}
CallerSymmetry == Permutations(Callers)

\* Nothing, part of the bucket, all of it, and more than it can ever hold.
AllAmounts == {0, 1, Limit, Limit + 1}
=============================================================================
