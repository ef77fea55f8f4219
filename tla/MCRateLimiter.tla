--------------------------- MODULE MCRateLimiter ---------------------------
(***************************************************************************)
(* A small instance of the rate limiter: a minute of three ticks with two  *)
(* reads in it, an hour of three ticks, a day of six.                      *)
(***************************************************************************)
EXTENDS RateLimiter, TLC

MCWindowMs == [w \in Window |-> IF w = "daily" THEN 6 ELSE 3]
MCLimit == [w \in Window |-> IF w = "daily" THEN 3 ELSE 2]
MCSymmetry == Permutations(Read)

=============================================================================
