---------------------------- MODULE MCRateLimiter -----------------------------
(* RateLimiter on small instances. *)
EXTENDS RateLimiter, TLC

CONSTANTS a, b, c

\* Two IPs of one shard and one of another.
ThreeIPs == {a, b, c}
PairAndOne == (a :> 0) @@ (b :> 0) @@ (c :> 1)

\* The observed IP is in the shard that a sweep reaches last.
TwoIPs == {a, b}
SweptLast == (a :> 1) @@ (b :> 0)

===============================================================================
