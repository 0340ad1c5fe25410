----------------------------- MODULE MCLimiter ------------------------------
(* Limiter on small policies: half a token or one per tick, bursts of zero *)
(* (which counts as one) and two. At half a token per tick an idle bucket  *)
(* is evicted before the burst of two has been refilled.                   *)
EXTENDS Limiter, TLC

CONSTANTS SignedIn

P(rate, burst, threshold, window) ==
    [enabled |-> rate > 0, rate |-> rate, burst |-> burst,
     banEnabled |-> threshold > 0, threshold |-> threshold, window |-> window]

\* Anonymous addresses are limited and banned, signed-in ones only banned;
\* the administrator may be more generous and less so again.
Table(p) == [t \in Tier |-> IF t = Anonymous THEN p ELSE P(0, 0, 2, 1)]

MCPolicies == {Table(P(1, 0, 2, 1)), Table(P(2, 2, 2, 1)), Table(P(1, 2, 2, 1))}

Symmetry == Permutations(Worker) \cup Permutations(Bucket)
=============================================================================
