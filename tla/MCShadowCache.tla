--------------------------- MODULE MCShadowCache ---------------------------
(***************************************************************************)
(* ShadowCache for TLC: the models, and a bound on how often processes     *)
(* start.                                                                  *)
(***************************************************************************)
EXTENDS ShadowCache

CONSTANT MaxInits          \* bound on the starts of all processes together

VARIABLE inits

\* "A2" has the names, formats and shapes of "A" and other weights; "B" differs
\* from both in its key alone, and not in size.
MCKey == [m \in Models |-> IF m = "B" THEN "b" ELSE "a"]
MCPayload == [m \in Models |-> 1]

BoundedCacheInit == CacheInit /\ inits = 0
BoundedCacheNext ==
    /\ CacheNext
    /\ inits' = inits + Cardinality({p \in Processes : proc[p].pc = "down" /\ proc'[p].pc # "down"})
    /\ inits' <= MaxInits
BoundedCacheSpec == BoundedCacheInit /\ [][BoundedCacheNext]_<<cacheVars, inits>>
=============================================================================
