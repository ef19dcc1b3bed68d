------------------------- MODULE MCTaskDelegations -------------------------
EXTENDS TaskDelegations
CONSTANTS d1, d2, d3

\* A chain: the middle delegation overlaps both others, which do not overlap.
ChainPaths == {"a", "b"}
Chain == (d1 :> {"a"}) @@ (d2 :> {"a", "b"}) @@ (d3 :> {"b"})
=============================================================================
