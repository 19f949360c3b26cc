---------------------------- MODULE MCStreamPipe ----------------------------
(* Writer, transport and reader together, over items that fit the reader's limits. *)
EXTENDS StreamPipe, MCData

MCItems    == {ItemB, Nested}
EmptyItems == {ItemA, Empty}
LoneItems  == {ItemA, LoneHead}
AllNodes(items) == UNION {SubNodes(n) : n \in items}
MCNodes    == AllNodes(MCItems)
EmptyNodes == AllNodes(EmptyItems)
LoneNodes  == AllNodes(LoneItems)

\* The items of the run are such that the theorems about this module apply to them.
ASSUME MCNodesWithinLimits == NodesWithinLimits
=============================================================================
