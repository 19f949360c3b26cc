------------------------------ MODULE MCPyAio ------------------------------
(* Two calls of write() by two tasks, over a pipe smaller than an item. *)
EXTENDS PyAio, MCData

MCItems == {ItemA, Wrapped, Mismatch}
MCNodes == UNION {SubNodes(n) : n \in MCItems}

\* The nodes are ones the reader takes.
ASSUME MCNodesWithinLimits == P!NodesWithinLimits
=============================================================================
