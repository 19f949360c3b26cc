---------------------------- MODULE MCStreamWrite ----------------------------
(* The write core on its own, over every outcome a driver can produce. *)
EXTENDS StreamWrite, MCData

MCItems   == {ItemA, ItemB, ItemU, Pair, Nested, Mismatch, TooFew, Overlap, RoleHead}
RoleItems == {ItemA, RoleHead}
AllNodes(items) == UNION {SubNodes(n) : n \in items}
MCNodes   == AllNodes(MCItems)
RoleNodes == AllNodes(RoleItems)
=============================================================================
