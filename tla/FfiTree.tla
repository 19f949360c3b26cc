------------------------------- MODULE FfiTree -------------------------------
(***************************************************************************)
(* Composites across the C ABI.  A C program passes and receives a tree as *)
(* a flat array in preorder, each head with the number of its members:     *)
(* hurray-ffi/src/composite.rs rebuilds the tree of an array to be         *)
(* written, item.rs flattens an item that was read.  Both keep their       *)
(* pending work on an explicit stack instead of recursing.                 *)
(*                                                                         *)
(* An array element is [kind, id, slices, count, null], for a file with a  *)
(* name; `null` says which of its pointers is null: "None", "Descriptor",  *)
(* "Payload" or "Name" (or "Utf8": the name is not UTF-8).                 *)
(***************************************************************************)
EXTENDS Integers, Sequences, SequencesExt

Opens(node) == node.kind = "Composite" /\ node.count > 0

\* The heads that are full are popped, up to the first that still waits for a member.
CloseFull(open) ==
  LET waiting == {k \in DOMAIN open : open[k].left > 0}
  IN  IF waiting = {} THEN <<>> ELSE SubSeq(open, 1, CHOOSE k \in waiting : \A l \in waiting : l <= k)

\* members_of, one element: it joins the innermost open head, and may open itself.  `ok`
\* turns false at an element past the end of the root's subtree.
Adopt(s, node, i) ==
  IF i > 1 /\ s.open = <<>> THEN [s EXCEPT !.ok = FALSE]
  ELSE LET parent  == Last(s.open)
           taken   == [s.open EXCEPT ![Len(s.open)].left = @ - 1]
           open    == IF i = 1 THEN <<>> ELSE CloseFull(taken)
           members == IF i = 1 THEN s.members
                      ELSE [s.members EXCEPT ![parent.head] = Append(@, i)]
       IN  [ok |-> s.ok, members |-> members,
            open |-> IF Opens(node) THEN Append(open, [head |-> i, left |-> node.count]) ELSE open]

\* Mutant: an array whose counts want more elements passes for a tree.
members_of_unfinished(nodes) ==
  LET start == [ok |-> TRUE, open |-> <<>>, members |-> [i \in DOMAIN nodes |-> <<>>]]
      end   == FoldLeftDomain(LAMBDA s, i : IF s.ok THEN Adopt(s, nodes[i], i) ELSE s, start, nodes)
  IN  [ok |-> end.ok, members |-> end.members]

\* members_of: the indices of the members of each element, or an error when the counts do
\* not describe exactly one tree.
members_of(nodes) ==
  LET start == [ok |-> TRUE, open |-> <<>>, members |-> [i \in DOMAIN nodes |-> <<>>]]
      end   == FoldLeftDomain(LAMBDA s, i : IF s.ok THEN Adopt(s, nodes[i], i) ELSE s, start, nodes)
  IN  [ok |-> end.ok /\ end.open = <<>>, members |-> end.members]

\* descriptor_from_c and payloads_from_c: a head's payloads are not looked at.
NullPointer(node) ==
  node.null = "Descriptor" \/ (node.null = "Payload" /\ node.kind = "Tensor")

\* stream_tree: the nodes built from the last element to the first, so that the members of
\* a head exist when it takes them.
Build(nodes, members) ==
  LET built[i \in DOMAIN nodes] ==
        [kind |-> nodes[i].kind, id |-> nodes[i].id,
         slices  |-> IF nodes[i].kind = "Tensor" THEN nodes[i].slices ELSE <<>>,
         members |-> [k \in DOMAIN members[i] |-> built[members[i][k]]]]
  IN  built[1]

stream_tree(nodes) ==
  IF nodes = <<>> \/ nodes[1].kind # "Composite" THEN [status |-> "NOT_COMPOSITE", tree |-> <<>>]
  ELSE LET tree == members_of(nodes)
       IN  IF ~ tree.ok THEN [status |-> "INDEX_OUT_OF_BOUNDS", tree |-> <<>>]
           ELSE IF \E i \in DOMAIN nodes : NullPointer(nodes[i])
                THEN [status |-> "NULL_POINTER", tree |-> <<>>]
                ELSE [status |-> "OK", tree |-> <<Build(nodes, tree.members)>>]

\* file_tree: the same with names.  The elements are looked at from the last to the first, so
\* the last one with a fault decides the status.
NodeFault(node) ==
  CASE node.null \in {"Descriptor", "Name"} -> "NULL_POINTER"
    [] node.null = "Utf8" -> "INVALID_FILE"
    [] node.null = "Payload" /\ node.kind = "Tensor" -> "NULL_POINTER"
    [] OTHER -> "OK"

BuildNamed(nodes, members) ==
  LET built[i \in DOMAIN nodes] ==
        [kind |-> nodes[i].kind, name |-> nodes[i].name, id |-> nodes[i].id,
         slices  |-> IF nodes[i].kind = "Tensor" THEN nodes[i].slices ELSE <<>>,
         members |-> [k \in DOMAIN members[i] |-> built[members[i][k]]]]
  IN  built[1]

file_tree(nodes) ==
  IF nodes = <<>> \/ nodes[1].kind # "Composite" THEN [status |-> "NOT_COMPOSITE", tree |-> <<>>]
  ELSE LET tree   == members_of(nodes)
           faulty == {i \in DOMAIN nodes : NodeFault(nodes[i]) # "OK"}
       IN  IF ~ tree.ok THEN [status |-> "INDEX_OUT_OF_BOUNDS", tree |-> <<>>]
           ELSE IF faulty # {}
                THEN [status |-> NodeFault(nodes[CHOOSE i \in faulty : \A j \in faulty : j <= i]),
                      tree   |-> <<>>]
                ELSE [status |-> "OK", tree |-> <<BuildNamed(nodes, tree.members)>>]

\* The preorder of one tree, by definition: before each element something is awaited, and
\* after the last nothing is.
IsOneTree(nodes) ==
  LET awaited[i \in 0 .. Len(nodes)] ==
        IF i = 0 THEN 1
        ELSE awaited[i - 1] - 1 + (IF Opens(nodes[i]) THEN nodes[i].count ELSE 0)
  IN  /\ \A i \in 0 .. Len(nodes) - 1 : awaited[i] > 0
      /\ awaited[Len(nodes)] = 0

-----------------------------------------------------------------------------
\* item_handle: pop an item, emit its node, push its members in reverse.

Node(item) == [kind |-> item.kind, id |-> item.id, buffers |-> item.buffers,
               count |-> Len(item.members)]

\* Mutant: the members are pushed first to last, and come out last to first.
PushMembers_unreversed(stack, item) == stack \o item.members

PushMembers(stack, item) == stack \o Reverse(item.members)

\* A turn of the loop, none once the stack is empty.
Unstack(s) ==
  IF s.stack = <<>> THEN s
  ELSE [nodes |-> Append(s.nodes, Node(Last(s.stack))),
        stack |-> PushMembers(Front(s.stack), Last(s.stack))]

\* `most` is at least the number of nodes, each of which takes a turn.
item_handle(item, most) ==
  LET loop[turn \in 0 .. most] ==
        IF turn = 0 THEN [nodes |-> <<>>, stack |-> <<item>>] ELSE Unstack(loop[turn - 1])
  IN  loop[most].nodes
=============================================================================
