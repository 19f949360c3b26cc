------------------------------- MODULE MCData -------------------------------
(***************************************************************************)
(* Small descriptors and items shared by the stream and file models.       *)
(***************************************************************************)
EXTENDS Frames, SequencesExt

\* A dense tensor descriptor of `len` encoded bytes.
Dense(len, bufs) ==
  [len |-> len, bufs |-> bufs, layout |-> "Dense", rule |-> "None", count |-> 0,
   shape |-> <<1>>, etype |-> "f32", quant |-> FALSE, shard |-> <<>>, role |-> "None"]
Shard(d, parent, off) == [d EXCEPT !.shard = <<[parent |-> parent, offset |-> off]>>]

HeadD(len, rule, n, shape) ==
  [Dense(len, <<>>) EXCEPT !.layout = "Composite", !.rule = rule, !.count = n,
                           !.shape = shape]

Buf(n) == [size |-> n, synced |-> TRUE, allocatable |-> TRUE]

MCDesc ==
  [a    |-> Dense(3, <<Buf(1)>>),
   b    |-> Dense(4, <<Buf(0), Buf(2)>>),
   e    |-> Dense(3, <<Buf(0)>>),
   u    |-> Dense(3, <<[Buf(1) EXCEPT !.synced = FALSE]>>),
   p1   |-> Shard(Dense(3, <<Buf(1)>>), <<2>>, <<0>>),
   p2   |-> Shard(Dense(3, <<Buf(1)>>), <<2>>, <<1>>),
   grp2 |-> HeadD(3, "Group", 2, <<1>>),
   grp1 |-> HeadD(3, "Group", 1, <<1>>),
   grp0 |-> HeadD(3, "Group", 0, <<1>>),
   par2 |-> HeadD(4, "Partition", 2, <<2>>),
   ovl  |-> HeadD(3, "Overlay", 1, <<1>>),
   base |-> [Shard(HeadD(3, "Group", 1, <<1>>), <<1>>, <<0>>) EXCEPT !.role = "Base"]]

T(id, slices) == [kind |-> "Tensor", id |-> id, slices |-> slices, members |-> <<>>]
C(id, members) == [kind |-> "Composite", id |-> id, slices |-> <<>>, members |-> members]

ItemA    == T("a", <<1>>)
ItemB    == T("b", <<0, 2>>)
ItemE    == T("e", <<0>>)
ItemU    == T("u", <<1>>)
Mismatch == T("a", <<2>>)                               \* BufferSizeMismatch
TooFew   == T("b", <<2>>)                               \* MultiBufferLengthMismatch
Pair     == C("par2", <<T("p1", <<1>>), T("p2", <<1>>)>>)
Overlap  == C("par2", <<T("p1", <<1>>), T("p1", <<1>>)>>)  \* CompositePartitionOverlap
Nested   == C("grp2", <<ItemE, C("grp1", <<ItemA>>)>>)
Mixed    == C("grp2", <<Pair, ItemE>>)                  \* a partition inside a group
Wrapped  == C("grp1", <<ItemA>>)
Deep     == C("grp1", <<C("grp1", <<C("grp1", <<ItemE>>)>>)>>)
Empty    == C("grp0", <<>>)                             \* member_count = 0
LoneHead == C("grp1", <<T("grp1", <<>>)>>)              \* a head passed as a tensor node
RoleHead == C("ovl", <<C("base", <<ItemA>>)>>)          \* a nested head in an overlay

\* The node and every node below it.
RECURSIVE SubNodes(_)
SubNodes(n) == {n} \cup UNION {SubNodes(n.members[i]) : i \in DOMAIN n.members}
=============================================================================
