------------------------ MODULE MCCompositeValidator ------------------------
(* Two-dimensional heads with every in-range and some out-of-range boxes. *)
EXTENDS CompositeValidator

CONSTANTS Side,      \* member dimensions range over 0 .. Side
          HeadShapes \* the shapes of the heads

HeadOf(rule, n, shape) ==
  [layout |-> "Composite", rule |-> rule, count |-> n, shape |-> shape,
   etype |-> "f32", quant |-> FALSE, shard |-> <<>>, role |-> "None"]

MCHeads ==
  {HeadOf(r, n, s) : r \in {"Partition", "Overlay"}, n \in {0, 2, 3}, s \in HeadShapes}
    \cup {HeadOf("Partition", 1, <<U64Max, 1>>), HeadOf("Group", 1, <<U64Max, 1>>),
          [HeadOf("Group", 1, <<1, 1>>) EXCEPT !.layout = "Dense"]}

Box(parent, off, shape, role, etype, quant) ==
  [layout |-> "Dense", rule |-> "None", count |-> 0, shape |-> shape, etype |-> etype,
   quant |-> quant, shard |-> <<[parent |-> parent, offset |-> off]>>, role |-> role]

Dims == 0 .. Side
\* Spans of one dimension that fit in 0 .. n, and one that does not.
Spans(n) == {<<o, d>> \in Dims \X Dims : o + d <= n} \cup {<<n, 1>>}

MCMembers ==
  UNION {{Box(p, <<a[1], b[1]>>, <<a[2], b[2]>>, "None", "f32", FALSE) :
             a \in Spans(p[1]), b \in Spans(p[2])} : p \in HeadShapes}
    \cup {Box(p, <<0, 0>>, <<d, p[2]>>, r, "f32", FALSE) :
            p \in HeadShapes, d \in {1, 2}, r \in {"Base", "Correction"}}
    \cup {Box(p, <<0, 0>>, <<1, 1>>, "None", "i4", q) : p \in HeadShapes, q \in BOOLEAN}
    \cup {[Box(<<1, 1>>, <<0, 0>>, <<1, 1>>, "None", "f32", FALSE) EXCEPT !.shard = <<>>]}

MCHeadShapes == {<<2, 2>>, <<2, 1>>}
WideHeadShapes == {<<3, 3>>}
=============================================================================
