---------------------------- MODULE MCFfiStream ----------------------------
(* Arrays a C program may pass: trees of several shapes, and arrays that are not trees. *)
EXTENDS FfiStream, MCData

N(kind, id, slices, count) ==
  [kind |-> kind, id |-> id, slices |-> slices, count |-> count, null |-> "None"]
NT(id, slices) == N("Tensor", id, slices, 0)
NC(id, count)  == N("Composite", id, <<>>, count)

NestedArray  == <<NC("grp2", 2), NC("grp1", 1), NT("a", <<1>>), NT("e", <<0>>)>>
OverlapArray == <<NC("par2", 2), NT("p1", <<1>>), NT("p1", <<1>>)>>
ShortArray   == <<NC("grp2", 2), NT("e", <<0>>)>>
LongArray    == <<NC("grp1", 1), NT("a", <<1>>), NT("e", <<0>>)>>
NullArray    == <<NC("grp1", 1), [NT("a", <<1>>) EXCEPT !.null = "Payload"]>>
TensorArray  == <<NT("a", <<1>>)>>

MCArrays  == {NestedArray, OverlapArray, ShortArray, LongArray,
              NullArray, TensorArray}
MCTensors == {NT("b", <<0, 2>>), NT("a", <<2>>), [NT("a", <<1>>) EXCEPT !.null = "Descriptor"]}

\* Every node below an array, and every tensor.
MCNodes ==
  UNION {SubNodes(t) : t \in {C("grp2", <<Wrapped, ItemE>>), Overlap, C("grp2", <<ItemE>>), Wrapped}}
    \cup {T(t.id, t.slices) : t \in MCTensors}
=============================================================================
