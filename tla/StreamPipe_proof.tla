--------------------------- MODULE StreamPipe_proof ---------------------------
(***************************************************************************)
(* A stream implements the item channel, for any items within the reader's *)
(* limits, any cutting of writes and reads and any interleaving: proof.    *)
(***************************************************************************)
EXTENDS StreamPipe, TLAPS

WP == INSTANCE StreamWrite_proof
RP == INSTANCE StreamRead_proof WITH wire <- Bytes, eof <- closed, Wires <- {}

-----------------------------------------------------------------------------
(***************************************************************************)
(* The modules at the two ends speak of the same things.                   *)
(***************************************************************************)

\* What the lemmas of the two proofs assume holds here.
LEMMA Instance ==
  /\ U64Max \in Nat /\ PrefixLen \in Nat \ {0}
  /\ MinDescriptorLen \in Nat /\ MinDescriptorLen > PrefixLen /\ CrossMachine \in BOOLEAN
  /\ \A id \in DOMAIN Desc :
       /\ Desc[id].len \in Nat
       /\ Desc[id].bufs \in Seq([size : Nat, synced : BOOLEAN, allocatable : BOOLEAN])
       /\ Desc[id].count \in Nat
  /\ \A n \in Nodes : /\ n.id \in WP!Ids /\ n.kind \in {"Tensor", "Composite"}
                      /\ n.slices \in Seq(Nat) /\ n.members \in Seq(Nodes)
  /\ \A S \in SUBSET Nodes :
       S # {} => \E n \in S : \A i \in DOMAIN n.members : n.members[i] \notin S
  /\ Items \subseteq Nodes /\ MaxItems \in Nat
  /\ MaxDescriptorBytes \in Nat /\ MaxBufferBytes \in Nat /\ MaxDepth \in Nat
  /\ \A id \in WP!Ids : Desc[id].len > 0
  /\ \A w \in {} : w \in Seq(RP!Byte)
BY ZenonT(30), U64MaxAssumption, PrefixLenAssumption, MinDescriptorLenAssumption, CrossMachineAssumption,
   DescAssumption, PipeNodesAssumption, PipeNodesAreTrees, PipeBoundsAssumption,
   PipeLengthAssumption
   DEF Ids, WP!Ids

LEMMA SameBytes ==
  /\ WP!Byte = Byte /\ RP!Byte = Byte /\ WP!Ids = Ids /\ RP!Ids = Ids
  /\ \A id : WP!encode(id) = encode(id) /\ RP!encode(id) = encode(id)
  /\ \A n : WP!payloads_of(n) = payloads_of(n)
  /\ \A s : RP!Joined(s) = WP!Joined(s)
BY DEF Byte, WP!Byte, RP!Byte, Ids, WP!Ids, RP!Ids, encode, WP!encode, RP!encode,
       payloads_of, WP!payloads_of, Payload, WP!Payload, WP!Joined, RP!Joined

\* A set of natural numbers that is not empty has a least element.
LEMMA Least ==
  ASSUME NEW T, T \subseteq Nat, T # {}
  PROVE  \E x \in T : \A y \in T : x <= y
BY Instance, WP!Least

\* The rules of a composite, at the two ends.
LEMMA SameRules ==
  /\ \A v, d : /\ A!MemberAccepted(v, d) = MemberAccepted(v, d)
               /\ A!push_member(v, d) = push_member(v, d)
  /\ \A v : A!FinishAccepted(v) = FinishAccepted(v)
  /\ \A d : A!HeadAccepted(d) = HeadAccepted(d) /\ A!NewValidator(d) = NewValidator(d)
  /\ \A id : A!IsHead(id) = IsHead(id)
  /\ A!Ids = Ids
BY DEF A!SatAdd, A!DYNAMIC, A!has_dynamic, A!HeadAccepted, A!NewValidator, A!validate_against_shape,
       A!shard_box, A!check_member_type, A!check_overlay_member_role, A!reject_composite_member_flag,
       A!MemberAccepted, A!push_member, A!CheckedAdd, A!CheckedMul, A!Overflow, A!Volume, A!Covered,
       A!boxes_overlap, A!validate_partition_coverage, A!FinishAccepted, A!IsHead, A!Ids,
       SatAdd, DYNAMIC, has_dynamic, HeadAccepted, NewValidator, validate_against_shape, shard_box,
       check_member_type, check_overlay_member_role, reject_composite_member_flag, MemberAccepted,
       push_member, CheckedAdd, CheckedMul, Overflow, Volume, Covered, boxes_overlap,
       validate_partition_coverage, FinishAccepted, IsHead, Ids

LEMMA SameLevels ==
  \A h, ms : W!LevelAccepted(h, ms) = LevelAccepted(h, ms) /\ WP!LevelAccepted(h, ms) = LevelAccepted(h, ms)
<1>1. \A h, ms : W!LevelAccepted(h, ms) = LevelAccepted(h, ms)
  BY DEF W!SatAdd, W!DYNAMIC, W!has_dynamic, W!HeadAccepted, W!NewValidator,
         W!validate_against_shape, W!shard_box, W!check_member_type,
         W!check_overlay_member_role, W!reject_composite_member_flag, W!MemberAccepted,
         W!push_member, W!CheckedAdd, W!CheckedMul, W!Overflow, W!Volume, W!Covered,
         W!boxes_overlap, W!validate_partition_coverage, W!FinishAccepted,
         W!LevelAccepted,
         SatAdd, DYNAMIC, has_dynamic, HeadAccepted, NewValidator, validate_against_shape, shard_box,
         check_member_type, check_overlay_member_role, reject_composite_member_flag, MemberAccepted,
         push_member, CheckedAdd, CheckedMul, Overflow, Volume, Covered, boxes_overlap,
         validate_partition_coverage, FinishAccepted, LevelAccepted
<1>2. \A h, ms : WP!LevelAccepted(h, ms) = LevelAccepted(h, ms)
  BY DEF WP!SatAdd, WP!DYNAMIC, WP!has_dynamic, WP!HeadAccepted, WP!NewValidator,
         WP!validate_against_shape, WP!shard_box, WP!check_member_type,
         WP!check_overlay_member_role, WP!reject_composite_member_flag,
         WP!MemberAccepted, WP!push_member, WP!CheckedAdd, WP!CheckedMul, WP!Overflow,
         WP!Volume, WP!Covered, WP!boxes_overlap, WP!validate_partition_coverage,
         WP!FinishAccepted, WP!LevelAccepted,
         SatAdd, DYNAMIC, has_dynamic, HeadAccepted, NewValidator, validate_against_shape, shard_box,
         check_member_type, check_overlay_member_role, reject_composite_member_flag, MemberAccepted,
         push_member, CheckedAdd, CheckedMul, Overflow, Volume, Covered, boxes_overlap,
         validate_partition_coverage, FinishAccepted, LevelAccepted
<1> QED
  BY <1>1, <1>2

\* The steps of the writer.
LEMMA WriterSteps ==
  /\ W!Init => WP!Init
  /\ W!Next => WP!Next
<1>1. W!Valid = WP!Valid
  BY ZenonT(30), SameLevels DEF W!Valid, WP!Valid, W!validate_tensor, WP!validate_tensor
<1> QED
  BY ZenonT(30), <1>1
     DEF W!Init, WP!Init, W!NoOp, WP!NoOp, W!Next, W!tensor, W!composite, W!BeginOp, W!Encodable,
         W!encode, W!payloads_of, W!Payload, W!retired, W!step, W!StepPayload, W!StepNode, W!StepDone,
         W!SliceExhausted, W!Offering, W!remaining, W!CurrentSlice, W!LaterPayloads, W!OpenFrames,
         W!Advance, W!TakeMember, W!Taken, W!output_src, W!report_written, W!OverReport,
         W!MarkUnusable, W!report_sink_closed, W!Drop,
         WP!Next, WP!tensor, WP!composite, WP!BeginOp, WP!Encodable,
         WP!encode, WP!payloads_of, WP!Payload, WP!retired, WP!step, WP!StepPayload, WP!StepNode,
         WP!StepDone, WP!SliceExhausted, WP!Offering, WP!remaining, WP!CurrentSlice,
         WP!LaterPayloads, WP!OpenFrames, WP!Advance, WP!TakeMember, WP!Taken, WP!output_src,
         WP!report_written, WP!OverReport, WP!MarkUnusable, WP!report_sink_closed, WP!Drop

\* The steps of the reader.
LEMMA ReaderSteps ==
  /\ R!ReadInit => RP!ReadInit
  /\ R!StepPrefix => RP!StepPrefix
  /\ R!StepDescriptor => RP!StepDescriptor
  /\ R!StepBuffer => RP!StepBuffer
  /\ R!unfilled = RP!unfilled
  /\ \A n : R!report_filled(n) => RP!report_filled(n)
  /\ R!ReportEof => RP!ReportEof
  /\ \A m : (R!OverReport(m) => RP!OverReport(m)) /\ (R!MarkUnusable(m) => RP!MarkUnusable(m))
  /\ R!take_tensor => RP!take_tensor
BY ZenonT(30) DEF R!ReadInit, R!StepPrefix, R!StepDescriptor, R!StepBuffer, R!Filling, R!unfilled, R!Aligned,
       R!descriptor_length, R!Refused, R!Stops, R!PassedTo, R!BeginBuffers, R!Decodable, R!IsHead,
       R!Encodable, R!validate_against_shape, R!SatAdd, R!report_filled, R!ReportEof, R!OverReport,
       R!MarkUnusable, R!take_tensor,
       RP!ReadInit, RP!StepPrefix, RP!StepDescriptor, RP!StepBuffer, RP!Filling, RP!unfilled,
       RP!Aligned, RP!descriptor_length, RP!Refused, RP!Stops, RP!PassedTo, RP!BeginBuffers,
       RP!Decodable, RP!IsHead, RP!Encodable, RP!validate_against_shape, RP!SatAdd,
       RP!report_filled, RP!ReportEof, RP!OverReport, RP!MarkUnusable, RP!take_tensor

-----------------------------------------------------------------------------
(***************************************************************************)
(* Nodes are trees: the items they come back as, and the answers of the    *)
(* writer's validation, are recursive functions that exist.                *)
(***************************************************************************)

\* The descriptors of the members of n.
MemberDescs(n) == [i \in DOMAIN n.members |-> Desc[n.members[i].id]]

\* The writer's answer for n when `below` is that for its members.
Answer(n, below) ==
  IF n.kind = "Tensor" THEN WP!validate_tensor(n)
  ELSE LevelAccepted(Desc[n.id], MemberDescs(n)) /\ below

\* The item and the answer for n when f gives those of its members.
Both(f, n) ==
  [item  |-> [kind    |-> n.kind, id |-> n.id,
              buffers |-> IF n.kind = "Tensor" THEN payloads_of(n) ELSE <<>>,
              members |-> [i \in DOMAIN n.members |-> f[n.members[i]].item]],
   valid |-> Answer(n, \A i \in DOMAIN n.members : f[n.members[i]].valid)]

\* f gives those of the nodes in D, which has the members of its nodes.
Closed(D) == \A n \in D : \A i \in DOMAIN n.members : n.members[i] \in D
Unfolding(f, D) == D \subseteq Nodes /\ Closed(D) /\ f = [n \in D |-> Both(f, n)]

\* f and g agree on the members of n.
Alike(f, g, n) == \A i \in DOMAIN n.members : f[n.members[i]] = g[n.members[i]]

\* Both depend on those of the members only.
LEMMA BothAgree == ASSUME NEW f, NEW g, NEW n, Alike(f, g, n) PROVE Both(f, n) = Both(g, n)
<1>1. [i \in DOMAIN n.members |-> f[n.members[i]]] = [i \in DOMAIN n.members |-> g[n.members[i]]]
  BY DEF Alike
<1> QED
  BY <1>1 DEF Both

\* A node has one item and one answer.
LEMMA UnfoldingUnique ==
  ASSUME NEW f, NEW D, Unfolding(f, D), NEW g, NEW E, Unfolding(g, E)
  PROVE  \A n \in D \cap E : f[n] = g[n]
<1> DEFINE S == {n \in D \cap E : f[n] # g[n]}
<1> SUFFICES ASSUME S # {} PROVE FALSE
  OBVIOUS
<1>1. S \in SUBSET Nodes
  BY DEF Unfolding
<1>2. PICK n \in S : \A i \in DOMAIN n.members : n.members[i] \notin S
  BY <1>1, PipeNodesAreTrees
<1>3. n \in D /\ n \in E /\ f[n] # g[n]
  OBVIOUS
<1>4. \A i \in DOMAIN n.members : n.members[i] \in D /\ n.members[i] \in E
  BY <1>3 DEF Unfolding, Closed
<1>5. Alike(f, g, n)
  BY <1>2, <1>4 DEF Alike
<1> HIDE DEF S
<1>6. f[n] = Both(f, n) /\ g[n] = Both(g, n)
  BY <1>3 DEF Unfolding
<1> QED
  BY <1>3, <1>5, <1>6, BothAgree

\* Every node has them.
LEMMA UnfoldingExists == \E f : Unfolding(f, Nodes)
<1> DEFINE Has(n) == \E f, D : Unfolding(f, D) /\ n \in D
           All == {n \in Nodes : Has(n)}
           pick(n) == CHOOSE f : \E D : Unfolding(f, D) /\ n \in D
           e == [n \in All |-> pick(n)[n]]
<1>1. ASSUME NEW f, NEW D, Unfolding(f, D), NEW n \in D PROVE n \in All /\ e[n] = f[n]
  <2>1. n \in All
    BY <1>1 DEF Unfolding
  <2>2. PICK E : Unfolding(pick(n), E) /\ n \in E
    BY <1>1
  <2> HIDE DEF pick
  <2>3. pick(n)[n] = f[n]
    BY <1>1, <2>2, UnfoldingUnique
  <2> QED
    BY <2>1, <2>3
<1>2. ASSUME NEW n \in All PROVE e[n] = Both(e, n) /\ \A i \in DOMAIN n.members : n.members[i] \in All
  <2>1. PICK f, D : Unfolding(f, D) /\ n \in D
    OBVIOUS
  <2> HIDE DEF e, All
  <2>2. \A i \in DOMAIN n.members : n.members[i] \in D
    BY <2>1 DEF Unfolding, Closed
  <2>3. \A i \in DOMAIN n.members : n.members[i] \in All /\ e[n.members[i]] = f[n.members[i]]
    BY <1>1, <2>1, <2>2
  <2>4. e[n] = f[n] /\ f[n] = Both(f, n)
    BY <1>1, <2>1 DEF Unfolding
  <2>5. Both(e, n) = Both(f, n)
    BY <2>3, BothAgree DEF Alike
  <2> QED
    BY <2>3, <2>4, <2>5
<1>3. Unfolding(e, All)
  <2>1. All \subseteq Nodes /\ Closed(All)
    BY <1>2 DEF Closed
  <2>2. e = [n \in All |-> e[n]]
    OBVIOUS
  <2> HIDE DEF e, All
  <2>3. e = [n \in All |-> Both(e, n)]
    BY <1>2, <2>2
  <2> QED
    BY <2>1, <2>3 DEF Unfolding
<1>4. ASSUME Nodes \ All # {} PROVE FALSE
  <2>1. Nodes \ All \in SUBSET Nodes
    OBVIOUS
  <2>2. PICK n \in Nodes \ All : \A i \in DOMAIN n.members : n.members[i] \notin Nodes \ All
    BY <1>4, <2>1, PipeNodesAreTrees
  <2>3. \A i \in DOMAIN n.members : n.members[i] \in All
    <3>1. n.members \in Seq(Nodes)
      BY PipeNodesAssumption
    <3>2. \A i \in DOMAIN n.members : n.members[i] \in Nodes
      BY <3>1
    <3> QED
      BY <2>2, <3>2
  <2> DEFINE D == All \cup {n}
             g == [m \in D |-> IF m = n THEN Both(e, n) ELSE e[m]]
  <2>4. n \notin All /\ \A m \in All : g[m] = e[m]
    OBVIOUS
  <2>5. g[n] = Both(e, n) /\ n \in D /\ n \in Nodes
    OBVIOUS
  <2>6. D \subseteq Nodes /\ Closed(D)
    BY <1>3, <2>3 DEF Closed, Unfolding
  <2> HIDE DEF e, Has
  <2>7. ASSUME NEW m \in D PROVE g[m] = Both(g, m)
    <3>1. \A i \in DOMAIN m.members : m.members[i] \in All
      BY <1>2, <2>3
    <3>2. Alike(g, e, m)
      BY <2>4, <3>1 DEF Alike
    <3>3. Both(g, m) = Both(e, m)
      BY <3>2, BothAgree
    <3>4. g[m] = Both(e, m)
      BY <1>2, <2>4, <2>5
    <3> QED
      BY <3>3, <3>4
  <2>8. g = [m \in D |-> g[m]]
    OBVIOUS
  <2> HIDE DEF g, D
  <2>9. Unfolding(g, D)
    BY <2>6, <2>7, <2>8 DEF Unfolding
  <2>10. Has(n)
    BY <2>5, <2>9 DEF Has
  <2> QED
    BY <2>4, <2>5, <2>10
<1>5. All = Nodes
  BY <1>4
<1> QED
  BY <1>3, <1>5

\* The definition of ItemOf holds.
ItemPiece(f, n) ==
  [kind    |-> n.kind, id |-> n.id,
   buffers |-> IF n.kind = "Tensor" THEN payloads_of(n) ELSE <<>>,
   members |-> [i \in DOMAIN n.members |-> f[n.members[i]]]]

LEMMA ItemUnfolds == \A n \in Nodes : ItemOf[n] = ItemPiece(ItemOf, n)
<1>1. PICK f : Unfolding(f, Nodes)
  BY UnfoldingExists
<1> DEFINE g == [n \in Nodes |-> f[n].item]
           c == CHOOSE item : item = [n \in Nodes |-> ItemPiece(item, n)]
<1>2. ASSUME NEW n \in Nodes PROVE f[n].item = ItemPiece(g, n)
  <2>1. f[n] = Both(f, n)
    BY <1>1 DEF Unfolding
  <2>2. \A i \in DOMAIN n.members : n.members[i] \in Nodes
    BY <1>1 DEF Unfolding, Closed
  <2>3. [i \in DOMAIN n.members |-> f[n.members[i]].item] = [i \in DOMAIN n.members |-> g[n.members[i]]]
    BY <2>2
  <2> HIDE DEF g
  <2> QED
    BY <2>1, <2>3 DEF Both, ItemPiece
<1>3. g = [n \in Nodes |-> ItemPiece(g, n)]
  BY <1>2
<1>4. c = [n \in Nodes |-> ItemPiece(c, n)]
  <2> HIDE DEF g
  <2> QED
    BY <1>3
<1>5. ItemOf = c
  BY DEF ItemOf, ItemPiece
<1> HIDE DEF c
<1> QED
  BY <1>4, <1>5

\* The definition of Valid holds.
ValidPiece(f, n) == Answer(n, \A i \in DOMAIN n.members : f[n.members[i]])

LEMMA ValidUnfolds == \A n \in Nodes : WP!Valid[n] = ValidPiece(WP!Valid, n)
<1>1. PICK f : Unfolding(f, Nodes)
  BY UnfoldingExists
<1> DEFINE g == [n \in Nodes |-> f[n].valid]
           c == CHOOSE valid : valid = [n \in Nodes |-> ValidPiece(valid, n)]
<1>2. ASSUME NEW n \in Nodes PROVE f[n].valid = ValidPiece(g, n)
  <2>1. f[n] = Both(f, n)
    BY <1>1 DEF Unfolding
  <2>2. \A i \in DOMAIN n.members : n.members[i] \in Nodes
    BY <1>1 DEF Unfolding, Closed
  <2>3. \A i \in DOMAIN n.members : f[n.members[i]].valid = g[n.members[i]]
    BY <2>2
  <2> HIDE DEF g
  <2>4. (\A i \in DOMAIN n.members : f[n.members[i]].valid) = (\A i \in DOMAIN n.members : g[n.members[i]])
    BY <2>3
  <2>5. f[n].valid = Answer(n, \A i \in DOMAIN n.members : f[n.members[i]].valid)
    BY <2>1 DEF Both
  <2>6. Answer(n, \A i \in DOMAIN n.members : f[n.members[i]].valid)
          = Answer(n, \A i \in DOMAIN n.members : g[n.members[i]])
    BY <2>4
  <2> QED
    BY <2>5, <2>6 DEF ValidPiece
<1>3. g = [n \in Nodes |-> ValidPiece(g, n)]
  BY <1>2
<1>4. c = [n \in Nodes |-> ValidPiece(c, n)]
  <2> HIDE DEF g
  <2> QED
    BY <1>3
<1>5. WP!Valid = c
  BY SameLevels DEF WP!Valid, ValidPiece, Answer, MemberDescs
<1> HIDE DEF c
<1> QED
  BY <1>4, <1>5

\* The validator of a head after the first i of its members.
Seen(head, ds, i) ==
  [rule |-> head.rule, declared |-> head.count, shape |-> head.shape, etype |-> head.etype,
   seen |-> i,
   boxes |-> IF head.rule = "Partition"
             THEN [k \in 1 .. i |-> [offset |-> ds[k].shard[1].offset, shape |-> ds[k].shape]]
             ELSE <<>>]

LEMMA SeenSteps ==
  ASSUME NEW head, NEW ds
  PROVE  /\ Seen(head, ds, 0) = NewValidator(head)
         /\ \A i \in Nat : push_member(Seen(head, ds, i), ds[i + 1]) = Seen(head, ds, i + 1)
<1>1. Seen(head, ds, 0) = NewValidator(head)
  BY DEF Seen, NewValidator
<1>2. ASSUME NEW i \in Nat PROVE push_member(Seen(head, ds, i), ds[i + 1]) = Seen(head, ds, i + 1)
  <2> DEFINE b(k) == [offset |-> ds[k].shard[1].offset, shape |-> ds[k].shape]
  <2>1. Append([k \in 1 .. i |-> b(k)], b(i + 1)) = [k \in 1 .. i + 1 |-> b(k)]
    <3> HIDE DEF b
    <3> QED
      OBVIOUS
  <2> QED
    BY <2>1 DEF Seen, push_member
<1> QED
  BY <1>1, <1>2

\* A level that the writer accepted: each check of it, one by one.
LEMMA LevelUnfolds ==
  ASSUME NEW head, NEW ds, NEW n \in Nat, DOMAIN ds = 1 .. n, Len(ds) = n, LevelAccepted(head, ds)
  PROVE  /\ HeadAccepted(head) /\ head.count = n
         /\ \A i \in 1 .. n : MemberAccepted(Seen(head, ds, i - 1), ds[i])
         /\ FinishAccepted(Seen(head, ds, n))
<1> DEFINE c == CHOOSE v : v = [i \in 0 .. n |-> IF i = 0 THEN NewValidator(head)
                                                ELSE push_member(v[i - 1], ds[i])]
           f == [i \in 0 .. n |-> Seen(head, ds, i)]
<1>1. f = [i \in 0 .. n |-> IF i = 0 THEN NewValidator(head) ELSE push_member(f[i - 1], ds[i])]
  <2>1. ASSUME NEW i \in 0 .. n
        PROVE  f[i] = IF i = 0 THEN NewValidator(head) ELSE push_member(f[i - 1], ds[i])
    <3>1. CASE i = 0
      BY <3>1, SeenSteps
    <3>2. CASE i # 0
      <4>1. i - 1 \in Nat /\ i - 1 \in 0 .. n /\ (i - 1) + 1 = i
        BY <3>2
      <4>2. push_member(Seen(head, ds, i - 1), ds[i]) = Seen(head, ds, i)
        BY <4>1, SeenSteps
      <4> QED
        BY <3>2, <4>1, <4>2
    <3> QED
      BY <3>1, <3>2
  <2>2. f = [i \in 0 .. n |-> f[i]]
    OBVIOUS
  <2> HIDE DEF f
  <2> QED
    BY <2>1, <2>2
<1>2. c = [i \in 0 .. n |-> IF i = 0 THEN NewValidator(head) ELSE push_member(c[i - 1], ds[i])]
  <2> HIDE DEF f
  <2> QED
    BY <1>1
<1>3. /\ HeadAccepted(head) /\ \A i \in 1 .. n : MemberAccepted(c[i - 1], ds[i])
      /\ FinishAccepted(c[n])
  BY DEF LevelAccepted
<1> HIDE DEF c
<1>4. \A i \in 0 .. n : c[i] = Seen(head, ds, i)
  <2> DEFINE T == {i \in 0 .. n : c[i] # Seen(head, ds, i)}
  <2> SUFFICES ASSUME T # {} PROVE FALSE
    OBVIOUS
  <2>1. PICK i \in T : \A j \in T : i <= j
    <3>1. T \subseteq Nat
      OBVIOUS
    <3> QED
      BY <3>1, Least
  <2>2. CASE i = 0
    <3>1. c[0] = NewValidator(head)
      BY <1>2
    <3> QED
      BY <2>2, <3>1, SeenSteps
  <2>3. CASE i # 0
    <3>1. i - 1 \in Nat /\ i - 1 \in 0 .. n /\ (i - 1) + 1 = i /\ i - 1 \notin T
      BY <2>1, <2>3
    <3>2. c[i - 1] = Seen(head, ds, i - 1)
      BY <3>1
    <3>3. c[i] = push_member(c[i - 1], ds[i])
      BY <1>2, <2>3, <3>1
    <3>4. push_member(Seen(head, ds, i - 1), ds[i]) = Seen(head, ds, i)
      <4>1. push_member(Seen(head, ds, i - 1), ds[(i - 1) + 1]) = Seen(head, ds, (i - 1) + 1)
        BY <3>1, SeenSteps
      <4> QED
        BY <3>1, <4>1
    <3> QED
      BY <3>2, <3>3, <3>4
  <2> QED
    BY <2>2, <2>3
<1>5. \A i \in 1 .. n : MemberAccepted(Seen(head, ds, i - 1), ds[i])
  <2> SUFFICES ASSUME NEW i \in 1 .. n PROVE MemberAccepted(Seen(head, ds, i - 1), ds[i])
    OBVIOUS
  <2>1. i - 1 \in 0 .. n /\ MemberAccepted(c[i - 1], ds[i])
    BY <1>3
  <2>2. c[i - 1] = Seen(head, ds, i - 1)
    BY <1>4, <2>1
  <2> QED
    BY <2>1, <2>2
<1>6. FinishAccepted(Seen(head, ds, n))
  BY <1>3, <1>4
<1>7. head.count = n
  BY <1>6 DEF FinishAccepted, Seen
<1> QED
  BY <1>3, <1>5, <1>6, <1>7

-----------------------------------------------------------------------------
(***************************************************************************)
(* Where a sequence of bytes lies in another one, and the images of nodes. *)
(***************************************************************************)

\* F has s after its first a bytes, up to its b-th.
Seg(F, a, b, s) == a \in Nat /\ b = a + Len(s) /\ b <= Len(F) /\ \A k \in 1 .. Len(s) : F[a + k] = s[k]

\* A segment in two parts.
LEMMA SegSplit ==
  ASSUME NEW F, NEW a, NEW b, NEW s \in Seq(Byte), NEW t \in Seq(Byte), Len(F) \in Nat,
         Seg(F, a, b, s \o t)
  PROVE  /\ Seg(F, a, a + Len(s), s) /\ Seg(F, a + Len(s), b, t)
         /\ Len(s) \in Nat /\ Len(t) \in Nat /\ a \in Nat /\ b \in Nat
<1>1. /\ Len(s) \in Nat /\ Len(t) \in Nat /\ Len(s \o t) = Len(s) + Len(t)
      /\ \A k \in 1 .. Len(s) : (s \o t)[k] = s[k]
      /\ \A k \in 1 .. Len(t) : (s \o t)[Len(s) + k] = t[k]
  OBVIOUS
<1>2. a \in Nat /\ b = a + (Len(s) + Len(t)) /\ b <= Len(F)
  BY <1>1 DEF Seg
<1>3. \A k \in 1 .. Len(s) + Len(t) : F[a + k] = (s \o t)[k]
  BY <1>1 DEF Seg
<1>4. \A k \in 1 .. Len(s) : F[a + k] = s[k]
  <2> SUFFICES ASSUME NEW k \in 1 .. Len(s) PROVE F[a + k] = s[k]
    OBVIOUS
  <2>1. k \in 1 .. Len(s) + Len(t)
    BY <1>1
  <2> QED
    BY <1>1, <1>3, <2>1
<1>5. \A k \in 1 .. Len(t) : F[(a + Len(s)) + k] = t[k]
  <2> SUFFICES ASSUME NEW k \in 1 .. Len(t) PROVE F[(a + Len(s)) + k] = t[k]
    OBVIOUS
  <2>1. Len(s) + k \in 1 .. Len(s) + Len(t) /\ (a + Len(s)) + k = a + (Len(s) + k)
    BY <1>1, <1>2
  <2> QED
    BY <1>1, <1>3, <2>1
<1>6. /\ a + Len(s) \in Nat /\ a + Len(s) <= Len(F)
      /\ b = (a + Len(s)) + Len(t) /\ b \in Nat
  BY ONLY <1>1, <1>2, Len(F) \in Nat
<1>7. Seg(F, a, a + Len(s), s)
  BY ONLY <1>2, <1>4, <1>6 DEF Seg
<1>8. Seg(F, a + Len(s), b, t)
  BY ONLY <1>2, <1>5, <1>6 DEF Seg
<1> QED
  BY ONLY <1>1, <1>2, <1>6, <1>7, <1>8

\* A segment stays where it is when the sequence grows,
LEMMA SegGrows ==
  ASSUME NEW F, NEW G, NEW a, NEW b, NEW s, Len(F) \in Nat, Len(G) \in Nat, Len(s) \in Nat,
         Len(F) <= Len(G), \A k \in 1 .. Len(F) : G[k] = F[k], Seg(F, a, b, s)
  PROVE  Seg(G, a, b, s)
<1>1. ASSUME NEW k \in 1 .. Len(s) PROVE G[a + k] = s[k]
  <2>1. a \in Nat /\ a + k \in 1 .. Len(F) /\ F[a + k] = s[k]
    BY DEF Seg
  <2> QED
    BY <2>1
<1> QED
  BY <1>1 DEF Seg

\* and the last one grows with it.
LEMMA SegJoin ==
  ASSUME NEW F \in Seq(Byte), NEW t \in Seq(Byte), NEW s \in Seq(Byte), NEW a, Seg(F, a, Len(F), s)
  PROVE  Seg(F \o t, a, Len(F \o t), s \o t)
<1>1. /\ Len(s) \in Nat /\ Len(t) \in Nat /\ Len(s \o t) = Len(s) + Len(t)
      /\ \A k \in 1 .. Len(s) : (s \o t)[k] = s[k]
      /\ \A k \in 1 .. Len(t) : (s \o t)[Len(s) + k] = t[k]
  OBVIOUS
<1>2. /\ Len(F) \in Nat /\ Len(F \o t) = Len(F) + Len(t)
      /\ \A k \in 1 .. Len(F) : (F \o t)[k] = F[k]
      /\ \A k \in 1 .. Len(t) : (F \o t)[Len(F) + k] = t[k]
  OBVIOUS
<1>3. a \in Nat /\ Len(F) = a + Len(s) /\ \A k \in 1 .. Len(s) : F[a + k] = s[k]
  BY DEF Seg
<1>4. ASSUME NEW k \in 1 .. Len(s) + Len(t) PROVE (F \o t)[a + k] = (s \o t)[k]
  <2>1. CASE k <= Len(s)
    <3>1. k \in 1 .. Len(s) /\ a + k \in 1 .. Len(F)
      BY <1>1, <1>2, <1>3, <2>1
    <3> QED
      BY <1>1, <1>2, <1>3, <3>1
  <2>2. CASE k > Len(s)
    <3>1. PICK j \in 1 .. Len(t) : k = Len(s) + j
      <4>1. k - Len(s) \in 1 .. Len(t) /\ k = Len(s) + (k - Len(s))
        BY <1>1, <2>2
      <4> QED
        BY <4>1
    <3>2. a + k = Len(F) + j
      BY <1>1, <1>3, <3>1
    <3> QED
      BY <1>1, <1>2, <3>1, <3>2
  <2>3. k <= Len(s) \/ k > Len(s)
    BY <1>1
  <2> QED
    BY <2>1, <2>2, <2>3
<1> QED
  BY <1>1, <1>2, <1>3, <1>4 DEF Seg

\* What the images of the nodes of ms are from the i-th on.
Rest(ms, i) == WP!Suffix(WP!ImagesOf(ms), i)

\* The image of a node is a descriptor, then payloads or the images of the members.
LEMMA ImageCases ==
  ASSUME NEW n \in Nodes
  PROVE  /\ WP!Encoded[n] \in Seq(Byte) /\ Len(WP!Encoded[n]) > 0
         /\ encode(n.id) \in Seq(Byte) /\ Len(encode(n.id)) = Desc[n.id].len
         /\ payloads_of(n) \in Seq(Seq(Byte)) /\ WP!Joined(payloads_of(n)) \in Seq(Byte)
         /\ n.kind = "Tensor" => WP!Encoded[n] = encode(n.id) \o WP!Joined(payloads_of(n))
         /\ n.kind # "Tensor" => WP!Encoded[n] = encode(n.id) \o Rest(n.members, 1)
<1>1. n.id \in Ids /\ n.members \in Seq(Nodes) /\ Desc[n.id].len \in Nat
  BY PipeNodesAssumption, DescAssumption DEF Ids
<1>2. WP!Encoded[n] \in Seq(Byte) /\ Len(WP!Encoded[n]) > 0
  BY Instance, SameBytes, WP!ImageNotEmpty
<1>3. encode(n.id) \in Seq(Byte)
  BY <1>1, Instance, SameBytes, WP!EncodeType
<1>4. Len(encode(n.id)) = Desc[n.id].len
  BY <1>1 DEF encode
<1>5. payloads_of(n) \in Seq(Seq(Byte))
  BY Instance, SameBytes, WP!PayloadsType
<1>6. WP!Joined(payloads_of(n)) \in Seq(Byte)
  BY <1>5, Instance, WP!JoinedType
<1>7. n.kind = "Tensor" => WP!Encoded[n] = encode(n.id) \o WP!Joined(payloads_of(n))
  BY Instance, SameBytes, WP!EncodedUnfolds
<1>8. n.kind # "Tensor" => WP!Encoded[n] = encode(n.id) \o WP!Joined(WP!ImagesOf(n.members))
  BY Instance, SameBytes, WP!EncodedUnfolds DEF WP!ImagesOf
<1>9. WP!Joined(WP!ImagesOf(n.members)) = Rest(n.members, 1)
  <2>1. WP!ImagesOf(n.members) \in Seq(Seq(Byte)) /\ Len(WP!ImagesOf(n.members)) \in Nat
    BY <1>1, Instance, SameBytes, WP!ImagesOfType
  <2>2. 1 \in 1 .. Len(WP!ImagesOf(n.members)) + 1
    BY <2>1
  <2> QED
    BY <2>1, <2>2, Instance, WP!SuffixType DEF Rest
<1> QED
  BY <1>2, <1>3, <1>4, <1>5, <1>6, <1>7, <1>8, <1>9

\* The images of nodes, one by one from the front.
LEMMA RestCases ==
  ASSUME NEW ms \in Seq(Nodes), NEW i \in 1 .. Len(ms) + 1
  PROVE  /\ Rest(ms, i) \in Seq(Byte) /\ Len(ms) \in Nat
         /\ i = Len(ms) + 1 => Rest(ms, i) = <<>>
         /\ i <= Len(ms) => /\ ms[i] \in Nodes /\ WP!Encoded[ms[i]] \in Seq(Byte)
                            /\ Rest(ms, i + 1) \in Seq(Byte)
                            /\ Rest(ms, i) = WP!Encoded[ms[i]] \o Rest(ms, i + 1)
<1> DEFINE im == WP!ImagesOf(ms)
<1>1. im \in Seq(Seq(Byte)) /\ Len(im) = Len(ms) /\ Len(ms) \in Nat /\ \A k \in 1 .. Len(ms) : im[k] = WP!Encoded[ms[k]]
  BY Instance, SameBytes, WP!ImagesOfType
<1> HIDE DEF im
<1>2. \A j \in 1 .. Len(ms) + 1 : WP!Suffix(im, j) \in Seq(Byte)
  BY ZenonT(30), <1>1, Instance, WP!SuffixType
<1>3. i = Len(ms) + 1 => WP!Suffix(im, i) = <<>>
  <2>1. i = Len(ms) + 1 => i \in Nat /\ Len(im) \in Nat /\ i > Len(im)
    BY <1>1
  <2> QED
    BY <2>1, Instance, WP!SuffixEnd
<1>4. ASSUME i <= Len(ms)
      PROVE  /\ ms[i] \in Nodes /\ WP!Encoded[ms[i]] \in Seq(Byte)
             /\ WP!Suffix(im, i) = WP!Encoded[ms[i]] \o WP!Suffix(im, i + 1)
  <2>1. i \in 1 .. Len(im) /\ i \in 1 .. Len(ms)
    BY <1>1, <1>4
  <2>2. im[i] \in Seq(Byte) /\ WP!Suffix(im, i) = im[i] \o WP!Suffix(im, i + 1)
    BY <1>1, <2>1, Instance, WP!SuffixStep
  <2>3. im[i] = WP!Encoded[ms[i]] /\ ms[i] \in Nodes
    BY <1>1, <2>1
  <2> QED
    BY <2>2, <2>3
<1>5. i <= Len(ms) => i + 1 \in 1 .. Len(ms) + 1
  BY <1>1
<1> QED
  BY <1>1, <1>2, <1>3, <1>4, <1>5 DEF Rest, im

\* A sequence with one more element at the end.
LEMMA AppendElements ==
  ASSUME NEW S, NEW f \in Seq(S), NEW e \in S
  PROVE  /\ Append(f, e) \in Seq(S) /\ Len(Append(f, e)) = Len(f) + 1 /\ Len(f) \in Nat
         /\ Append(f, e) = [k \in 1 .. Len(f) + 1 |-> IF k = Len(f) + 1 THEN e ELSE f[k]]
<1>1. Append(f, e) \in Seq(S) /\ Len(Append(f, e)) = Len(f) + 1 /\ Len(f) \in Nat
  OBVIOUS
<1> DEFINE g == Append(f, e)
<1>4. \A h \in Seq(S) : h \in [1 .. Len(h) -> S]
  OBVIOUS
<1>2. g = [k \in 1 .. Len(f) + 1 |-> g[k]]
  <2>1. g \in [1 .. Len(f) + 1 -> S]
    BY <1>1, <1>4
  <2> HIDE DEF g
  <2> QED
    BY <2>1
<1>3. \A k \in 1 .. Len(f) + 1 : Append(f, e)[k] = IF k = Len(f) + 1 THEN e ELSE f[k]
  OBVIOUS
<1> HIDE DEF g
<1>5. g = [k \in 1 .. Len(f) + 1 |-> IF k = Len(f) + 1 THEN e ELSE f[k]]
  BY <1>2, <1>3 DEF g
<1> QED
  BY <1>1, <1>5 DEF g

\* The images of one more node come last.
LEMMA RestAppend ==
  ASSUME NEW ms \in Seq(Nodes), NEW n \in Nodes, NEW i \in 1 .. Len(ms) + 1
  PROVE  Rest(Append(ms, n), i) = Rest(ms, i) \o WP!Encoded[n]
<1> DEFINE im == WP!ImagesOf(ms)
           ms1 == Append(ms, n)
           jm == WP!ImagesOf(ms1)
           e == WP!Encoded[n]
           S == Seq(Byte)
<1>1. im \in Seq(S) /\ Len(im) = Len(ms) /\ Len(ms) \in Nat /\ e \in S
  BY Instance, SameBytes, WP!ImagesOfType, ImageCases
<1>0. /\ ms1 \in Seq(Nodes) /\ Len(ms1) = Len(ms) + 1
      /\ ms1 = [k \in 1 .. Len(ms) + 1 |-> IF k = Len(ms) + 1 THEN n ELSE ms[k]]
  BY AppendElements
<1> HIDE DEF ms1
<1>2. jm = Append(im, e)
  <2>1. jm \in Seq(S) /\ Len(jm) = Len(ms) + 1
    BY <1>0, Instance, SameBytes, WP!ImagesOfType
  <2>2. \A k \in 1 .. Len(ms) + 1 : jm[k] = Append(im, e)[k]
    <3>1. \A k \in 1 .. Len(ms) + 1 : jm[k] = WP!Encoded[ms1[k]]
      <4>1. \A k \in 1 .. Len(ms1) : jm[k] = WP!Encoded[ms1[k]]
        BY <1>0, Instance, SameBytes, WP!ImagesOfType
      <4> QED
        BY <1>0, <4>1
    <3>2. \A k \in 1 .. Len(ms) : im[k] = WP!Encoded[ms[k]]
      BY Instance, SameBytes, WP!ImagesOfType
    <3> HIDE DEF im, jm
    <3>3. \A k \in 1 .. Len(ms) : ms1[k] = ms[k] /\ Append(im, e)[k] = im[k]
      BY <1>0, <1>1
    <3>4. ms1[Len(ms) + 1] = n /\ Append(im, e)[Len(ms) + 1] = e
      BY <1>0, <1>1
    <3>5. ASSUME NEW k \in 1 .. Len(ms) + 1 PROVE jm[k] = Append(im, e)[k]
      <4>1. k \in 1 .. Len(ms) \/ k = Len(ms) + 1
        BY <1>1
      <4> QED
        BY <3>1, <3>2, <3>3, <3>4, <4>1
    <3> QED
      BY <3>5
  <2> HIDE DEF im, jm, S, e
  <2>3. Append(im, e) \in Seq(S) /\ Len(Append(im, e)) = Len(ms) + 1
    BY <1>1
  <2> QED
    BY <1>1, <2>1, <2>2, <2>3
<1> HIDE DEF im, jm, S, e
<1> DEFINE L == Len(ms) + 1 - i
           f == [k \in 1 .. Len(im) + 1 - i |-> im[i - 1 + k]]
           g == [k \in 1 .. Len(jm) + 1 - i |-> jm[i - 1 + k]]
<1>3. Len(jm) = Len(ms) + 1 /\ L \in Nat /\ i \in Nat
  BY <1>1, <1>2
<1>4. f \in Seq(S) /\ Len(f) = L
  <2>1. \A k \in 1 .. L : i - 1 + k \in 1 .. Len(im)
    BY <1>1, <1>3
  <2>2. \A k \in 1 .. L : im[i - 1 + k] \in S
    BY <1>1, <2>1
  <2>3. f = [k \in 1 .. L |-> im[i - 1 + k]]
    BY <1>1
  <2> HIDE DEF f, L
  <2> QED
    BY <1>3, <2>2, <2>3
<1>5. g = Append(f, e)
  <2>1. g = [k \in 1 .. L + 1 |-> jm[i - 1 + k]]
    BY <1>1, <1>3
  <2>2. Append(f, e) = [k \in 1 .. L + 1 |-> IF k = L + 1 THEN e ELSE f[k]]
    <3> HIDE DEF f, L
    <3>1. Append(f, e) = [k \in 1 .. Len(f) + 1 |-> IF k = Len(f) + 1 THEN e ELSE f[k]]
      BY <1>1, <1>4, AppendElements
    <3> QED
      BY <1>4, <3>1
  <2>3. ASSUME NEW k \in 1 .. L + 1 PROVE jm[i - 1 + k] = IF k = L + 1 THEN e ELSE f[k]
    <3>1. CASE k = L + 1
      <4>1. i - 1 + k = Len(im) + 1
        BY <1>1, <3>1
      <4> QED
        BY <1>1, <1>2, <3>1, <4>1
    <3>2. CASE k # L + 1
      <4>1. i - 1 + k \in 1 .. Len(im) /\ k \in 1 .. Len(im) + 1 - i
        BY <1>1, <1>3, <3>2
      <4>2. jm[i - 1 + k] = im[i - 1 + k]
        BY <1>1, <1>2, <4>1
      <4> QED
        BY <3>2, <4>1, <4>2
    <3> QED
      BY <3>1, <3>2
  <2> HIDE DEF f, g, L
  <2> QED
    BY <2>1, <2>2, <2>3
<1>6. WP!Suffix(im, i) = WP!Joined(f) /\ WP!Suffix(jm, i) = WP!Joined(g)
  BY DEF WP!Suffix
<1> HIDE DEF f, g
<1>7. WP!Joined(Append(f, e)) = WP!Joined(f) \o e
  BY <1>1, <1>4, Instance, WP!JoinedAppend DEF S
<1> QED
  BY <1>5, <1>6, <1>7 DEF Rest, im, jm, e, ms1

\* The image of the last node is part of what is left before it.
LEMMA RestHoldsLast ==
  ASSUME NEW ms \in Seq(Nodes), NEW i \in 1 .. Len(ms)
  PROVE  Len(Rest(ms, i)) >= Len(WP!Encoded[ms[Len(ms)]]) /\ Len(Rest(ms, i)) \in Nat
<1> DEFINE L == Len(ms)
           fr == SubSeq(ms, 1, L - 1)
<1>1. fr \in Seq(Nodes) /\ ms = Append(fr, ms[L]) /\ Len(fr) = L - 1 /\ L \in Nat /\ ms[L] \in Nodes
  <2>1. Len(ms) # 0
    OBVIOUS
  <2>2. /\ SubSeq(ms, 1, Len(ms) - 1) \in Seq(Nodes) /\ ms[Len(ms)] \in Nodes
        /\ ms = Append(SubSeq(ms, 1, Len(ms) - 1), ms[Len(ms)])
        /\ Len(SubSeq(ms, 1, Len(ms) - 1)) = Len(ms) - 1
    BY <2>1, Instance, WP!SplitLast
  <2> QED
    BY <2>2
<1> HIDE DEF fr, L
<1>2. i \in 1 .. Len(fr) + 1
  BY <1>1 DEF L
<1>3. Rest(ms, i) = Rest(fr, i) \o WP!Encoded[ms[L]]
  BY <1>1, <1>2, RestAppend
<1>4. Rest(fr, i) \in Seq(Byte) /\ WP!Encoded[ms[L]] \in Seq(Byte)
  BY <1>1, <1>2, RestCases, ImageCases
<1>5. Len(Rest(fr, i) \o WP!Encoded[ms[L]]) = Len(Rest(fr, i)) + Len(WP!Encoded[ms[L]])
      /\ Len(Rest(fr, i)) \in Nat /\ Len(WP!Encoded[ms[L]]) \in Nat
  BY <1>4
<1> QED
  BY <1>3, <1>5 DEF L
-----------------------------------------------------------------------------
(***************************************************************************)
(* What the writer put on the wire.                                        *)
(***************************************************************************)

\* f[i] are the items that have their first byte among the first i of w, for i up to n.
Starting(f, w, i) ==
  IF i = 0 THEN <<>> ELSE IF w[i].nth = 1 THEN Append(f[i - 1], w[i].item) ELSE f[i - 1]
UpTo(f, w, n) == f = [i \in 0 .. n |-> Starting(f, w, i)]

LEMMA UpToExists ==
  ASSUME NEW w, NEW k \in Nat
  PROVE  \E f : UpTo(f, w, k)
<1> DEFINE T == {n \in Nat : ~ \E f : UpTo(f, w, n)}
<1> SUFFICES ASSUME T # {} PROVE FALSE
  OBVIOUS
<1>1. T \subseteq Nat
  OBVIOUS
<1>2. PICK n \in T : \A m \in T : n <= m
  BY ZenonT(30), <1>1, Least
<1>3. n \in Nat /\ ~ \E f : UpTo(f, w, n)
  OBVIOUS
<1>4. \A m \in Nat : m < n => \E f : UpTo(f, w, m)
  BY <1>2, <1>3
<1> HIDE DEF T
<1>5. CASE n = 0
  <2> DEFINE f == [i \in 0 .. 0 |-> <<>>]
  <2>1. f = [i \in 0 .. 0 |-> Starting(f, w, i)]
    BY DEF Starting
  <2> QED
    BY <1>3, <1>5, <2>1 DEF UpTo
<1>6. CASE n # 0
  <2>1. n - 1 \in Nat /\ n - 1 < n
    BY <1>3, <1>6
  <2>2. PICK f : UpTo(f, w, n - 1)
    BY <1>4, <2>1
  <2> DEFINE g == [i \in 0 .. n |-> IF i = n THEN Starting(f, w, n) ELSE f[i]]
  <2>3. ASSUME NEW i \in 0 .. n PROVE g[i] = Starting(g, w, i)
    <3>1. i # 0 => i - 1 \in 0 .. n - 1 /\ i - 1 # n /\ g[i - 1] = f[i - 1]
      BY <1>3
    <3>2. Starting(g, w, i) = Starting(f, w, i)
      BY <3>1 DEF Starting
    <3>3. CASE i = n
      BY <3>2, <3>3
    <3>4. CASE i # n
      <4>1. i \in 0 .. n - 1 /\ g[i] = f[i]
        BY <1>3, <3>4
      <4>2. f[i] = Starting(f, w, i)
        BY <2>2, <4>1 DEF UpTo
      <4> QED
        BY <3>2, <4>1, <4>2
    <3> QED
      BY <3>3, <3>4
  <2>4. g = [i \in 0 .. n |-> g[i]]
    OBVIOUS
  <2> HIDE DEF g
  <2>5. UpTo(g, w, n)
    BY <2>3, <2>4 DEF UpTo
  <2> QED
    BY <1>3, <2>5
<1> QED
  BY <1>5, <1>6

LEMMA UpToStep ==
  ASSUME NEW f, NEW w, NEW n \in Nat, UpTo(f, w, n), NEW i \in 0 .. n
  PROVE  /\ f[i] = Starting(f, w, i)
         /\ i # 0 => f[i] = IF w[i].nth = 1 THEN Append(f[i - 1], w[i].item) ELSE f[i - 1]
<1>1. f[i] = Starting(f, w, i)
  BY DEF UpTo
<1> QED
  BY <1>1, Zenon DEF Starting

\* They depend on the ranks and items of those bytes only.
LEMMA UpToAgree ==
  ASSUME NEW f, NEW w, NEW n \in Nat, UpTo(f, w, n),
         NEW g, NEW v, NEW m \in Nat, UpTo(g, v, m), n <= m, \A i \in 1 .. n : v[i] = w[i]
  PROVE  \A i \in 0 .. n : g[i] = f[i]
<1> DEFINE T == {i \in 0 .. n : g[i] # f[i]}
<1> SUFFICES ASSUME T # {} PROVE FALSE
  OBVIOUS
<1>1. T \subseteq Nat
  OBVIOUS
<1>2. PICK i \in T : \A j \in T : i <= j
  BY <1>1, Least
<1>3. i \in 0 .. n /\ i \in 0 .. m /\ g[i] # f[i] /\ \A j \in 0 .. n : j < i => g[j] = f[j]
  BY <1>2
<1> HIDE DEF T
<1>4. f[i] = Starting(f, w, i) /\ g[i] = Starting(g, v, i)
  BY <1>3, UpToStep
<1>5. i # 0 => g[i - 1] = f[i - 1] /\ v[i] = w[i]
  BY <1>3
<1> QED
  BY <1>3, <1>4, <1>5 DEF Starting

\* Started, unfolded.
StartedIn(w) == (CHOOSE f : UpTo(f, w, Len(w)))[Len(w)]

LEMMA StartedIs == Started = StartedIn(wire) /\ Started' = StartedIn(wire')
BY DEF Started, StartedIn, UpTo, Starting

LEMMA StartedUpTo ==
  ASSUME NEW w, Len(w) \in Nat
  PROVE  \E f : UpTo(f, w, Len(w)) /\ StartedIn(w) = f[Len(w)]
<1> DEFINE c == CHOOSE f : UpTo(f, w, Len(w))
<1>1. UpTo(c, w, Len(w))
  <2>1. \E f : UpTo(f, w, Len(w))
    BY UpToExists
  <2> QED
    BY <2>1
<1> QED
  BY <1>1 DEF StartedIn

\* An item starts with the byte of rank 1.
Adds(v, w, m, s, e) ==
  /\ Len(v) = Len(w) + m /\ \A i \in 1 .. Len(w) : v[i] = w[i]
  /\ \A k \in 1 .. m : v[Len(w) + k].item = s /\ v[Len(w) + k].nth = e + k

LEMMA StartedGrows ==
  ASSUME NEW w, NEW v, NEW m \in Nat, m > 0, NEW s, NEW e \in Nat, Len(w) \in Nat, Adds(v, w, m, s, e)
  PROVE  StartedIn(v) = IF e = 0 THEN Append(StartedIn(w), s) ELSE StartedIn(w)
<1> DEFINE n == Len(w)
           l == Len(v)
           r == IF e = 0 THEN Append(StartedIn(w), s) ELSE StartedIn(w)
<1>1. PICK f : UpTo(f, w, n) /\ StartedIn(w) = f[n]
  BY StartedUpTo
<1>2. PICK g : UpTo(g, v, l) /\ StartedIn(v) = g[l]
  <2>1. Len(v) \in Nat
    BY DEF Adds
  <2>2. \E g : UpTo(g, v, Len(v)) /\ StartedIn(v) = g[Len(v)]
    BY <2>1, StartedUpTo
  <2> QED
    BY <2>2
<1>3. n \in Nat /\ l = n + m /\ l \in Nat /\ n <= l
  BY DEF Adds
<1>4. /\ \A i \in 1 .. n : v[i] = w[i]
      /\ \A k \in 1 .. m : v[n + k].item = s /\ v[n + k].nth = e + k
  BY DEF Adds
<1> HIDE DEF n, l
<1>5. g[n] = f[n]
  <2>1. n \in 0 .. n
    BY <1>3
  <2>2. \A i \in 0 .. n : g[i] = f[i]
    BY <1>1, <1>2, <1>3, <1>4, UpToAgree
  <2> QED
    BY <2>1, <2>2
<1>6. ASSUME NEW k \in 1 .. m PROVE g[n + k] = IF e = 0 /\ k = 1 THEN Append(g[n + k - 1], s) ELSE g[n + k - 1]
  <2>1. n + k \in 0 .. l /\ n + k # 0
    BY <1>3
  <2>2. g[n + k] = IF v[n + k].nth = 1 THEN Append(g[n + k - 1], v[n + k].item) ELSE g[n + k - 1]
    BY <1>2, <1>3, <2>1, UpToStep
  <2>3. v[n + k].item = s /\ v[n + k].nth = e + k /\ (e + k = 1 <=> e = 0 /\ k = 1)
    BY <1>4
  <2> QED
    BY ONLY <2>2, <2>3
<1> DEFINE T == {k \in 1 .. m : g[n + k] # r}
<1>7. ASSUME T # {} PROVE FALSE
  <2>1. T \subseteq Nat
    OBVIOUS
  <2>2. PICK k \in T : \A j \in T : k <= j
    BY <1>7, <2>1, Least
  <2>3. k \in 1 .. m /\ g[n + k] # r /\ \A j \in 1 .. m : j < k => g[n + j] = r
    BY <2>2
  <2> HIDE DEF T
  <2>4. CASE k = 1
    <3>1. n + k - 1 = n
      BY <1>3, <2>4
    <3> QED
      BY <1>1, <1>5, <1>6, <2>3, <2>4, <3>1
  <2>5. CASE k # 1
    <3>1. k - 1 \in 1 .. m /\ k - 1 < k /\ n + k - 1 = n + (k - 1)
      BY <1>3, <2>3, <2>5
    <3>2. g[n + (k - 1)] = r
      BY <2>3, <3>1
    <3>3. g[n + k] = g[n + k - 1]
      BY <1>6, <2>3, <2>5
    <3> QED
      BY <2>3, <3>1, <3>2, <3>3
  <2> QED
    BY <2>4, <2>5
<1>8. m \in 1 .. m
  OBVIOUS
<1>9. g[n + m] = r
  BY <1>7, <1>8
<1> QED
  BY <1>2, <1>3, <1>9

\* The nodes of the items in st, of the submissions sub, and the bytes they are sent as.
NodesOf(st, sub) == [k \in DOMAIN st |-> sub[st[k]]]
StreamOf(st, sub) == Rest(NodesOf(st, sub), 1)

LEMMA NodesType ==
  ASSUME NEW sub \in Seq(Items), NEW st \in Seq(1 .. Len(sub))
  PROVE  /\ NodesOf(st, sub) \in Seq(Items) /\ NodesOf(st, sub) \in Seq(Nodes)
         /\ Len(NodesOf(st, sub)) = Len(st) /\ Len(st) \in Nat
         /\ \A k \in 1 .. Len(st) : NodesOf(st, sub)[k] = sub[st[k]] /\ sub[st[k]] \in Items
         /\ StreamOf(st, sub) \in Seq(Byte) /\ Len(StreamOf(st, sub)) \in Nat
<1>1. Len(st) \in Nat /\ DOMAIN st = 1 .. Len(st) /\ \A k \in 1 .. Len(st) : st[k] \in 1 .. Len(sub)
  OBVIOUS
<1>2. \A j \in 1 .. Len(sub) : sub[j] \in Items
  OBVIOUS
<1>3. \A k \in 1 .. Len(st) : sub[st[k]] \in Items
  BY <1>1, <1>2
<1>4. NodesOf(st, sub) = [k \in 1 .. Len(st) |-> sub[st[k]]]
  BY <1>1 DEF NodesOf
<1>5. NodesOf(st, sub) \in Seq(Items) /\ Len(NodesOf(st, sub)) = Len(st)
  BY <1>1, <1>3, <1>4
<1>6. Items \subseteq Nodes
  BY PipeBoundsAssumption
<1>7. NodesOf(st, sub) \in Seq(Nodes)
  BY <1>1, <1>3, <1>4, <1>6
<1>8. StreamOf(st, sub) \in Seq(Byte)
  <2>1. 1 \in 1 .. Len(NodesOf(st, sub)) + 1
    BY <1>1, <1>5
  <2> QED
    BY <1>7, <2>1, RestCases DEF StreamOf
<1> QED
  BY <1>1, <1>3, <1>4, <1>5, <1>7, <1>8

\* One more item on the wire, and one more submission.
LEMMA NodesAppend ==
  ASSUME NEW sub \in Seq(Items), NEW st \in Seq(1 .. Len(sub)), NEW s \in 1 .. Len(sub)
  PROVE  /\ NodesOf(Append(st, s), sub) = Append(NodesOf(st, sub), sub[s])
         /\ sub[s] \in Nodes /\ sub[s] \in Items
         /\ StreamOf(Append(st, s), sub) = StreamOf(st, sub) \o WP!Encoded[sub[s]]
<1> DEFINE ns == NodesOf(st, sub)
           tt == Append(st, s)
<1>1. /\ ns \in Seq(Nodes) /\ Len(ns) = Len(st) /\ Len(st) \in Nat
      /\ \A k \in 1 .. Len(st) : ns[k] = sub[st[k]]
  BY NodesType
<1>2. sub[s] \in Nodes /\ sub[s] \in Items
  BY PipeBoundsAssumption
<1>3. /\ tt \in Seq(1 .. Len(sub)) /\ Len(tt) = Len(st) + 1
      /\ tt = [k \in 1 .. Len(st) + 1 |-> IF k = Len(st) + 1 THEN s ELSE st[k]]
  BY AppendElements
<1>4. Append(ns, sub[s]) = [k \in 1 .. Len(st) + 1 |-> IF k = Len(st) + 1 THEN sub[s] ELSE ns[k]]
  <2> HIDE DEF ns
  <2>1. Append(ns, sub[s]) = [k \in 1 .. Len(ns) + 1 |-> IF k = Len(ns) + 1 THEN sub[s] ELSE ns[k]]
    BY <1>1, <1>2, AppendElements
  <2> QED
    BY <1>1, <2>1
<1>5. DOMAIN tt = 1 .. Len(st) + 1
  BY <1>3
<1>6. NodesOf(tt, sub) = [k \in 1 .. Len(st) + 1 |-> sub[tt[k]]]
  BY <1>5 DEF NodesOf
<1>7. ASSUME NEW k \in 1 .. Len(st) + 1 PROVE sub[tt[k]] = IF k = Len(st) + 1 THEN sub[s] ELSE ns[k]
  <2>1. tt[k] = IF k = Len(st) + 1 THEN s ELSE st[k]
    BY <1>3
  <2>2. k # Len(st) + 1 => k \in 1 .. Len(st)
    BY <1>1
  <2> QED
    BY <1>1, <2>1, <2>2
<1> HIDE DEF ns, tt
<1>8. NodesOf(tt, sub) = Append(ns, sub[s])
  BY <1>4, <1>6, <1>7
<1>9. 1 \in 1 .. Len(ns) + 1
  BY <1>1
<1>10. Rest(Append(ns, sub[s]), 1) = Rest(ns, 1) \o WP!Encoded[sub[s]]
  BY <1>1, <1>2, <1>9, RestAppend
<1> QED
  BY <1>2, <1>8, <1>10 DEF StreamOf, ns, tt

LEMMA NodesKept ==
  ASSUME NEW sub \in Seq(Items), NEW st \in Seq(1 .. Len(sub)), NEW n \in Items
  PROVE  /\ st \in Seq(1 .. Len(Append(sub, n)))
         /\ NodesOf(st, Append(sub, n)) = NodesOf(st, sub)
         /\ StreamOf(st, Append(sub, n)) = StreamOf(st, sub)
<1>1. Len(st) \in Nat /\ DOMAIN st = 1 .. Len(st) /\ \A k \in 1 .. Len(st) : st[k] \in 1 .. Len(sub)
  OBVIOUS
<1>2. /\ Len(sub) \in Nat /\ Len(Append(sub, n)) = Len(sub) + 1
      /\ \A j \in 1 .. Len(sub) : Append(sub, n)[j] = sub[j]
  OBVIOUS
<1>3. st \in Seq(1 .. Len(sub) + 1)
  <2>1. 1 .. Len(sub) \subseteq 1 .. Len(sub) + 1
    BY <1>2
  <2> QED
    BY <2>1
<1>4. NodesOf(st, Append(sub, n)) = NodesOf(st, sub)
  BY <1>1, <1>2 DEF NodesOf
<1> QED
  BY <1>2, <1>3, <1>4 DEF StreamOf

\* The wire w holds what the items in st are sent as, all but the end of the last one; the
\* whole of it when that one is in dn.
ToTheEnd(w, st, sub, dn) ==
  /\ st # <<>> /\ st[Len(st)] = w[Len(w)].item
  /\ Len(w) + Len(WP!Encoded[sub[w[Len(w)].item]]) = Len(StreamOf(st, sub)) + w[Len(w)].nth
  /\ w[Len(w)].item \in dn => Len(w) = Len(StreamOf(st, sub))
OnWire(w, st, sub, dn) ==
  /\ st \in Seq(1 .. Len(sub))
  /\ Len(w) <= Len(StreamOf(st, sub)) /\ \A k \in 1 .. Len(w) : w[k].byte = StreamOf(st, sub)[k]
  /\ w = <<>> => st = <<>>
  /\ w # <<>> => ToTheEnd(w, st, sub, dn)

\* A submission leaves the wire alone.
LEMMA OnWireSubmit ==
  ASSUME NEW w \in Seq(WP!WireByte), NEW sub \in Seq(Items), NEW st, NEW dn, OnWire(w, st, sub, dn),
         NEW n \in Items, w # <<>> => w[Len(w)].item \in 1 .. Len(sub)
  PROVE  OnWire(w, st, Append(sub, n), dn)
<1>1. st \in Seq(1 .. Len(sub))
  BY DEF OnWire
<1>2. st \in Seq(1 .. Len(Append(sub, n))) /\ StreamOf(st, Append(sub, n)) = StreamOf(st, sub)
  BY <1>1, NodesKept
<1>3. w # <<>> => Append(sub, n)[w[Len(w)].item] = sub[w[Len(w)].item]
  OBVIOUS
<1> QED
  BY <1>2, <1>3 DEF OnWire, ToTheEnd

\* The item written whole becomes one of dn.
LEMMA OnWireDone ==
  ASSUME NEW w, NEW sub, NEW st, NEW dn, OnWire(w, st, sub, dn), NEW s,
         w # <<>>, w[Len(w)].item = s, w[Len(w)].nth = Len(WP!Encoded[sub[s]]),
         Len(w) \in Nat, Len(StreamOf(st, sub)) \in Nat, Len(WP!Encoded[sub[s]]) \in Nat
  PROVE  OnWire(w, st, sub, dn \cup {s})
<1>1. Len(w) = Len(StreamOf(st, sub))
  BY DEF OnWire, ToTheEnd
<1> QED
  BY <1>1 DEF OnWire, ToTheEnd

\* v is w and m more bytes, those of rank e + 1 to e + m in the image of submission s.
Extends(v, w, m, s, e, image) ==
  /\ Len(v) = Len(w) + m
  /\ \A i \in 1 .. Len(w) : v[i] = w[i]
  /\ \A k \in 1 .. m : v[Len(w) + k].item = s /\ v[Len(w) + k].nth = e + k /\ v[Len(w) + k].byte = image[e + k]

\* The first bytes of an item follow an item that is in dn, the others those before them.
Follows(w, dn, s, e) ==
  IF e = 0 THEN w # <<>> => w[Len(w)].item \in dn
  ELSE w # <<>> /\ w[Len(w)].item = s /\ w[Len(w)].nth = e

\* The wire after a transfer: of the first bytes of an item,
LEMMA OnWireStarts ==
  ASSUME NEW w \in Seq(WP!WireByte), NEW sub \in Seq(Items), NEW st, NEW dn, OnWire(w, st, sub, dn),
         NEW s \in 1 .. Len(sub), s \notin dn, NEW m \in Nat, m > 0, NEW image, image = WP!Encoded[sub[s]],
         m <= Len(image), NEW v \in Seq(WP!WireByte), Extends(v, w, m, s, 0, image), Follows(w, dn, s, 0)
  PROVE  /\ OnWire(v, Append(st, s), sub, dn) /\ Len(w) = Len(StreamOf(st, sub))
         /\ StreamOf(Append(st, s), sub) = StreamOf(st, sub) \o image
<1> DEFINE F == StreamOf(st, sub)
           G == StreamOf(Append(st, s), sub)
<1>1. st \in Seq(1 .. Len(sub)) /\ Len(st) \in Nat
  BY DEF OnWire
<1>2. F \in Seq(Byte) /\ Len(F) \in Nat
  BY <1>1, NodesType
<1>3. G = F \o image /\ sub[s] \in Nodes
  BY <1>1, NodesAppend
<1>4. image \in Seq(Byte) /\ Len(image) \in Nat
  BY <1>3, ImageCases
<1>5. Len(w) = Len(F)
  <2>1. CASE w = <<>>
    <3>1. st = <<>> /\ Len(w) = 0
      BY <2>1 DEF OnWire
    <3>2. Len(NodesOf(st, sub)) = 0
      BY <1>1, <3>1, NodesType
    <3>3. F = <<>>
      <4>1. NodesOf(st, sub) \in Seq(Nodes) /\ 1 \in 1 .. Len(NodesOf(st, sub)) + 1 /\ 1 = Len(NodesOf(st, sub)) + 1
        BY <1>1, <3>2, NodesType
      <4> QED
        BY <4>1, RestCases DEF StreamOf
    <3> QED
      BY <3>1, <3>3
  <2>2. CASE w # <<>>
    BY <2>2 DEF OnWire, ToTheEnd, Follows
  <2> QED
    BY <2>1, <2>2
<1>6. /\ Len(G) = Len(F) + Len(image)
      /\ \A k \in 1 .. Len(F) : G[k] = F[k]
      /\ \A k \in 1 .. Len(image) : G[Len(F) + k] = image[k]
  <2> HIDE DEF F, G
  <2> QED
    BY <1>2, <1>3, <1>4
<1>7. \A k \in 1 .. Len(w) : w[k].byte = F[k]
  BY DEF OnWire
<1>8. /\ Len(v) = Len(F) + m /\ \A k \in 1 .. Len(F) : v[k] = w[k]
      /\ \A k \in 1 .. m : v[Len(F) + k].item = s /\ v[Len(F) + k].nth = k /\ v[Len(F) + k].byte = image[k]
  BY <1>5 DEF Extends
<1> HIDE DEF F, G
<1>9. ASSUME NEW k \in 1 .. Len(v) PROVE v[k].byte = G[k]
  <2>1. CASE k <= Len(F)
    <3>1. k \in 1 .. Len(F) /\ k \in 1 .. Len(w)
      BY <1>2, <1>5, <2>1
    <3> QED
      BY <1>6, <1>7, <1>8, <3>1
  <2>2. CASE k > Len(F)
    <3>1. PICK j \in 1 .. m : k = Len(F) + j
      <4>1. k - Len(F) \in 1 .. m /\ k = Len(F) + (k - Len(F))
        BY <1>2, <1>8, <2>2
      <4> QED
        BY <4>1
    <3>2. j \in 1 .. Len(image)
      BY <1>4, <3>1
    <3> QED
      BY <1>6, <1>8, <3>1, <3>2
  <2>3. k <= Len(F) \/ k > Len(F)
    BY <1>2
  <2> QED
    BY <2>1, <2>2, <2>3
<1>10. /\ Append(st, s) \in Seq(1 .. Len(sub)) /\ Append(st, s) # <<>>
       /\ Append(st, s)[Len(Append(st, s))] = s
  <2>1. /\ Append(st, s) \in Seq(1 .. Len(sub)) /\ Len(Append(st, s)) = Len(st) + 1
        /\ Append(st, s) = [k \in 1 .. Len(st) + 1 |-> IF k = Len(st) + 1 THEN s ELSE st[k]]
    BY <1>1, AppendElements
  <2>2. Append(st, s)[Len(st) + 1] = s
    BY <1>1, <2>1
  <2>3. Len(st) + 1 # 0
    BY <1>1
  <2> QED
    BY <2>1, <2>2, <2>3
<1>11. v # <<>> /\ v[Len(v)].item = s /\ v[Len(v)].nth = m
  <2>1. m \in 1 .. m /\ Len(v) # 0
    BY <1>2, <1>8
  <2> QED
    BY <1>8, <2>1
<1>12. ToTheEnd(v, Append(st, s), sub, dn)
  <2>1. Len(v) + Len(image) = Len(G) + m
    <3>1. Len(v) = Len(F) + m /\ Len(G) = Len(F) + Len(image)
      BY <1>6, <1>8
    <3> QED
      BY ONLY <3>1, <1>2, <1>4, m \in Nat
  <2> QED
    BY <1>10, <1>11, <2>1 DEF ToTheEnd, G
<1>13. Len(v) <= Len(G)
  BY <1>2, <1>4, <1>6, <1>8
<1> QED
  BY <1>3, <1>5, <1>9, <1>10, <1>11, <1>12, <1>13 DEF OnWire, F, G

\* and of more of them.
LEMMA OnWireGoesOn ==
  ASSUME NEW w \in Seq(WP!WireByte), NEW sub \in Seq(Items), NEW st, NEW dn, OnWire(w, st, sub, dn),
         NEW s \in 1 .. Len(sub), s \notin dn, NEW m \in Nat, m > 0, NEW image, image = WP!Encoded[sub[s]],
         NEW e \in Nat, e # 0, e + m <= Len(image), NEW v \in Seq(WP!WireByte),
         Extends(v, w, m, s, e, image), Follows(w, dn, s, e)
  PROVE  OnWire(v, st, sub, dn)
<1> DEFINE F == StreamOf(st, sub)
           ns == NodesOf(st, sub)
           fr == SubSeq(ns, 1, Len(ns) - 1)
           a == Len(Rest(fr, 1))
<1>1. st \in Seq(1 .. Len(sub)) /\ Len(st) \in Nat
  BY DEF OnWire
<1>2. F \in Seq(Byte) /\ Len(F) \in Nat /\ sub[s] \in Nodes
  <2>1. sub[s] \in Items
    OBVIOUS
  <2> QED
    BY <1>1, <2>1, NodesType, PipeBoundsAssumption
<1>3. image \in Seq(Byte) /\ Len(image) \in Nat
  BY <1>2, ImageCases
<1>4. w # <<>> /\ w[Len(w)].item = s /\ w[Len(w)].nth = e
  BY DEF Follows
<1>5. st # <<>> /\ st[Len(st)] = s /\ Len(w) + Len(image) = Len(F) + e
  BY <1>4 DEF OnWire, ToTheEnd
<1>6. ns \in Seq(Nodes) /\ Len(ns) = Len(st) /\ Len(ns) # 0 /\ ns[Len(ns)] = sub[s]
  <2>1. Len(st) # 0 /\ Len(st) \in 1 .. Len(st)
    BY <1>1, <1>5
  <2>2. ns \in Seq(Nodes) /\ Len(ns) = Len(st) /\ \A k \in 1 .. Len(st) : ns[k] = sub[st[k]]
    BY <1>1, NodesType
  <2> HIDE DEF ns
  <2> QED
    BY <1>5, <2>1, <2>2
<1> HIDE DEF ns
<1>7. fr \in Seq(Nodes) /\ Len(fr) = Len(ns) - 1 /\ ns = Append(fr, sub[s])
  BY <1>6, Instance, WP!SplitLast
<1> HIDE DEF fr
<1>8. F = Rest(fr, 1) \o image /\ Rest(fr, 1) \in Seq(Byte)
  <2>1. 1 \in 1 .. Len(fr) + 1
    BY <1>6, <1>7
  <2> QED
    BY <1>2, <1>7, <2>1, RestAppend, RestCases DEF StreamOf, ns
<1>9. a \in Nat /\ Len(F) = a + Len(image) /\ \A k \in 1 .. Len(image) : F[a + k] = image[k]
  <2> HIDE DEF F
  <2> QED
    BY <1>3, <1>8
<1> HIDE DEF F, a
<1>10. Len(w) = a + e /\ Len(w) \in Nat
  <2>1. Len(w) \in Nat
    OBVIOUS
  <2>2. Len(w) + Len(image) = Len(F) + e /\ Len(F) = a + Len(image) /\ a \in Nat /\ Len(image) \in Nat
    BY <1>3, <1>5, <1>9
  <2> QED
    BY ONLY <2>1, <2>2, e \in Nat
<1>11. \A k \in 1 .. Len(w) : w[k].byte = F[k]
  BY DEF OnWire, F
<1>12. /\ Len(v) = Len(w) + m /\ \A k \in 1 .. Len(w) : v[k] = w[k]
       /\ \A k \in 1 .. m : v[Len(w) + k].item = s /\ v[Len(w) + k].nth = e + k /\ v[Len(w) + k].byte = image[e + k]
  BY DEF Extends
<1>13. ASSUME NEW k \in 1 .. Len(v) PROVE v[k].byte = F[k]
  <2>1. CASE k <= Len(w)
    <3>1. k \in 1 .. Len(w)
      BY <1>10, <2>1
    <3> QED
      BY <1>11, <1>12, <3>1
  <2>2. CASE k > Len(w)
    <3>1. PICK j \in 1 .. m : k = Len(w) + j
      <4>1. k - Len(w) \in 1 .. m /\ k = Len(w) + (k - Len(w))
        BY <1>10, <1>12, <2>2
      <4> QED
        BY <4>1
    <3>2. e + j \in 1 .. Len(image) /\ k = a + (e + j)
      <4>1. Len(image) \in Nat /\ a \in Nat /\ Len(w) = a + e
        BY <1>3, <1>9, <1>10
      <4> QED
        BY ONLY <3>1, <4>1, e \in Nat, m \in Nat, e + m <= Len(image)
    <3>3. F[a + (e + j)] = image[e + j]
      BY <1>9, <3>2
    <3>4. v[Len(w) + j].byte = image[e + j]
      BY <1>12, <3>1
    <3> QED
      BY ONLY <3>1, <3>2, <3>3, <3>4
  <2>3. k <= Len(w) \/ k > Len(w)
    BY <1>10
  <2> QED
    BY <2>1, <2>2, <2>3
<1>14. v # <<>> /\ v[Len(v)].item = s /\ v[Len(v)].nth = e + m
  <2>1. m \in 1 .. m /\ Len(v) # 0
    BY <1>10, <1>12
  <2> QED
    BY <1>12, <2>1
<1>15. ToTheEnd(v, st, sub, dn)
  <2>1. Len(v) + Len(image) = Len(F) + (e + m)
    <3>1. Len(w) + Len(image) = Len(F) + e /\ Len(w) \in Nat /\ Len(v) = Len(w) + m
      BY <1>5, <1>10, <1>12
    <3>2. Len(F) \in Nat /\ Len(image) \in Nat
      BY <1>2, <1>3
    <3> QED
      BY ONLY <3>1, <3>2, e \in Nat, m \in Nat
  <2>2. WP!Encoded[sub[v[Len(v)].item]] = image /\ v[Len(v)].item \notin dn
    BY <1>14
  <2> QED
    BY <1>5, <1>14, <2>1, <2>2, Zenon DEF ToTheEnd, F
<1>16. Len(v) <= Len(F)
  BY <1>2, <1>3, <1>9, <1>10, <1>12
<1> QED
  BY <1>1, <1>13, <1>14, <1>15, <1>16 DEF OnWire, F

\* The inductive invariant of the writer's side, and what its steps put on the wire.
AllValid(ns) == \A k \in DOMAIN ns : WP!Valid[ns[k]]
WInv == WP!EInv /\ AllValid(submitted) /\ OnWire(wire, Started, submitted, done)

SentNodes == NodesOf(Started, submitted)
Sends ==
  /\ Len(wire) <= Len(wire') /\ \A i \in 1 .. Len(wire) : wire'[i] = wire[i]
  /\ \/ SentNodes' = SentNodes
     \/ \E n \in Items : WP!Valid[n] /\ SentNodes' = Append(SentNodes, n)

LEMMA WriterTypes ==
  ASSUME WInv
  PROVE  /\ wire \in Seq(WP!WireByte) /\ submitted \in Seq(Items) /\ Started \in Seq(1 .. Len(submitted))
         /\ WP!TypeOK /\ WP!IInv /\ WP!OnTrack /\ WP!Bookkeeping /\ WP!EmittedIsExact
         /\ wire # <<>> => wire[Len(wire)].item \in 1 .. Len(submitted)
         /\ Len(wire) \in Nat /\ Len(submitted) \in Nat
<1>1. WP!TypeOK /\ WP!IInv /\ WP!OnTrack /\ WP!Bookkeeping /\ WP!EmittedIsExact /\ WP!WireBytes
  BY DEF WInv, WP!EInv, WP!IInv
<1>2. wire \in Seq(WP!WireByte) /\ submitted \in Seq(Items)
  BY <1>1 DEF WP!TypeOK
<1>3. Started \in Seq(1 .. Len(submitted))
  BY DEF WInv, OnWire
<1>4. Len(wire) \in Nat /\ Len(submitted) \in Nat
  BY <1>2
<1>5. wire # <<>> => Len(wire) \in DOMAIN wire
  BY <1>2
<1>6. DOMAIN submitted = 1 .. Len(submitted)
  BY <1>2
<1> QED
  BY <1>1, <1>2, <1>3, <1>4, <1>5, <1>6 DEF WP!WireBytes

LEMMA WriterInit == ASSUME WP!Init PROVE WInv /\ SentNodes = <<>> /\ wire = <<>> /\ Started = <<>>
<1>1. WP!EInv
  BY ZenonT(30), Instance, WP!ImagesInit
<1>2. wire = <<>> /\ submitted = <<>> /\ done = {}
  BY DEF WP!Init
<1>3. Len(wire) = 0
  BY <1>2
<1>4. Started = <<>>
  <2>1. PICK f : UpTo(f, wire, 0) /\ Started = f[0]
    <3>1. Len(wire) \in Nat
      BY <1>3
    <3>2. \E f : UpTo(f, wire, Len(wire)) /\ StartedIn(wire) = f[Len(wire)]
      BY <3>1, StartedUpTo
    <3> QED
      BY <1>3, <3>2, StartedIs
  <2>2. f[0] = Starting(f, wire, 0)
    BY <2>1, UpToStep
  <2> QED
    BY <2>1, <2>2 DEF Starting
<1>5. Started \in Seq(1 .. Len(submitted)) /\ submitted \in Seq(Items)
  BY <1>2, <1>4
<1>6. SentNodes = <<>> /\ Len(StreamOf(Started, submitted)) \in Nat
  <2>1. Len(SentNodes) = 0 /\ SentNodes \in Seq(Nodes)
    BY ZenonT(30), <1>4, <1>5, NodesType DEF SentNodes
  <2> QED
    BY <1>5, <2>1, NodesType
<1>7. OnWire(wire, Started, submitted, done)
  BY <1>2, <1>3, <1>4, <1>5, <1>6 DEF OnWire
<1>8. AllValid(submitted)
  BY <1>2 DEF AllValid
<1> QED
  BY <1>1, <1>2, <1>4, <1>6, <1>7, <1>8 DEF WInv

LEMMA WriterSubmits ==
  ASSUME WInv, NEW n \in Items, WP!tensor(n) \/ WP!composite(n)
  PROVE  WInv' /\ Sends
<1>1. WP!Begins(n)
  BY Instance, WP!SubmissionBegins
<1>2. UNCHANGED <<wire, done>> /\ submitted' = Append(submitted, n)
  BY <1>1 DEF WP!Begins
<1>3. WP!EInv'
  <2>1. WP!Next
    BY DEF WP!Next
  <2> QED
    BY <2>1, Instance, WP!ImagesNext DEF WInv
<1>4. Started' = Started
  BY <1>2, StartedIs
<1>5. OnWire(wire, Started, Append(submitted, n), done)
  <2>1. OnWire(wire, Started, submitted, done)
    BY DEF WInv
  <2> QED
    BY <2>1, WriterTypes, OnWireSubmit
<1>6. SentNodes' = SentNodes
  <2>1. NodesOf(Started, Append(submitted, n)) = NodesOf(Started, submitted)
    BY WriterTypes, NodesKept
  <2> QED
    BY <1>2, <1>4, <2>1 DEF SentNodes
<1>7. AllValid(Append(submitted, n))
  <2>1. WP!Valid[n]
    BY DEF WP!tensor, WP!composite, WP!BeginOp
  <2>2. \A k \in DOMAIN submitted : WP!Valid[submitted[k]]
    BY DEF WInv, AllValid
  <2>3. submitted \in Seq(Items)
    BY WriterTypes
  <2>4. \A k \in DOMAIN Append(submitted, n) :
           \/ k \in DOMAIN submitted /\ Append(submitted, n)[k] = submitted[k]
           \/ Append(submitted, n)[k] = n
    BY <2>3
  <2> QED
    BY <2>1, <2>2, <2>4 DEF AllValid
<1>8. Len(wire) <= Len(wire') /\ \A i \in 1 .. Len(wire) : wire'[i] = wire[i]
  BY <1>2, WriterTypes
<1> QED
  BY <1>2, <1>3, <1>4, <1>5, <1>6, <1>7, <1>8 DEF WInv, Sends

\* Steps that move no byte.
LEMMA WriterStays ==
  ASSUME WInv, WP!EInv', UNCHANGED <<wire, submitted>>, OnWire(wire, Started, submitted, done')
  PROVE  WInv' /\ Sends
<1>1. Started' = Started
  BY StartedIs
<1>2. Len(wire) <= Len(wire') /\ \A i \in 1 .. Len(wire) : wire'[i] = wire[i]
  BY WriterTypes
<1>3. SentNodes' = SentNodes
  BY <1>1 DEF SentNodes
<1> QED
  BY <1>1, <1>2, <1>3 DEF WInv, Sends

LEMMA WriterTurns ==
  ASSUME WInv, WP!step
  PROVE  WInv' /\ Sends
<1>1. WP!EInv'
  <2>1. WP!Next
    BY DEF WP!Next
  <2> QED
    BY ZenonT(30), <2>1, Instance, WP!ImagesNext DEF WInv
<1>2. OnWire(wire, Started, submitted, done)
  BY DEF WInv
<1>3. CASE WP!StepPayload \/ WP!StepNode
  <2>1. UNCHANGED <<wire, submitted, done>>
    BY <1>3 DEF WP!StepPayload, WP!StepNode
  <2> QED
    BY <1>1, <1>2, <2>1, WriterStays
<1>4. CASE WP!StepDone
  <2>1. UNCHANGED <<wire, submitted>> /\ done' = done \cup {Len(submitted)} /\ WP!Offering
    BY <1>4 DEF WP!StepDone, WP!SliceExhausted
  <2>2. Len(WP!Image) = emitted /\ emitted \in Nat /\ opState # "None" /\ submitted # <<>>
    <3>1. WP!TypeOK /\ WP!OnTrack
      BY WriterTypes
    <3>2. Len(WP!Image) = emitted
      BY <1>4, <3>1, Instance, WP!TrackDone
    <3> QED
      BY <2>1, <3>1, <3>2 DEF WP!TypeOK, WP!Offering
  <2>3. Len(submitted) \in DOMAIN submitted /\ submitted[Len(submitted)] \in Nodes
    <3>1. submitted \in Seq(Items) /\ Items \subseteq Nodes
      BY WriterTypes, PipeBoundsAssumption
    <3> QED
      BY <2>2, <3>1
  <2>4. Len(WP!Encoded[submitted[Len(submitted)]]) > 0
    BY <2>3, ImageCases
  <2>5. emitted # 0 /\ ~ lost
    BY <2>1, <2>2, <2>4, WriterTypes DEF WP!Image, WP!Bookkeeping
  <2>6. wire # <<>> /\ wire[Len(wire)].item = Len(submitted) /\ wire[Len(wire)].nth = emitted
    BY <2>2, <2>5, WriterTypes DEF WP!EmittedIsExact, WP!LastByte
  <2>7. Len(StreamOf(Started, submitted)) \in Nat
    BY WriterTypes, NodesType
  <2>8. OnWire(wire, Started, submitted, done \cup {Len(submitted)})
    BY <1>2, <2>2, <2>6, <2>7, WriterTypes, OnWireDone DEF WP!Image
  <2> QED
    BY <1>1, <2>1, <2>8, WriterStays
<1> QED
  BY <1>3, <1>4 DEF WP!step

\* A transfer of m bytes.
LEMMA WriterMoves ==
  ASSUME WInv, NEW m \in 0 .. WP!remaining,
         WP!report_written(m) \/ WP!OverReport(m) \/ WP!MarkUnusable(m), WP!EInv'
  PROVE  WInv' /\ Sends
<1> DEFINE s == Len(submitted)
           image == WP!Encoded[submitted[s]]
           e == emitted
<1>1. /\ wire' = wire \o WP!Taken(m) /\ UNCHANGED <<submitted, done>> /\ opState # "None"
  BY DEF WP!report_written, WP!OverReport, WP!MarkUnusable, WP!Offering
<1>2. /\ wire \in Seq(WP!WireByte) /\ submitted \in Seq(Items) /\ Started \in Seq(1 .. Len(submitted))
      /\ WP!TypeOK /\ WP!OnTrack /\ WP!Bookkeeping /\ WP!EmittedIsExact
      /\ Len(wire) \in Nat /\ Len(submitted) \in Nat
  BY WriterTypes
<1>3. wire' \in Seq(WP!WireByte)
  BY DEF WP!EInv, WP!IInv, WP!TypeOK
<1>4. /\ m \in Nat /\ Len(wire') = Len(wire) + m
      /\ \A i \in 1 .. Len(wire) : wire'[i] = wire[i]
      /\ \A k \in 1 .. m : wire'[Len(wire) + k].item = s /\ wire'[Len(wire) + k].nth = e + k
  BY <1>1, <1>2, Instance, WP!WireGrows
<1>5. Len(wire) <= Len(wire') /\ \A i \in 1 .. Len(wire) : wire'[i] = wire[i]
  BY <1>2, <1>4
<1>6. OnWire(wire, Started, submitted, done)
  BY DEF WInv
<1>7. CASE m = 0
  <2>1. WP!Taken(m) = <<>>
    <3>1. WP!Taken(m) \in Seq(WP!WireByte) /\ Len(WP!Taken(m)) = 0
      BY <1>2, <1>7, Instance, WP!TakenBytes
    <3> QED
      BY <3>1
  <2>2. wire' = wire
    BY <1>1, <1>2, <2>1
  <2> QED
    BY <1>1, <1>6, <2>2, WriterStays
<1>8. CASE m # 0
  <2>1. WP!Offering
    <3>1. m > 0
      BY <1>4, <1>8
    <3> QED
      BY <3>1 DEF WP!remaining
  <2>2. ~ lost /\ s \notin done /\ e \in Nat
    BY <1>2, <2>1 DEF WP!Bookkeeping, WP!TypeOK
  <2>3. s \in 1 .. Len(submitted) /\ submitted[s] \in Nodes /\ submitted[s] \in Items
    <3>1. submitted # <<>> /\ Items \subseteq Nodes
      BY <1>1, <1>2, PipeBoundsAssumption DEF WP!TypeOK
    <3> QED
      BY <1>2, <3>1
  <2>4. image \in Seq(Byte) /\ Len(image) \in Nat
    BY <2>3, ImageCases
  <2>5. \A k \in 1 .. m : e + k \in 1 .. Len(image) /\ wire'[Len(wire) + k].byte = image[e + k]
    <3>1. \A k \in 1 .. WP!remaining : e + k \in 1 .. Len(image) /\ WP!output_src[k] = image[e + k]
      BY ZenonT(30), <1>2, <2>1, Instance, WP!OfferedBytes DEF WP!Image
    <3>2. \A k \in 1 .. m : wire'[Len(wire) + k].byte = WP!output_src[k]
      BY <1>1, <1>2, Instance, WP!WireGrowsBy
    <3>3. WP!remaining \in Nat
      BY <1>2, <2>1, Instance, WP!RestParts
    <3>4. \A k \in 1 .. m : k \in 1 .. WP!remaining
      BY <3>3
    <3> HIDE DEF s, image, e
    <3> QED
      BY <3>1, <3>2, <3>4
  <2>6. Extends(wire', wire, m, s, e, image)
    BY <1>4, <2>5 DEF Extends
  <2>7. Follows(wire, done, s, e)
    BY <1>1, <1>2, <2>2 DEF Follows, WP!EmittedIsExact, WP!LastByte
  <2>8. m > 0 /\ e + m <= Len(image)
    <3>1. m \in 1 .. m
      BY <1>4, <1>8
    <3>2. e + m \in 1 .. Len(image)
      BY <2>5, <3>1
    <3> QED
      BY <1>4, <1>8, <3>2
  <2>9. Started' = IF e = 0 THEN Append(Started, s) ELSE Started
    <3> HIDE DEF s, e
    <3>1. Len(wire) \in Nat /\ m > 0 /\ m \in Nat /\ e \in Nat
      BY <1>2, <1>4, <2>2, <2>8
    <3>2. StartedIn(wire') = IF e = 0 THEN Append(StartedIn(wire), s) ELSE StartedIn(wire)
      <4>1. Adds(wire', wire, m, s, e)
        BY <1>4 DEF Adds
      <4> QED
        BY <3>1, <4>1, StartedGrows
    <3> QED
      BY <3>2, StartedIs
  <2>10. CASE e = 0
    <3>1. Extends(wire', wire, m, s, 0, image) /\ Follows(wire, done, s, 0) /\ m <= Len(image) /\ Started' = Append(Started, s)
      BY <1>4, <2>4, <2>6, <2>7, <2>8, <2>9, <2>10
    <3> HIDE DEF s, e
    <3>2. OnWire(wire', Append(Started, s), submitted, done)
      BY <1>2, <1>3, <1>4, <1>6, <2>2, <2>3, <2>8, <3>1, OnWireStarts
    <3>3. NodesOf(Append(Started, s), submitted) = Append(NodesOf(Started, submitted), submitted[s])
      BY <1>2, <2>3, NodesAppend
    <3>4. WP!Valid[submitted[s]]
      <4>1. s \in DOMAIN submitted
        BY <1>2, <2>3
      <4> QED
        BY <4>1 DEF WInv, AllValid
    <3>5. SentNodes' = Append(SentNodes, submitted[s])
      BY <1>1, <3>1, <3>3 DEF SentNodes
    <3> QED
      BY <1>1, <1>5, <2>3, <3>1, <3>2, <3>4, <3>5 DEF WInv, Sends
  <2>11. CASE e # 0
    <3>1. Started' = Started
      BY <2>9, <2>11
    <3> HIDE DEF s, e
    <3>2. OnWire(wire', Started, submitted, done)
      BY <1>2, <1>3, <1>4, <1>6, <2>2, <2>3, <2>6, <2>7, <2>8, <2>11, OnWireGoesOn
    <3>3. SentNodes' = SentNodes
      BY <1>1, <3>1 DEF SentNodes
    <3> QED
      BY <1>1, <1>5, <3>1, <3>2, <3>3 DEF WInv, Sends
  <2> QED
    BY <2>10, <2>11
<1> QED
  BY <1>7, <1>8

\* Every step of the writer.
LEMMA WriterNext == ASSUME WInv, W!Next PROVE WInv' /\ Sends
<1>1. WP!Next
  BY WriterSteps
<1>2. WP!EInv'
  BY ZenonT(30), <1>1, Instance, WP!ImagesNext DEF WInv
<1>3. ASSUME NEW n \in Items, WP!tensor(n) \/ WP!composite(n) PROVE WInv' /\ Sends
  BY <1>3, WriterSubmits
<1>4. CASE WP!step
  BY <1>4, WriterTurns
<1>5. ASSUME NEW n \in 1 .. WP!remaining, WP!report_written(n) PROVE WInv' /\ Sends
  <2>1. WP!remaining \in Nat
    <3>1. WP!Offering /\ WP!TypeOK /\ WP!OnTrack
      BY <1>5, WriterTypes DEF WP!report_written
    <3> QED
      BY ZenonT(30), <3>1, Instance, WP!RestParts
  <2>2. n \in 0 .. WP!remaining
    BY <2>1
  <2> QED
    BY <1>2, <1>5, <2>2, WriterMoves
<1>6. ASSUME NEW m \in 0 .. WP!remaining, WP!OverReport(m) \/ WP!MarkUnusable(m) PROVE WInv' /\ Sends
  BY <1>2, <1>6, WriterMoves
<1>7. CASE WP!report_sink_closed \/ WP!Drop
  <2>1. UNCHANGED <<wire, submitted, done>>
    BY <1>7 DEF WP!report_sink_closed, WP!Drop
  <2> QED
    BY <1>2, <2>1, WriterStays DEF WInv
<1> QED
  BY <1>1, <1>3, <1>4, <1>5, <1>6, <1>7 DEF WP!Next

\* The bytes sent so far, and the nodes they are of.
LEMMA WireOfNodes ==
  ASSUME WInv
  PROVE  /\ SentNodes \in Seq(Nodes) /\ Len(SentNodes) \in Nat /\ AllValid(SentNodes)
         /\ \A k \in 1 .. Len(SentNodes) : SentNodes[k] \in Items
         /\ Bytes \in Seq(Byte) /\ Len(Bytes) = Len(wire) /\ Len(wire) \in Nat
         /\ Rest(SentNodes, 1) \in Seq(Byte) /\ Len(Rest(SentNodes, 1)) \in Nat
         /\ Len(Bytes) <= Len(Rest(SentNodes, 1))
         /\ \A k \in 1 .. Len(Bytes) : Bytes[k] = Rest(SentNodes, 1)[k]
<1>1. /\ wire \in Seq(WP!WireByte) /\ submitted \in Seq(Items) /\ Started \in Seq(1 .. Len(submitted))
      /\ Len(wire) \in Nat
  BY WriterTypes
<1>2. /\ SentNodes \in Seq(Nodes) /\ SentNodes \in Seq(Items) /\ Len(SentNodes) = Len(Started) /\ Len(Started) \in Nat
      /\ \A k \in 1 .. Len(Started) : SentNodes[k] = submitted[Started[k]] /\ submitted[Started[k]] \in Items
      /\ StreamOf(Started, submitted) \in Seq(Byte) /\ Len(StreamOf(Started, submitted)) \in Nat
  BY <1>1, NodesType DEF SentNodes
<1>3. Rest(SentNodes, 1) = StreamOf(Started, submitted)
  BY DEF StreamOf, SentNodes
<1>4. AllValid(SentNodes)
  <2>1. \A k \in 1 .. Len(Started) : Started[k] \in DOMAIN submitted
    BY <1>1
  <2>2. DOMAIN SentNodes = 1 .. Len(Started)
    BY <1>2
  <2> QED
    BY <1>2, <2>1, <2>2 DEF WInv, AllValid
<1>5. Bytes \in Seq(Byte) /\ Len(Bytes) = Len(wire) /\ \A k \in 1 .. Len(wire) : Bytes[k] = wire[k].byte
  <2>1. \A k \in 1 .. Len(wire) : wire[k].byte \in Byte
    <3>1. \A b \in WP!WireByte : b.byte \in Byte
      BY SameBytes DEF WP!WireByte
    <3>2. \A k \in 1 .. Len(wire) : wire[k] \in WP!WireByte
      BY <1>1
    <3> QED
      BY <3>1, <3>2
  <2>2. Bytes = [i \in 1 .. Len(wire) |-> wire[i].byte]
    BY <1>1 DEF Bytes
  <2> QED
    BY <1>1, <2>1, <2>2
<1> QED
  BY <1>1, <1>2, <1>3, <1>4, <1>5 DEF WInv, OnWire
-----------------------------------------------------------------------------
(***************************************************************************)
(* What the reader has of the frame it is at.                              *)
(***************************************************************************)

\* The first j pieces of s and t are the same, and the others lie in F side by side.
Matched(F, s, t, b, c, j) ==
  \E y : /\ Seg(F, y, b, WP!Suffix(s, j + 1)) /\ Seg(F, y, c, WP!Suffix(t, j + 1))
         /\ \A i \in 1 .. j : s[i] = t[i]

LEMMA SameSegment ==
  ASSUME NEW F, NEW s \in Seq(Byte), NEW t \in Seq(Byte), Len(s) = Len(t), NEW a, NEW b, NEW c,
         Seg(F, a, b, s), Seg(F, a, c, t)
  PROVE  s = t
<1>1. \A k \in 1 .. Len(s) : s[k] = t[k]
  BY DEF Seg
<1> QED
  BY <1>1

\* Pieces of the same sizes at the same place are the same pieces.
LEMMA SameFronts ==
  ASSUME NEW F, Len(F) \in Nat, NEW s \in Seq(Seq(Byte)), NEW t \in Seq(Seq(Byte)),
         Len(s) <= Len(t), \A i \in 1 .. Len(s) : Len(s[i]) = Len(t[i]), NEW a, NEW b, NEW c,
         Seg(F, a, b, WP!Joined(s)), Seg(F, a, c, WP!Joined(t))
  PROVE  /\ \A i \in 1 .. Len(s) : s[i] = t[i]
         /\ Seg(F, b, c, WP!Suffix(t, Len(s) + 1))
<1> DEFINE n == Len(s)
           T == {j \in 0 .. n : ~ Matched(F, s, t, b, c, j)}
<1>1. n \in Nat /\ Len(t) \in Nat /\ n <= Len(t)
  OBVIOUS
<1>2. /\ \A i \in 1 .. n + 1 : WP!Suffix(s, i) \in Seq(Byte) /\ WP!Suffix(t, i) \in Seq(Byte)
      /\ WP!Suffix(s, 1) = WP!Joined(s) /\ WP!Suffix(t, 1) = WP!Joined(t)
  <2>1. \A i \in 1 .. n + 1 : WP!Suffix(s, i) \in Seq(Byte) /\ WP!Suffix(s, 1) = WP!Joined(s)
    BY ZenonT(30), Instance, WP!SuffixType
  <2>2. \A i \in 1 .. Len(t) + 1 : WP!Suffix(t, i) \in Seq(Byte) /\ WP!Suffix(t, 1) = WP!Joined(t)
    BY Instance, WP!SuffixType
  <2>3. \A i \in 1 .. n + 1 : i \in 1 .. Len(t) + 1
    BY <1>1
  <2>4. 1 \in 1 .. n + 1
    BY <1>1
  <2> HIDE DEF n
  <2> QED
    BY <2>1, <2>2, <2>3, <2>4
<1>3. ASSUME NEW i \in 1 .. n
      PROVE  /\ s[i] \in Seq(Byte) /\ t[i] \in Seq(Byte) /\ Len(s[i]) = Len(t[i])
             /\ WP!Suffix(s, i) = s[i] \o WP!Suffix(s, i + 1)
             /\ WP!Suffix(t, i) = t[i] \o WP!Suffix(t, i + 1)
  <2>1. i \in 1 .. Len(s) /\ i \in 1 .. Len(t)
    BY <1>1
  <2>2. s[i] \in Seq(Byte) /\ WP!Suffix(s, i) = s[i] \o WP!Suffix(s, i + 1)
    BY <2>1, Instance, WP!SuffixStep
  <2>3. t[i] \in Seq(Byte) /\ WP!Suffix(t, i) = t[i] \o WP!Suffix(t, i + 1)
    BY <2>1, Instance, WP!SuffixStep
  <2> QED
    BY <2>1, <2>2, <2>3
<1>4. WP!Suffix(s, n + 1) = <<>>
  <2>1. n + 1 \in Nat /\ n + 1 > Len(s)
    BY <1>1
  <2> QED
    BY <1>1, <2>1, Instance, WP!SuffixEnd
<1> HIDE DEF n
<1>5. Matched(F, s, t, b, c, 0)
  <2>1. Seg(F, a, b, WP!Suffix(s, 0 + 1)) /\ Seg(F, a, c, WP!Suffix(t, 0 + 1))
    BY <1>2
  <2>2. \A i \in 1 .. 0 : s[i] = t[i]
    OBVIOUS
  <2> QED
    BY <2>1, <2>2 DEF Matched
<1>6. ASSUME NEW j \in 0 .. n, j # 0, Matched(F, s, t, b, c, j - 1) PROVE Matched(F, s, t, b, c, j)
  <2>1. j \in 1 .. n /\ (j - 1) + 1 = j /\ j + 1 \in 1 .. n + 1 /\ j - 1 \in Nat
    BY <1>1, <1>6
  <2>2. PICK y : /\ Seg(F, y, b, WP!Suffix(s, j)) /\ Seg(F, y, c, WP!Suffix(t, j))
                 /\ \A i \in 1 .. j - 1 : s[i] = t[i]
    <3>1. \E y : /\ Seg(F, y, b, WP!Suffix(s, (j - 1) + 1)) /\ Seg(F, y, c, WP!Suffix(t, (j - 1) + 1))
                 /\ \A i \in 1 .. j - 1 : s[i] = t[i]
      BY <1>6 DEF Matched
    <3> QED
      BY <2>1, <3>1
  <2> DEFINE u == WP!Suffix(s, j + 1)
             v == WP!Suffix(t, j + 1)
  <2>3. /\ s[j] \in Seq(Byte) /\ t[j] \in Seq(Byte) /\ Len(s[j]) = Len(t[j])
        /\ WP!Suffix(s, j) = s[j] \o u /\ WP!Suffix(t, j) = t[j] \o v
        /\ u \in Seq(Byte) /\ v \in Seq(Byte)
    BY <1>2, <1>3, <2>1
  <2> HIDE DEF u, v
  <2>4. Seg(F, y, y + Len(s[j]), s[j]) /\ Seg(F, y + Len(s[j]), b, u)
    BY ZenonT(30), <2>2, <2>3, SegSplit
  <2>5. Seg(F, y, y + Len(t[j]), t[j]) /\ Seg(F, y + Len(t[j]), c, v)
    <3>1. Seg(F, y, c, t[j] \o v)
      BY <2>2, <2>3
    <3> QED
      BY <2>3, <3>1, SegSplit
  <2>6. s[j] = t[j]
    BY <2>3, <2>4, <2>5, SameSegment
  <2>7. \A i \in 1 .. j : s[i] = t[i]
    <3>1. \A i \in 1 .. j : i \in 1 .. j - 1 \/ i = j
      BY <2>1
    <3> QED
      BY <2>2, <2>6, <3>1
  <2>8. Seg(F, y + Len(s[j]), c, v)
    BY <2>3, <2>5
  <2> QED
    BY <2>4, <2>7, <2>8 DEF Matched, u, v
<1>7. ASSUME T # {} PROVE FALSE
  <2>1. T \subseteq Nat
    BY <1>1
  <2>2. PICK j \in T : \A i \in T : j <= i
    BY <1>7, <2>1, Least
  <2>3. j \in 0 .. n /\ ~ Matched(F, s, t, b, c, j)
    OBVIOUS
  <2>4. CASE j = 0
    BY <1>5, <2>3, <2>4
  <2>5. CASE j # 0
    <3>1. j - 1 \in 0 .. n /\ ~ (j <= j - 1)
      BY <1>1, <2>3, <2>5
    <3>2. Matched(F, s, t, b, c, j - 1)
      BY <2>2, <3>1
    <3> QED
      BY <1>6, <2>3, <2>5, <3>2
  <2> QED
    BY <2>4, <2>5
<1>8. Matched(F, s, t, b, c, n)
  <2>1. n \in 0 .. n
    BY <1>1
  <2> QED
    BY <1>7, <2>1
<1>9. PICK y : /\ Seg(F, y, b, WP!Suffix(s, n + 1)) /\ Seg(F, y, c, WP!Suffix(t, n + 1))
               /\ \A i \in 1 .. n : s[i] = t[i]
  BY <1>8 DEF Matched
<1>10. y = b
  <2>1. y \in Nat /\ b = y + Len(WP!Suffix(s, n + 1))
    BY <1>9 DEF Seg
  <2>2. Len(WP!Suffix(s, n + 1)) = 0
    BY <1>4
  <2> QED
    BY <2>1, <2>2
<1> QED
  BY <1>9, <1>10 DEF n

LEMMA SameReader ==
  /\ \A id : RP!Decodable(id) = Decodable(id) /\ RP!IsHead(id) = IsHead(id)
  /\ \A t : RP!Image(t) = encode(t.id) \o WP!Joined(t.buffers)
<1>1. \A id : RP!Decodable(id) = Decodable(id) /\ RP!IsHead(id) = IsHead(id)
  BY DEF RP!Decodable, RP!IsHead, RP!Encodable, RP!validate_against_shape, RP!SatAdd,
         Decodable, IsHead, Encodable, validate_against_shape, SatAdd
<1>2. \A t : RP!Image(t) = encode(t.id) \o WP!Joined(t.buffers)
  BY SameBytes DEF RP!Image
<1> QED
  BY <1>1, <1>2

\* The frame of a node: its descriptor and, of a tensor, its payloads.
FrameBuffers(n) == IF n.kind = "Tensor" THEN payloads_of(n) ELSE <<>>
FrameBytes(n) == encode(n.id) \o WP!Joined(FrameBuffers(n))

\* What the writer checked of a node and the reader's limits ask of it.
Fit(n) == n \in Nodes /\ WP!Valid[n] /\ WithinLimits(n)

LEMMA FitNode ==
  ASSUME NEW n, Fit(n)
  PROVE  /\ n \in Nodes /\ n.id \in Ids /\ Desc[n.id].len \in Nat /\ Desc[n.id].len > PrefixLen
         /\ Desc[n.id].len <= MaxDescriptorBytes /\ Decodable(n.id)
         /\ n.kind = "Tensor" \/ (n.kind = "Composite" /\ n.kind # "Tensor")
         /\ n.kind = "Tensor" <=> ~ IsHead(n.id)
         /\ FrameBuffers(n) \in Seq(Seq(Byte)) /\ WP!Joined(FrameBuffers(n)) \in Seq(Byte)
         /\ Len(FrameBuffers(n)) = Len(Desc[n.id].bufs) /\ Len(Desc[n.id].bufs) \in Nat
         /\ \A i \in 1 .. Len(Desc[n.id].bufs) :
               /\ Len(FrameBuffers(n)[i]) = Desc[n.id].bufs[i].size
               /\ ~ RP!Refused(Desc[n.id].bufs[i])
<1>1. /\ n \in Nodes /\ n.id \in Ids /\ n.kind \in {"Tensor", "Composite"} /\ n.slices \in Seq(Nat)
      /\ n.members \in Seq(Nodes)
  BY PipeNodesAssumption DEF Fit
<1>2. Desc[n.id].len \in Nat /\ Len(Desc[n.id].bufs) \in Nat /\ DOMAIN Desc[n.id].bufs = 1 .. Len(Desc[n.id].bufs)
  BY <1>1, DescAssumption DEF Ids
<1>3. Decodable(n.id) /\ Desc[n.id].len <= MaxDescriptorBytes
  BY DEF Fit, WithinLimits
<1>4. Desc[n.id].len > PrefixLen
  <2>1. Desc[n.id].len >= MinDescriptorLen
    BY <1>3 DEF Decodable
  <2> QED
    BY <1>2, <2>1, PrefixLenAssumption, MinDescriptorLenAssumption
<1>5. WP!Valid[n] = Answer(n, \A i \in DOMAIN n.members : WP!Valid[n.members[i]])
  BY ZenonT(30), <1>1, ValidUnfolds DEF ValidPiece
<1>6. CASE n.kind = "Tensor"
  <2>1. ~ IsHead(n.id)
    BY <1>6 DEF Fit, WithinLimits
  <2>2. WP!validate_tensor(n)
    BY <1>5, <1>6 DEF Fit, Answer
  <2>3. FrameBuffers(n) = payloads_of(n)
    BY <1>6 DEF FrameBuffers
  <2>4. payloads_of(n) \in Seq(Seq(Byte)) /\ WP!Joined(payloads_of(n)) \in Seq(Byte)
    BY <1>1, ImageCases
  <2>5. DOMAIN n.slices = 1 .. Len(n.slices) /\ Len(n.slices) = Len(Desc[n.id].bufs)
    BY <1>1, <2>2 DEF WP!validate_tensor
  <2>6. Len(payloads_of(n)) = Len(n.slices)
    BY <2>4, <2>5 DEF payloads_of
  <2>7. ASSUME NEW i \in 1 .. Len(Desc[n.id].bufs)
        PROVE  Len(payloads_of(n)[i]) = Desc[n.id].bufs[i].size /\ ~ RP!Refused(Desc[n.id].bufs[i])
    <3>1. n.slices[i] = Desc[n.id].bufs[i].size /\ (CrossMachine => Desc[n.id].bufs[i].synced)
      BY <2>2, <2>5 DEF WP!validate_tensor
    <3>2. payloads_of(n)[i] = Payload(n.id, i, n.slices[i]) /\ n.slices[i] \in Nat
      BY <1>1, <2>5 DEF payloads_of
    <3>3. Len(payloads_of(n)[i]) = n.slices[i]
      BY <3>2 DEF Payload
    <3>4. Desc[n.id].bufs[i].size <= MaxBufferBytes /\ Desc[n.id].bufs[i].allocatable
      BY <1>2 DEF Fit, WithinLimits
    <3>5. ~ (Desc[n.id].bufs[i].size > MaxBufferBytes)
      BY <3>1, <3>2, <3>4, PipeBoundsAssumption
    <3> QED
      BY <3>1, <3>3, <3>4, <3>5 DEF RP!Refused
  <2> QED
    BY <1>1, <1>2, <1>3, <1>4, <1>6, <2>1, <2>3, <2>4, <2>5, <2>6, <2>7
<1>7. CASE n.kind # "Tensor"
  <2>1. LevelAccepted(Desc[n.id], MemberDescs(n))
    BY <1>5, <1>7 DEF Fit, Answer
  <2>2. IsHead(n.id)
    BY <2>1 DEF LevelAccepted, HeadAccepted, IsHead
  <2>3. Len(Desc[n.id].bufs) = 0
    BY <1>3, <2>2 DEF Decodable
  <2>4. FrameBuffers(n) = <<>> /\ Len(FrameBuffers(n)) = 0
    BY <1>7 DEF FrameBuffers
  <2>5. FrameBuffers(n) \in Seq(Seq(Byte))
    BY <2>4
  <2>6. WP!Joined(FrameBuffers(n)) \in Seq(Byte)
    BY ZenonT(30), <2>5, Instance, WP!JoinedType
  <2> QED
    BY <1>1, <1>2, <1>3, <1>4, <1>7, <2>2, <2>3, <2>4, <2>5, <2>6
<1> QED
  BY <1>6, <1>7

\* The bytes of a frame.
LEMMA FrameStarts ==
  ASSUME NEW n, Fit(n)
  PROVE  /\ encode(n.id) \in Seq(Byte) /\ Len(encode(n.id)) = Desc[n.id].len
         /\ FrameBytes(n) \in Seq(Byte) /\ Len(FrameBytes(n)) \in Nat
         /\ Len(FrameBytes(n)) >= Desc[n.id].len
         /\ \A k \in 1 .. Desc[n.id].len : FrameBytes(n)[k] = [id |-> n.id, part |-> 0, at |-> k]
<1>1. /\ n \in Nodes /\ Desc[n.id].len \in Nat /\ WP!Joined(FrameBuffers(n)) \in Seq(Byte)
  BY FitNode
<1>2. encode(n.id) \in Seq(Byte) /\ Len(encode(n.id)) = Desc[n.id].len
  BY <1>1, ImageCases
<1> DEFINE e == encode(n.id)
           f == WP!Joined(FrameBuffers(n))
<1>3. \A k \in 1 .. Desc[n.id].len : e[k] = [id |-> n.id, part |-> 0, at |-> k]
  BY DEF encode
<1> HIDE DEF e, f
<1>4. /\ e \o f \in Seq(Byte) /\ Len(e \o f) = Len(e) + Len(f) /\ Len(f) \in Nat
      /\ \A k \in 1 .. Len(e) : (e \o f)[k] = e[k]
  BY <1>1, <1>2 DEF e, f
<1>5. FrameBytes(n) = e \o f
  BY DEF FrameBytes, e, f
<1> QED
  BY <1>1, <1>2, <1>3, <1>4, <1>5 DEF e

\* An image starts with the frame; of a tensor it is the frame.
LEMMA ImageHasFrame ==
  ASSUME NEW n, Fit(n)
  PROVE  /\ n.kind = "Tensor" => WP!Encoded[n] = FrameBytes(n)
         /\ n.kind # "Tensor" => FrameBytes(n) = encode(n.id) /\ WP!Encoded[n] = FrameBytes(n) \o Rest(n.members, 1)
<1>1. n \in Nodes
  BY FitNode
<1>2. CASE n.kind = "Tensor"
  BY <1>1, <1>2, ImageCases DEF FrameBytes, FrameBuffers
<1>3. CASE n.kind # "Tensor"
  <2>1. FrameBuffers(n) = <<>> /\ FrameBuffers(n) \in Seq(Seq(Byte))
    BY <1>3 DEF FrameBuffers
  <2>2. WP!Joined(FrameBuffers(n)) = <<>>
    BY ZenonT(30), <2>1, Instance, WP!JoinedType
  <2>3. encode(n.id) \in Seq(Byte)
    BY <1>1, ImageCases
  <2>4. FrameBytes(n) = encode(n.id)
    BY <2>2, <2>3 DEF FrameBytes
  <2> QED
    BY <1>1, <1>3, <2>4, ImageCases
<1> QED
  BY <1>2, <1>3

\* F has the frame of n after its first x bytes.
AtFrame(n, F, x) == Fit(n) /\ Seg(F, x, x + Len(FrameBytes(n)), FrameBytes(n))

\* What the reader holds of it starts like the descriptor of n.
LEMMA HeldIsFrame ==
  ASSUME RP!FInv, NEW F, Len(F) \in Nat, NEW x, NEW n, AtFrame(n, F, x), Seg(F, x, pos, RP!Held)
  PROVE  /\ RP!Held \in Seq(Byte) /\ Len(RP!Held) \in Nat /\ RP!IInv /\ RP!TypeOK /\ RP!Assembling /\ RP!Staged
         /\ \A k \in 1 .. Desc[n.id].len : k <= Len(RP!Held) => RP!Held[k] = [id |-> n.id, part |-> 0, at |-> k]
<1>1. RP!IInv /\ RP!TypeOK /\ RP!Assembling /\ RP!Staged
  BY DEF RP!FInv, RP!IInv
<1>2. RP!Held \in Seq(Byte) /\ Len(RP!Held) \in Nat
  <2>1. RP!Held \in Seq(Byte)
    BY <1>1, Instance, SameBytes, RP!HeldType
  <2> QED
    BY <2>1
<1>3. \A k \in 1 .. Len(RP!Held) : F[x + k] = RP!Held[k]
  BY DEF Seg
<1>4. \A k \in 1 .. Len(FrameBytes(n)) : F[x + k] = FrameBytes(n)[k]
  BY DEF Seg, AtFrame
<1>5. /\ Desc[n.id].len \in Nat /\ Len(FrameBytes(n)) \in Nat /\ Len(FrameBytes(n)) >= Desc[n.id].len
      /\ \A k \in 1 .. Desc[n.id].len : FrameBytes(n)[k] = [id |-> n.id, part |-> 0, at |-> k]
  BY FitNode, FrameStarts DEF AtFrame
<1>6. ASSUME NEW k \in 1 .. Desc[n.id].len, k <= Len(RP!Held)
      PROVE  RP!Held[k] = [id |-> n.id, part |-> 0, at |-> k]
  <2>1. k \in 1 .. Len(RP!Held) /\ k \in 1 .. Len(FrameBytes(n))
    BY <1>2, <1>5, <1>6
  <2>2. F[x + k] = RP!Held[k] /\ F[x + k] = FrameBytes(n)[k] /\ FrameBytes(n)[k] = [id |-> n.id, part |-> 0, at |-> k]
    BY <1>3, <1>4, <1>5, <2>1
  <2> QED
    BY ONLY <2>2
<1> QED
  BY <1>1, <1>2, <1>6

\* Its first byte tells the node.
LEMMA HeldTells ==
  ASSUME RP!FInv, NEW F, Len(F) \in Nat, NEW x, NEW n, AtFrame(n, F, x), Seg(F, x, pos, RP!Held),
         Len(RP!Held) > 0
  PROVE  RP!Held[1].id = n.id
<1>1. Desc[n.id].len \in Nat /\ Desc[n.id].len > 0
  <2>1. Desc[n.id].len \in Nat /\ Desc[n.id].len > PrefixLen
    BY FitNode DEF AtFrame
  <2> QED
    BY <2>1, PrefixLenAssumption
<1>2. Len(RP!Held) \in Nat /\ \A k \in 1 .. Desc[n.id].len : k <= Len(RP!Held) => RP!Held[k] = [id |-> n.id, part |-> 0, at |-> k]
  BY HeldIsFrame
<1>3. 1 \in 1 .. Desc[n.id].len /\ 1 <= Len(RP!Held)
  BY <1>1, <1>2
<1>4. RP!Held[1] = [id |-> n.id, part |-> 0, at |-> 1]
  BY <1>2, <1>3
<1> QED
  BY <1>4

\* The prefix of it is accepted,
LEMMA PrefixGood ==
  ASSUME RP!FInv, NEW F, Len(F) \in Nat, NEW x, NEW n, AtFrame(n, F, x), Seg(F, x, pos, RP!Held),
         RP!StepPrefix
  PROVE  rstate' = "Descriptor"
<1>1. /\ RP!TypeOK /\ RP!Assembling /\ rstate = "Prefix" /\ RP!Held = rstaging
  BY HeldIsFrame DEF RP!StepPrefix, RP!Held, RP!InProgress
<1>2. Len(RP!Held) = PrefixLen
  BY <1>1 DEF RP!StepPrefix, RP!unfilled, RP!Filling, RP!Assembling, RP!TypeOK
<1>3. /\ Desc[n.id].len \in Nat /\ Desc[n.id].len > PrefixLen /\ Desc[n.id].len <= MaxDescriptorBytes
  BY FitNode DEF AtFrame
<1>4. \A k \in 1 .. PrefixLen : rstaging[k] = [id |-> n.id, part |-> 0, at |-> k]
  <2> SUFFICES ASSUME NEW k \in 1 .. PrefixLen PROVE rstaging[k] = [id |-> n.id, part |-> 0, at |-> k]
    OBVIOUS
  <2>1. k \in 1 .. Desc[n.id].len /\ k <= Len(RP!Held)
    BY <1>2, <1>3, PrefixLenAssumption
  <2> QED
    BY <1>1, <2>1, HeldIsFrame
<1>5. 1 \in 1 .. PrefixLen
  BY PrefixLenAssumption
<1>6. rstaging[1].id = n.id
  <2>1. rstaging[1] = [id |-> n.id, part |-> 0, at |-> 1]
    BY <1>4, <1>5
  <2> QED
    BY <2>1
<1>7. RP!Aligned(rstaging, PrefixLen)
  BY <1>4, <1>6 DEF RP!Aligned
<1>8. RP!descriptor_length = Desc[n.id].len
  BY <1>6, <1>7 DEF RP!descriptor_length
<1> QED
  BY <1>3, <1>8 DEF RP!StepPrefix

\* its buffers are,
LEMMA BuffersGood ==
  ASSUME NEW n, Fit(n), NEW bs \in Seq(Seq(Byte)), RP!BeginBuffers(n.id, bs)
  PROVE  rstate' \in {"TensorReady", "Buffer"}
<1>1. /\ Len(Desc[n.id].bufs) \in Nat
      /\ \A i \in 1 .. Len(Desc[n.id].bufs) : ~ RP!Refused(Desc[n.id].bufs[i])
  BY FitNode
<1>2. Len(bs) \in Nat
  OBVIOUS
<1>3. \A k \in RP!Stops(n.id, Len(bs) + 1) : ~ RP!Refused(Desc[n.id].bufs[k])
  BY <1>1, <1>2 DEF RP!Stops
<1> HIDE DEF RP!Refused, RP!Stops
<1> QED
  BY <1>3 DEF RP!BeginBuffers

\* and its descriptor is.
LEMMA DescriptorGood ==
  ASSUME RP!FInv, NEW F, Len(F) \in Nat, NEW x, NEW n, AtFrame(n, F, x), Seg(F, x, pos, RP!Held),
         RP!StepDescriptor
  PROVE  rstate' \in {"TensorReady", "Buffer"}
<1>1. /\ RP!TypeOK /\ RP!Assembling /\ RP!Staged /\ rstate = "Descriptor" /\ RP!Held = rstaging
  BY HeldIsFrame DEF RP!StepDescriptor, RP!Held, RP!InProgress
<1>2. /\ Len(RP!Held) = target /\ target = Desc[rstaging[1].id].len /\ target \in Nat /\ target > PrefixLen
  BY <1>1 DEF RP!StepDescriptor, RP!unfilled, RP!Filling, RP!Assembling, RP!TypeOK, RP!Staged
<1>3. rstaging[1].id = n.id
  <2>1. Len(RP!Held) > 0
    BY <1>2, PrefixLenAssumption
  <2> QED
    BY <1>1, <2>1, HeldTells
<1>4. Fit(n) /\ Desc[n.id].len \in Nat /\ Decodable(n.id)
  BY FitNode DEF AtFrame
<1>5. \A k \in 1 .. target : rstaging[k] = [id |-> n.id, part |-> 0, at |-> k]
  BY <1>1, <1>2, <1>3, HeldIsFrame
<1>6. RP!Aligned(rstaging, target) /\ RP!Decodable(rstaging[1].id)
  BY <1>3, <1>4, <1>5, SameReader DEF RP!Aligned
<1>7. RP!BeginBuffers(n.id, <<>>)
  BY <1>3, <1>6 DEF RP!StepDescriptor
<1> DEFINE bs == <<>>
<1>8. bs \in Seq(Seq(Byte)) /\ RP!BeginBuffers(n.id, bs)
  BY <1>7
<1> HIDE DEF bs
<1> QED
  BY <1>4, <1>8, BuffersGood

\* Where the parts of the frame lie.
LEMMA FrameParts ==
  ASSUME NEW F, Len(F) \in Nat, NEW x, NEW n, AtFrame(n, F, x)
  PROVE  Seg(F, x + Len(encode(n.id)), x + Len(FrameBytes(n)), WP!Joined(FrameBuffers(n)))
<1> DEFINE e == encode(n.id)
           f == WP!Joined(FrameBuffers(n))
           b == x + Len(FrameBytes(n))
<1>1. e \in Seq(Byte) /\ f \in Seq(Byte)
  BY FitNode, FrameStarts DEF AtFrame
<1>2. Seg(F, x, b, e \o f)
  BY DEF AtFrame, FrameBytes
<1> HIDE DEF e, f, b
<1>3. Seg(F, x + Len(e), b, f)
  BY <1>1, <1>2, SegSplit
<1> QED
  BY <1>3 DEF e, f, b

\* The buffers that follow the descriptor of n are those of n.
Agrees(bs, n) == \A i \in 1 .. Len(bs) : bs[i] = FrameBuffers(n)[i]

LEMMA BuffersAgree ==
  ASSUME NEW F, Len(F) \in Nat, NEW x, NEW n, AtFrame(n, F, x), NEW bs \in Seq(Seq(Byte)),
         Len(bs) <= Len(Desc[n.id].bufs), RP!Partial(n.id, bs), NEW t \in Seq(Byte), NEW y,
         Seg(F, x, y, (encode(n.id) \o WP!Joined(bs)) \o t)
  PROVE  \E z : /\ Seg(F, z, y, t) /\ z = x + Len(encode(n.id) \o WP!Joined(bs)) /\ x \in Nat
                /\ Seg(F, z, x + Len(FrameBytes(n)), WP!Suffix(FrameBuffers(n), Len(bs) + 1))
                /\ Agrees(bs, n)
<1> DEFINE e == encode(n.id)
           f == WP!Joined(bs)
           c == x + Len(FrameBytes(n))
<1>1. e \in Seq(Byte) /\ f \in Seq(Byte)
  <2>1. f \in Seq(Byte)
    BY Instance, WP!JoinedType
  <2> QED
    BY <2>1, FrameStarts DEF AtFrame
<1>2. Seg(F, x, y, (e \o f) \o t)
  OBVIOUS
<1>3. Seg(F, x + Len(e), c, WP!Joined(FrameBuffers(n)))
  BY FrameParts
<1>4. /\ FrameBuffers(n) \in Seq(Seq(Byte)) /\ Len(FrameBuffers(n)) = Len(Desc[n.id].bufs)
      /\ \A i \in 1 .. Len(Desc[n.id].bufs) : Len(FrameBuffers(n)[i]) = Desc[n.id].bufs[i].size
      /\ Len(Desc[n.id].bufs) \in Nat
  BY ZenonT(30), FitNode DEF AtFrame
<1> HIDE DEF e, f, c
<1>5. e \o f \in Seq(Byte) /\ Len(e \o f) = Len(e) + Len(f) /\ Len(e) \in Nat /\ Len(f) \in Nat
  BY <1>1
<1> DEFINE ef == e \o f
<1>6. Seg(F, x, x + Len(ef), ef) /\ Seg(F, x + Len(ef), y, t) /\ x \in Nat
  <2>1. ef \in Seq(Byte) /\ Seg(F, x, y, ef \o t)
    BY <1>2, <1>5
  <2> HIDE DEF ef
  <2> QED
    BY ZenonT(30), <2>1, SegSplit
<1>7. Seg(F, x + Len(e), x + Len(ef), f)
  <2>1. Seg(F, x, x + Len(ef), e \o f)
    BY <1>6
  <2> HIDE DEF ef
  <2> QED
    BY <1>1, <2>1, SegSplit
<1>8. \A i \in 1 .. Len(bs) : Len(bs[i]) = Len(FrameBuffers(n)[i])
  <2> SUFFICES ASSUME NEW i \in 1 .. Len(bs) PROVE Len(bs[i]) = Len(FrameBuffers(n)[i])
    OBVIOUS
  <2>1. i \in 1 .. Len(Desc[n.id].bufs)
    BY <1>4
  <2>2. Len(bs[i]) = Desc[n.id].bufs[i].size
    BY DEF RP!Partial
  <2> QED
    BY <1>4, <2>1, <2>2
<1> HIDE DEF ef
<1>9. /\ \A i \in 1 .. Len(bs) : bs[i] = FrameBuffers(n)[i]
      /\ Seg(F, x + Len(ef), c, WP!Suffix(FrameBuffers(n), Len(bs) + 1))
  <2>1. Len(bs) <= Len(FrameBuffers(n)) /\ Seg(F, x + Len(e), x + Len(ef), WP!Joined(bs))
    BY <1>4, <1>7 DEF f
  <2> QED
    BY <1>3, <1>4, <1>8, <2>1, SameFronts
<1>10. ef = encode(n.id) \o WP!Joined(bs) /\ c = x + Len(FrameBytes(n))
  BY DEF ef, e, f, c
<1>11. Agrees(bs, n)
  BY <1>9 DEF Agrees
<1> QED
  BY <1>6, <1>9, <1>10, <1>11

\* What the reader holds while it fills a buffer.
LEMMA BufferHeld ==
  ASSUME RP!FInv, NEW F, Len(F) \in Nat, NEW x, NEW n, AtFrame(n, F, x), Seg(F, x, pos, RP!Held),
         rstate = "Buffer"
  PROVE  /\ pending[1].id = n.id /\ pending[1].buffers \in Seq(Seq(Byte)) /\ dest \in Seq(Byte)
         /\ Len(pending[1].buffers) = rindex - 1 /\ rindex \in 1 .. Len(Desc[n.id].bufs)
         /\ RP!Partial(n.id, pending[1].buffers)
         /\ RP!Held = (encode(n.id) \o WP!Joined(pending[1].buffers)) \o dest
         /\ target = Desc[n.id].bufs[rindex].size /\ Len(dest) = filled
<1>1. RP!TypeOK /\ RP!Assembling /\ RP!Staged /\ RP!Held \in Seq(Byte)
  BY HeldIsFrame
<1>2. /\ Len(pending) = 1 /\ pending \in Seq(RP!Tensor) /\ pending # <<>>
      /\ Len(pending[1].buffers) = rindex - 1 /\ rindex \in 1 .. Len(Desc[pending[1].id].bufs)
      /\ RP!Partial(pending[1].id, pending[1].buffers)
      /\ target = Desc[pending[1].id].bufs[rindex].size /\ Len(dest) = filled /\ dest \in Seq(Byte)
      /\ rstaging = encode(pending[1].id)
  <2>1. pending \in Seq(RP!Tensor) /\ dest \in Seq(Byte)
    BY <1>1, SameBytes DEF RP!TypeOK
  <2>2. /\ Len(pending) = 1 /\ Len(pending[1].buffers) = rindex - 1
        /\ rindex \in 1 .. Len(Desc[pending[1].id].bufs)
        /\ RP!Partial(pending[1].id, pending[1].buffers)
        /\ target = Desc[pending[1].id].bufs[rindex].size /\ Len(dest) = filled
    BY <1>1 DEF RP!Assembling
  <2>3. rstaging = encode(pending[1].id)
    <3>1. rstaging = RP!encode(pending[1].id)
      BY <1>1 DEF RP!Staged
    <3> QED
      BY <3>1, SameBytes
  <2>4. pending # <<>>
    <3>1. Len(pending) = 1
      BY <2>2
    <3> QED
      BY ONLY <3>1
  <2> QED
    BY <2>1, <2>2, <2>3, <2>4
<1>3. pending[1] \in RP!Tensor
  BY <1>2
<1>4. pending[1].id \in Ids /\ pending[1].buffers \in Seq(Seq(Byte))
  BY <1>3, SameBytes DEF RP!Tensor
<1>5. RP!Held = (encode(pending[1].id) \o WP!Joined(pending[1].buffers)) \o dest
  BY <1>2, SameBytes DEF RP!Held, RP!InProgress
<1>6. encode(pending[1].id) \in Seq(Byte) /\ Len(encode(pending[1].id)) = Desc[pending[1].id].len
      /\ Desc[pending[1].id].len > 0 /\ Desc[pending[1].id].len \in Nat
  <2>1. RP!encode(pending[1].id) \in Seq(RP!Byte) /\ Len(RP!encode(pending[1].id)) = Desc[pending[1].id].len
    BY <1>4, Instance, SameBytes, RP!ImageType
  <2> QED
    BY <1>4, <2>1, SameBytes, PipeLengthAssumption, DescAssumption DEF Ids
<1>7. encode(pending[1].id)[1].id = pending[1].id
  <2>1. 1 \in 1 .. Desc[pending[1].id].len
    BY <1>6
  <2> QED
    BY <2>1 DEF encode
<1>8. WP!Joined(pending[1].buffers) \in Seq(Byte)
  BY ZenonT(30), <1>4, Instance, WP!JoinedType
<1>9. RP!Held[1] = encode(pending[1].id)[1] /\ Len(RP!Held) > 0
  <2> DEFINE e == encode(pending[1].id)
             f == WP!Joined(pending[1].buffers)
  <2>1. e \in Seq(Byte) /\ f \in Seq(Byte) /\ dest \in Seq(Byte) /\ Len(e) > 0
    BY <1>2, <1>6, <1>8
  <2>2. RP!Held = (e \o f) \o dest
    BY <1>5
  <2> HIDE DEF e, f
  <2>3. 1 \in 1 .. Len(e) /\ (e \o f) \in Seq(Byte) /\ Len(e \o f) = Len(e) + Len(f) /\ Len(f) \in Nat
    BY <2>1
  <2>4. (e \o f)[1] = e[1]
    BY <2>1, <2>3
  <2>5. ((e \o f) \o dest)[1] = (e \o f)[1] /\ Len((e \o f) \o dest) = Len(e \o f) + Len(dest) /\ Len(dest) \in Nat
    <3> DEFINE g == e \o f
    <3>1. g \in Seq(Byte) /\ 1 \in 1 .. Len(g)
      BY <2>1, <2>3
    <3> HIDE DEF g
    <3>2. (g \o dest)[1] = g[1] /\ Len(g \o dest) = Len(g) + Len(dest) /\ Len(dest) \in Nat
      BY <2>1, <3>1
    <3> QED
      BY <3>2 DEF g
  <2> QED
    BY <2>1, <2>2, <2>3, <2>4, <2>5 DEF e
<1>10. pending[1].id = n.id
  BY <1>7, <1>9, HeldTells
<1> QED
  BY <1>2, <1>4, <1>5, <1>10

\* A full buffer is followed by good ones.
LEMMA BufferGood ==
  ASSUME RP!FInv, NEW F, Len(F) \in Nat, NEW x, NEW n, AtFrame(n, F, x), Seg(F, x, pos, RP!Held),
         RP!StepBuffer
  PROVE  rstate' \in {"TensorReady", "Buffer"}
<1>1. rstate = "Buffer"
  BY DEF RP!StepBuffer
<1>2. pending[1].id = n.id /\ pending[1].buffers \in Seq(Seq(Byte)) /\ dest \in Seq(Byte)
  BY <1>1, BufferHeld
<1> DEFINE bs == Append(pending[1].buffers, dest)
<1>3. bs \in Seq(Seq(Byte)) /\ RP!BeginBuffers(n.id, bs)
  <2>1. RP!BeginBuffers(pending[1].id, bs)
    BY DEF RP!StepBuffer
  <2> QED
    BY <1>2, <2>1
<1> HIDE DEF bs
<1> QED
  BY <1>3, BuffersGood DEF AtFrame

\* A frame that wants bytes is not whole.
LEMMA FrameUnfinished ==
  ASSUME RP!FInv, NEW F, Len(F) \in Nat, NEW x, NEW n, AtFrame(n, F, x), Seg(F, x, pos, RP!Held),
         RP!Filling, RP!unfilled > 0
  PROVE  pos < x + Len(FrameBytes(n))
<1>1. RP!TypeOK /\ RP!Assembling /\ RP!Staged /\ RP!Held \in Seq(Byte) /\ Len(RP!Held) \in Nat
  BY HeldIsFrame
<1>2. pos = x + Len(RP!Held) /\ x \in Nat
  BY DEF Seg
<1>3. filled \in Nat /\ target \in Nat /\ filled < target
  BY <1>1 DEF RP!TypeOK, RP!unfilled
<1>4. Desc[n.id].len \in Nat /\ Desc[n.id].len > PrefixLen /\ PrefixLen \in Nat
  BY FitNode, PrefixLenAssumption DEF AtFrame
<1>5. Len(FrameBytes(n)) \in Nat /\ Len(FrameBytes(n)) >= Desc[n.id].len
  BY FrameStarts DEF AtFrame
<1>6. CASE rstate = "Prefix"
  <2>1. Len(RP!Held) = filled /\ target = PrefixLen
    BY <1>1, <1>6 DEF RP!Assembling, RP!Held, RP!InProgress
  <2> QED
    BY <1>2, <1>3, <1>4, <1>5, <2>1
<1>7. CASE rstate = "Descriptor"
  <2>1. Len(RP!Held) = filled /\ target = Desc[rstaging[1].id].len /\ Len(rstaging) >= PrefixLen /\ RP!Held = rstaging
    BY <1>1, <1>7 DEF RP!Assembling, RP!Staged, RP!Held, RP!InProgress
  <2>2. Len(RP!Held) > 0
    BY <1>1, <2>1, PrefixLenAssumption
  <2>3. target = Desc[n.id].len
    BY <2>1, <2>2, HeldTells
  <2> QED
    BY <1>2, <1>3, <1>4, <1>5, <2>1, <2>3
<1>8. CASE rstate = "Buffer"
  <2> DEFINE bs == pending[1].buffers
             t == FrameBuffers(n)
             s == encode(n.id) \o WP!Joined(bs)
             c == x + Len(FrameBytes(n))
  <2>1. /\ bs \in Seq(Seq(Byte)) /\ dest \in Seq(Byte) /\ Len(bs) = rindex - 1
        /\ rindex \in 1 .. Len(Desc[n.id].bufs) /\ RP!Partial(n.id, bs)
        /\ RP!Held = s \o dest /\ target = Desc[n.id].bufs[rindex].size /\ Len(dest) = filled
    BY <1>8, BufferHeld
  <2>2. /\ t \in Seq(Seq(Byte)) /\ Len(t) = Len(Desc[n.id].bufs) /\ Len(t) \in Nat
        /\ \A i \in 1 .. Len(Desc[n.id].bufs) : Len(t[i]) = Desc[n.id].bufs[i].size
    BY ZenonT(30), FitNode DEF AtFrame
  <2>3. Len(bs) \in Nat /\ Len(bs) <= Len(Desc[n.id].bufs) /\ rindex \in 1 .. Len(t) /\ rindex \in Nat
    BY <2>1, <2>2
  <2> HIDE DEF bs, t, c
  <2>4. Seg(F, x, pos, (encode(n.id) \o WP!Joined(bs)) \o dest)
    BY <2>1
  <2>5. PICK z : /\ Seg(F, z, pos, dest)
                 /\ Seg(F, z, x + Len(FrameBytes(n)), WP!Suffix(FrameBuffers(n), Len(bs) + 1))
    BY ZenonT(30), <2>1, <2>3, <2>4, BuffersAgree
  <2>6. t[rindex] \in Seq(Byte) /\ WP!Suffix(t, rindex) = t[rindex] \o WP!Suffix(t, rindex + 1)
    BY ZenonT(30), <2>2, <2>3, Instance, WP!SuffixStep
  <2>7. WP!Suffix(t, rindex + 1) \in Seq(Byte)
    <3>1. rindex + 1 \in 1 .. Len(t) + 1
      BY <2>2, <2>3
    <3> QED
      BY <2>2, <3>1, Instance, WP!SuffixType
  <2>8. Len(t[rindex]) = target /\ Len(bs) + 1 = rindex
    BY <2>1, <2>2, <2>3
  <2> DEFINE u == WP!Suffix(t, rindex + 1)
             h == t[rindex]
  <2>9. h \in Seq(Byte) /\ u \in Seq(Byte) /\ Seg(F, z, c, h \o u) /\ Len(h) = target
    BY <2>5, <2>6, <2>7, <2>8 DEF t, c
  <2> HIDE DEF u, h, s
  <2>10. Len(h \o u) = Len(h) + Len(u) /\ Len(u) \in Nat
    BY <2>9
  <2>11. z \in Nat /\ c = z + Len(h \o u) /\ pos = z + Len(dest)
    BY <2>5, <2>9 DEF Seg
  <2>12. pos < c
    <3>1. Len(dest) = filled
      BY <2>1
    <3>2. Len(h) = target
      BY <2>9
    <3> QED
      BY ONLY <1>3, <2>10, <2>11, <3>1, <3>2
  <2> QED
    BY <2>12 DEF c
<1> QED
  BY <1>6, <1>7, <1>8 DEF RP!Filling

\* A tensor that is ready is the frame.
FrameTensor(n) == [id |-> n.id, buffers |-> FrameBuffers(n)]

LEMMA ReadyIsFrame ==
  ASSUME RP!FInv, NEW F, Len(F) \in Nat, NEW x, NEW n, AtFrame(n, F, x), Seg(F, x, pos, RP!Held),
         rstate = "TensorReady"
  PROVE  /\ ready = <<FrameTensor(n)>> /\ ready[1] = FrameTensor(n) /\ FrameTensor(n) \in RP!Tensor
         /\ RP!Image(ready[1]) = FrameBytes(n)
<1>1. RP!TypeOK /\ RP!Assembling /\ RP!Staged /\ RP!IInv /\ RP!Held \in Seq(Byte)
  BY HeldIsFrame
<1>2. ready \in Seq(RP!Tensor) /\ Len(ready) = 1
  BY <1>1 DEF RP!TypeOK, RP!Assembling
<1>3. ready # <<>> /\ ready[1] \in RP!Tensor /\ ready = <<ready[1]>>
  BY <1>2, Instance, RP!Single
<1> DEFINE t == ready[1]
           bs == t.buffers
<1>4. t.id \in Ids /\ bs \in Seq(Seq(Byte)) /\ t = [id |-> t.id, buffers |-> bs]
  BY <1>3, SameBytes DEF RP!Tensor
<1>5. Len(bs) = Len(Desc[t.id].bufs) /\ \A i \in DOMAIN bs : Len(bs[i]) = Desc[t.id].bufs[i].size
  BY <1>1, <1>3 DEF RP!IInv, RP!OnlyWholeTensors, RP!Whole
<1>6. RP!Held = encode(t.id) \o WP!Joined(bs)
  <2>1. RP!Images(<<ready[1]>>) = RP!Image(ready[1])
    BY <1>3, Instance, RP!ImagesOfOne
  <2>2. RP!Held = RP!Images(ready)
    BY DEF RP!Held
  <2> QED
    BY ZenonT(30), <1>3, <2>1, <2>2, SameReader
<1>7. encode(t.id) \in Seq(Byte) /\ Len(encode(t.id)) = Desc[t.id].len
      /\ Desc[t.id].len > 0 /\ Desc[t.id].len \in Nat
  <2>1. RP!encode(t.id) \in Seq(RP!Byte) /\ Len(RP!encode(t.id)) = Desc[t.id].len
    BY ZenonT(30), <1>4, Instance, SameBytes, RP!ImageType
  <2> QED
    BY <1>4, <2>1, SameBytes, PipeLengthAssumption, DescAssumption DEF Ids
<1>8. encode(t.id)[1].id = t.id
  <2>1. 1 \in 1 .. Desc[t.id].len
    BY <1>7
  <2> QED
    BY <2>1 DEF encode
<1>9. WP!Joined(bs) \in Seq(Byte)
  BY ZenonT(30), <1>4, Instance, WP!JoinedType
<1> HIDE DEF t, bs
<1>10. RP!Held[1] = encode(t.id)[1] /\ Len(RP!Held) > 0
  <2> DEFINE e == encode(t.id)
             f == WP!Joined(bs)
  <2>1. e \in Seq(Byte) /\ f \in Seq(Byte) /\ Len(e) > 0 /\ RP!Held = e \o f
    BY <1>6, <1>7, <1>9
  <2> HIDE DEF e, f
  <2>2. (e \o f)[1] = e[1] /\ Len(e \o f) = Len(e) + Len(f) /\ Len(f) \in Nat
    BY <2>1
  <2> QED
    BY <2>1, <2>2 DEF e
<1>11. t.id = n.id
  BY <1>8, <1>10, HeldTells
<1>12. Len(bs) = Len(Desc[n.id].bufs) /\ RP!Partial(n.id, bs) /\ Len(bs) \in Nat
  BY <1>4, <1>5, <1>11 DEF RP!Partial
<1> DEFINE none == <<>>
<1>13. Seg(F, x, pos, (encode(n.id) \o WP!Joined(bs)) \o none) /\ none \in Seq(Byte)
  <2>1. (encode(n.id) \o WP!Joined(bs)) \o <<>> = encode(n.id) \o WP!Joined(bs)
    <3>1. encode(n.id) \o WP!Joined(bs) \in Seq(Byte)
      BY <1>1, <1>6, <1>11
    <3> QED
      BY <3>1, Instance, WP!CatEmpty
  <2> QED
    BY <1>6, <1>11, <2>1
<1> HIDE DEF none
<1>14. \A i \in 1 .. Len(bs) : bs[i] = FrameBuffers(n)[i]
  <2>1. Len(bs) <= Len(Desc[n.id].bufs)
    BY <1>12
  <2>2. bs \in Seq(Seq(Byte)) /\ RP!Partial(n.id, bs)
    BY <1>4, <1>12
  <2>3. \E z : Seg(F, z, pos, none) /\ Agrees(bs, n)
    BY <1>13, <2>1, <2>2, BuffersAgree
  <2> QED
    BY <2>3 DEF Agrees
<1>15. FrameBuffers(n) \in Seq(Seq(Byte)) /\ Len(FrameBuffers(n)) = Len(Desc[n.id].bufs)
  BY FitNode DEF AtFrame
<1>16. bs = FrameBuffers(n)
  <2> DEFINE fb == FrameBuffers(n)
  <2>1. fb \in Seq(Seq(Byte)) /\ bs \in Seq(Seq(Byte)) /\ Len(bs) = Len(fb)
    BY <1>4, <1>12, <1>15
  <2>2. \A i \in 1 .. Len(bs) : bs[i] = fb[i]
    BY <1>14
  <2> HIDE DEF fb
  <2>3. DOMAIN bs = 1 .. Len(bs) /\ DOMAIN fb = 1 .. Len(bs)
    BY ONLY <2>1
  <2>4. bs = [i \in DOMAIN bs |-> bs[i]] /\ fb = [i \in DOMAIN fb |-> fb[i]]
    <3>1. bs \in [1 .. Len(bs) -> Seq(Byte)] /\ fb \in [1 .. Len(fb) -> Seq(Byte)]
      BY ONLY <2>1
    <3> QED
      BY ONLY <3>1
  <2>5. bs = fb
    BY ONLY <2>2, <2>3, <2>4
  <2> QED
    BY <2>5 DEF fb
<1>17. t = FrameTensor(n)
  BY <1>4, <1>11, <1>16 DEF FrameTensor
<1>18. RP!Image(ready[1]) = FrameBytes(n)
  BY ZenonT(30), <1>11, <1>16, SameReader DEF t, bs, FrameBytes
<1> QED
  BY <1>3, <1>17, <1>18 DEF t
-----------------------------------------------------------------------------
(***************************************************************************)
(* Where the assembler is among the nodes sent: D heads are open, p[k] is  *)
(* the node of the k-th, c[k] counts the members it has, c[0] the items    *)
(* returned.                                                               *)
(***************************************************************************)

\* A height of every node that bounds the heads above each other within it.
Heights(h) ==
  /\ h \in [Nodes -> 0 .. MaxDepth]
  /\ \A n \in Nodes : \A i \in DOMAIN n.members : h[n.members[i]] < h[n]
Height == CHOOSE h : Heights(h)

\* The nodes of level k: those sent, or the members of the k-th open head.
Level(S, p, k) == IF k = 0 THEN S ELSE p[k].members

\* What the assembler makes of the first i nodes of ms, and of n when it has i members.
ItemsOf(ms, i) == [j \in 1 .. i |-> ItemOf[ms[j]]]
OpenHead(n, i) ==
  [id |-> n.id, members |-> ItemsOf(n.members, i), v |-> Seen(Desc[n.id], MemberDescs(n), i)]

\* The k-th open head is the next node of the level below it, and wants members.
OnPath(S, p, c, k) ==
  /\ p[k].kind = "Composite" /\ WP!Valid[p[k]] /\ Height[p[k]] + k <= MaxDepth + 1
  /\ c[k] < Len(p[k].members)
  /\ c[k - 1] < Len(Level(S, p, k - 1)) /\ p[k] = Level(S, p, k - 1)[c[k - 1] + 1]
Path(S, D, p, c) ==
  /\ D \in Nat /\ p \in [1 .. D -> Nodes] /\ c \in [0 .. D -> Nat] /\ c[0] <= Len(S)
  /\ \A k \in 1 .. D : OnPath(S, p, c, k)

\* The level of the nodes from which on nothing of level k has been read.
After(D, c, k) == IF k = D THEN c[k] + 1 ELSE c[k] + 2

\* From byte x on lie the images of the nodes that are left, innermost level first; those
\* of level k end at b[k].
Laid(S, D, p, c, b, x) ==
  /\ b \in [0 .. D + 1 -> Nat] /\ b[0] = Len(Rest(S, 1)) /\ b[D + 1] = x
  /\ \A k \in 0 .. D : Seg(Rest(S, 1), b[k + 1], b[k], Rest(Level(S, p, k), After(D, c, k)))

Heads(D, p, c) == [k \in 1 .. D |-> OpenHead(p[k], c[k])]
Cursor(S, x, st, out) ==
  \E D, p, c, b : /\ Path(S, D, p, c) /\ Laid(S, D, p, c, b, x)
                  /\ st = Heads(D, p, c) /\ out = ItemsOf(S, c[0])

LEMMA HeightExists == NodesWithinLimits => Heights(Height)
<1> SUFFICES ASSUME NodesWithinLimits PROVE Heights(Height)
  OBVIOUS
<1>1. \E h : Heights(h)
  BY DEF NodesWithinLimits, Heights
<1> QED
  BY <1>1 DEF Height

\* The answer of the writer for a composite covers its members.
LEMMA ValidMembers ==
  ASSUME NEW n \in Nodes, WP!Valid[n], n.kind = "Composite"
  PROVE  /\ n.members \in Seq(Nodes) /\ Len(n.members) \in Nat
         /\ \A i \in 1 .. Len(n.members) : n.members[i] \in Nodes /\ WP!Valid[n.members[i]]
         /\ LevelAccepted(Desc[n.id], MemberDescs(n))
<1>1. n.members \in Seq(Nodes)
  BY PipeNodesAssumption
<1>2. DOMAIN n.members = 1 .. Len(n.members) /\ Len(n.members) \in Nat
  BY <1>1
<1>3. WP!Valid[n] = ValidPiece(WP!Valid, n) /\ n.kind # "Tensor"
  BY ValidUnfolds
<1>4. ValidPiece(WP!Valid, n)
  BY <1>3
<1>5. /\ LevelAccepted(Desc[n.id], MemberDescs(n))
      /\ \A i \in DOMAIN n.members : WP!Valid[n.members[i]]
  BY ONLY <1>3, <1>4 DEF ValidPiece, Answer
<1>6. \A i \in 1 .. Len(n.members) : n.members[i] \in Nodes
  BY <1>1
<1> QED
  BY <1>1, <1>2, <1>5, <1>6

\* The levels of the path.
LEMMA PathLevel ==
  ASSUME Heights(Height), NEW S \in Seq(Nodes), AllValid(S), NEW D, NEW p, NEW c, Path(S, D, p, c),
         NEW k \in 0 .. D
  PROVE  /\ Level(S, p, k) \in Seq(Nodes) /\ Len(Level(S, p, k)) \in Nat /\ c[k] \in Nat
         /\ c[k] <= Len(Level(S, p, k)) /\ (k < D \/ D > 0 => c[k] < Len(Level(S, p, k)))
         /\ \A i \in 1 .. Len(Level(S, p, k)) :
              /\ Level(S, p, k)[i] \in Nodes /\ WP!Valid[Level(S, p, k)[i]]
              /\ Height[Level(S, p, k)[i]] \in 0 .. MaxDepth
              /\ Height[Level(S, p, k)[i]] + k <= MaxDepth
<1>1. D \in Nat /\ k \in Nat /\ c[k] \in Nat /\ k <= D /\ c[0] <= Len(S) /\ MaxDepth \in Nat
  BY PipeBoundsAssumption DEF Path
<1>2. \A j \in 1 .. D : OnPath(S, p, c, j)
  BY DEF Path
<1>3. k < D => c[k] < Len(Level(S, p, k))
  <2> SUFFICES ASSUME k < D PROVE c[k] < Len(Level(S, p, k))
    OBVIOUS
  <2>1. k + 1 \in 1 .. D /\ (k + 1) - 1 = k
    BY <1>1
  <2>2. OnPath(S, p, c, k + 1)
    BY <1>2, <2>1
  <2>3. c[(k + 1) - 1] < Len(Level(S, p, (k + 1) - 1))
    BY <2>2 DEF OnPath
  <2> QED
    BY <2>1, <2>3
<1>4. CASE k = 0
  <2>1. Level(S, p, k) = S
    BY <1>4 DEF Level
  <2>2. \A i \in 1 .. Len(S) : S[i] \in Nodes /\ WP!Valid[S[i]]
    BY DEF AllValid
  <2>3. \A i \in 1 .. Len(S) : Height[S[i]] \in 0 .. MaxDepth /\ Height[S[i]] + k <= MaxDepth
    <3> SUFFICES ASSUME NEW i \in 1 .. Len(S)
                 PROVE  Height[S[i]] \in 0 .. MaxDepth /\ Height[S[i]] + k <= MaxDepth
      OBVIOUS
    <3>1. S[i] \in Nodes
      BY <2>2
    <3>2. Height[S[i]] \in 0 .. MaxDepth
      BY <3>1 DEF Heights
    <3> QED
      BY ONLY <1>1, <1>4, <3>2
  <2>4. Len(S) \in Nat
    OBVIOUS
  <2>5. D > 0 => c[k] < Len(S)
    BY <1>1, <1>3, <1>4, <2>1
  <2> QED
    BY <1>1, <1>3, <1>4, <2>1, <2>2, <2>3, <2>4, <2>5
<1>5. CASE k # 0
  <2>1. k \in 1 .. D /\ Level(S, p, k) = p[k].members
    BY <1>1, <1>5 DEF Level
  <2>2. p[k] \in Nodes
    BY <2>1 DEF Path
  <2>3. /\ p[k].kind = "Composite" /\ WP!Valid[p[k]] /\ Height[p[k]] + k <= MaxDepth + 1
        /\ c[k] < Len(p[k].members)
    BY <1>2, <2>1 DEF OnPath
  <2>4. /\ p[k].members \in Seq(Nodes) /\ Len(p[k].members) \in Nat
        /\ \A i \in 1 .. Len(p[k].members) : p[k].members[i] \in Nodes /\ WP!Valid[p[k].members[i]]
    BY <2>2, <2>3, ValidMembers
  <2>5. ASSUME NEW i \in 1 .. Len(p[k].members)
        PROVE  Height[p[k].members[i]] \in 0 .. MaxDepth /\ Height[p[k].members[i]] + k <= MaxDepth
    <3>1. i \in DOMAIN p[k].members /\ p[k].members[i] \in Nodes
      BY <2>4
    <3>2. /\ Height[p[k].members[i]] \in 0 .. MaxDepth /\ Height[p[k]] \in 0 .. MaxDepth
          /\ Height[p[k].members[i]] < Height[p[k]]
      BY <2>2, <3>1 DEF Heights
    <3> QED
      BY ONLY <1>1, <2>3, <3>2
  <2>6. c[k] <= Len(p[k].members)
    BY <1>1, <2>3, <2>4
  <2> QED
    BY <1>1, <2>1, <2>3, <2>4, <2>5, <2>6
<1> QED
  BY <1>4, <1>5

\* All that was sent has been read when no head is open and every item was returned.
LEMMA AllRead ==
  ASSUME NEW S \in Seq(Nodes), NEW D, NEW p, NEW c, Path(S, D, p, c), NEW b, NEW x, Laid(S, D, p, c, b, x),
         D = 0, c[0] = Len(S)
  PROVE  x = Len(Rest(S, 1))
<1>1. Seg(Rest(S, 1), b[1], b[0], Rest(S, Len(S) + 1)) /\ b[0] = Len(Rest(S, 1)) /\ b[1] = x
  <2>1. 0 \in 0 .. D /\ Level(S, p, 0) = S /\ After(D, c, 0) = Len(S) + 1 /\ 0 + 1 = 1 /\ D + 1 = 1
    BY DEF Level, After
  <2>2. Seg(Rest(S, 1), b[0 + 1], b[0], Rest(Level(S, p, 0), After(D, c, 0)))
    BY <2>1 DEF Laid
  <2>3. b[0] = Len(Rest(S, 1)) /\ b[D + 1] = x
    BY DEF Laid
  <2> QED
    BY <2>1, <2>2, <2>3
<1>2. Rest(S, Len(S) + 1) = <<>>
  <2>1. Len(S) + 1 \in 1 .. Len(S) + 1
    <3>1. Len(S) \in Nat
      OBVIOUS
    <3> QED
      BY <3>1
  <2> QED
    BY <2>1, RestCases
<1>3. Len(Rest(S, Len(S) + 1)) = 0
  BY <1>2
<1>4. b[0] = b[1] + Len(Rest(S, Len(S) + 1)) /\ b[1] \in Nat
  BY <1>1 DEF Seg
<1> QED
  BY <1>1, <1>3, <1>4

\* The next node, and where its frame and its image lie.
Next1(S, D, p, c) == Level(S, p, D)[c[D] + 1]

LEMMA NextNode ==
  ASSUME Heights(Height), \A n \in Nodes : WithinLimits(n), NEW S \in Seq(Nodes), AllValid(S),
         NEW D, NEW p, NEW c, Path(S, D, p, c), NEW b, NEW x, Laid(S, D, p, c, b, x),
         D > 0 \/ c[0] < Len(S), NEW n, n = Next1(S, D, p, c)
  PROVE  /\ n \in Nodes /\ c[D] < Len(Level(S, p, D)) /\ c[D] \in Nat /\ D \in Nat
         /\ Height[n] \in 0 .. MaxDepth /\ Height[n] + D <= MaxDepth
         /\ AtFrame(n, Rest(S, 1), x) /\ WP!Encoded[n] \in Seq(Byte)
         /\ Seg(Rest(S, 1), x, x + Len(WP!Encoded[n]), WP!Encoded[n])
         /\ Seg(Rest(S, 1), x + Len(WP!Encoded[n]), b[D], Rest(Level(S, p, D), c[D] + 2))
         /\ n.kind = "Composite" =>
              Seg(Rest(S, 1), x + Len(FrameBytes(n)), x + Len(WP!Encoded[n]), Rest(n.members, 1))
<1> DEFINE ms == Level(S, p, D)
           F == Rest(S, 1)
<1>1. D \in Nat /\ D \in 0 .. D
  BY DEF Path
<1>2. /\ ms \in Seq(Nodes) /\ Len(ms) \in Nat /\ c[D] \in Nat /\ (D > 0 => c[D] < Len(ms))
      /\ \A i \in 1 .. Len(ms) :
           ms[i] \in Nodes /\ WP!Valid[ms[i]] /\ Height[ms[i]] \in 0 .. MaxDepth /\ Height[ms[i]] + D <= MaxDepth
  BY <1>1, PathLevel
<1>3. c[D] < Len(ms)
  <2>1. D = 0 => ms = S
    BY DEF Level
  <2>2. D > 0 \/ D = 0
    BY <1>1
  <2> QED
    BY <1>2, <2>1, <2>2
<1>4. Seg(F, x, b[D], Rest(ms, c[D] + 1))
  <2>1. Seg(F, b[D + 1], b[D], Rest(Level(S, p, D), After(D, c, D))) /\ b[D + 1] = x
    BY <1>1 DEF Laid
  <2> QED
    BY <2>1 DEF After
<1>5. Len(F) \in Nat
  <2>1. 1 \in 1 .. Len(S) + 1
    <3>1. Len(S) \in Nat
      OBVIOUS
    <3> QED
      BY <3>1
  <2>2. F \in Seq(Byte)
    BY <2>1, RestCases
  <2> QED
    BY <2>2
<1>6. n = ms[c[D] + 1]
  BY DEF Next1
<1> HIDE DEF ms, F
<1>7. c[D] + 1 \in 1 .. Len(ms) /\ c[D] + 1 \in 1 .. Len(ms) + 1 /\ (c[D] + 1) + 1 = c[D] + 2
  BY <1>2, <1>3
<1>8. /\ n \in Nodes /\ WP!Valid[n] /\ Height[n] \in 0 .. MaxDepth /\ Height[n] + D <= MaxDepth
  BY <1>2, <1>6, <1>7
<1> DEFINE e == WP!Encoded[n]
           r == Rest(ms, c[D] + 2)
<1>9. e \in Seq(Byte) /\ r \in Seq(Byte) /\ Rest(ms, c[D] + 1) = e \o r
  <2>1. /\ WP!Encoded[ms[c[D] + 1]] \in Seq(Byte) /\ Rest(ms, (c[D] + 1) + 1) \in Seq(Byte)
        /\ Rest(ms, c[D] + 1) = WP!Encoded[ms[c[D] + 1]] \o Rest(ms, (c[D] + 1) + 1)
    <3> DEFINE i == c[D] + 1
    <3>1. i \in 1 .. Len(ms) + 1 /\ i <= Len(ms)
      BY <1>2, <1>7
    <3> HIDE DEF i
    <3>2. /\ WP!Encoded[ms[i]] \in Seq(Byte) /\ Rest(ms, i + 1) \in Seq(Byte)
          /\ Rest(ms, i) = WP!Encoded[ms[i]] \o Rest(ms, i + 1)
      BY <1>2, <3>1, RestCases
    <3> QED
      BY <3>2 DEF i
  <2> QED
    BY <1>6, <1>7, <2>1
<1> HIDE DEF e, r
<1>10. Seg(F, x, x + Len(e), e) /\ Seg(F, x + Len(e), b[D], r) /\ Len(e) \in Nat
  <2>1. Seg(F, x, b[D], e \o r)
    BY <1>4, <1>9
  <2> QED
    BY <1>5, <1>9, <2>1, SegSplit
<1>11. Fit(n)
  BY <1>8 DEF Fit
<1>12. n.kind = "Composite" \/ n.kind = "Tensor"
  BY <1>11, FitNode
<1>13. CASE n.kind = "Tensor"
  <2>1. e = FrameBytes(n)
    BY <1>11, <1>13, ImageHasFrame DEF e
  <2>2. AtFrame(n, F, x)
    BY <1>10, <1>11, <2>1 DEF AtFrame
  <2> QED
    BY <1>1, <1>2, <1>3, <1>8, <1>9, <1>10, <1>13, <2>2 DEF ms, F, e, r
<1>14. CASE n.kind = "Composite"
  <2> DEFINE f == FrameBytes(n)
             m == Rest(n.members, 1)
  <2>1. e = f \o m
    BY <1>11, <1>14, ImageHasFrame DEF e
  <2>2. f \in Seq(Byte)
    BY <1>11, FrameStarts
  <2>3. m \in Seq(Byte)
    <3>1. n.members \in Seq(Nodes) /\ Len(n.members) \in Nat
      BY <1>8, <1>14, ValidMembers
    <3>2. 1 \in 1 .. Len(n.members) + 1
      BY <3>1
    <3> QED
      BY <3>1, <3>2, RestCases
  <2> HIDE DEF f, m
  <2>4. Seg(F, x, x + Len(f), f) /\ Seg(F, x + Len(f), x + Len(e), m)
    <3> DEFINE y == x + Len(e)
    <3>1. Seg(F, x, y, f \o m)
      BY <1>10, <2>1
    <3> HIDE DEF y
    <3>2. Seg(F, x, x + Len(f), f) /\ Seg(F, x + Len(f), y, m)
      BY <1>5, <2>2, <2>3, <3>1, SegSplit
    <3> QED
      BY <3>2 DEF y
  <2>5. AtFrame(n, F, x)
    BY <1>11, <2>4 DEF AtFrame, f
  <2> QED
    BY <1>1, <1>2, <1>3, <1>8, <1>9, <1>10, <2>4, <2>5 DEF ms, F, e, r, f, m
<1> QED
  BY <1>12, <1>13, <1>14

\* A head that is next opens.
PathWith(D, p, n) == [k \in 1 .. D + 1 |-> IF k = D + 1 THEN n ELSE p[k]]
CountsWith(D, c) == [k \in 0 .. D + 1 |-> IF k = D + 1 THEN 0 ELSE c[k]]
EndsWith(D, b, y, x) ==
  [k \in 0 .. D + 2 |-> IF k = D + 2 THEN x ELSE IF k = D + 1 THEN y ELSE b[k]]

\* The validator accepts it, and max_depth admits it.
LEMMA HeadFits ==
  ASSUME Heights(Height), NEW n \in Nodes, WP!Valid[n], WithinLimits(n), n.kind = "Composite",
         NEW D \in Nat, Height[n] + D <= MaxDepth
  PROVE  /\ D < MaxDepth /\ HeadAccepted(Desc[n.id]) /\ Len(n.members) > 0
         /\ Desc[n.id].count = Len(n.members)
         /\ OpenHead(n, 0) = [id |-> n.id, members |-> <<>>, v |-> NewValidator(Desc[n.id])]
<1>1. /\ n.members \in Seq(Nodes) /\ Len(n.members) \in Nat
      /\ \A i \in 1 .. Len(n.members) : n.members[i] \in Nodes /\ WP!Valid[n.members[i]]
      /\ LevelAccepted(Desc[n.id], MemberDescs(n))
  BY ValidMembers
<1>2. n.members # <<>>
  BY DEF WithinLimits
<1>3. Len(n.members) > 0 /\ 1 \in DOMAIN n.members /\ n.members[1] \in Nodes
  <2>1. Len(n.members) # 0
    BY <1>1, <1>2
  <2> QED
    BY <1>1, <2>1
<1>4. Height[n.members[1]] \in 0 .. MaxDepth /\ Height[n] \in 0 .. MaxDepth /\ Height[n.members[1]] < Height[n]
  BY <1>3 DEF Heights
<1>5. D < MaxDepth
  <2>1. MaxDepth \in Nat
    BY PipeBoundsAssumption
  <2>2. Height[n] + D <= MaxDepth
    OBVIOUS
  <2> QED
    BY ONLY <1>4, <2>1, <2>2, D \in Nat
<1>6. HeadAccepted(Desc[n.id]) /\ Desc[n.id].count = Len(n.members)
  <2> DEFINE ds == MemberDescs(n)
             l == Len(n.members)
             hd == Desc[n.id]
  <2>1. DOMAIN ds = 1 .. l /\ Len(ds) = l /\ l \in Nat
    <3>1. ds = [i \in 1 .. l |-> Desc[n.members[i].id]]
      BY <1>1 DEF MemberDescs
    <3> HIDE DEF ds
    <3> QED
      BY <1>1, <3>1
  <2>2. LevelAccepted(hd, ds)
    BY <1>1
  <2> HIDE DEF ds, l, hd
  <2>3. HeadAccepted(hd) /\ hd.count = l
    BY <2>1, <2>2, LevelUnfolds
  <2> QED
    BY <2>3 DEF hd, l
<1>7. OpenHead(n, 0) = [id |-> n.id, members |-> <<>>, v |-> NewValidator(Desc[n.id])]
  <2>1. ItemsOf(n.members, 0) = <<>>
    BY DEF ItemsOf
  <2>2. Seen(Desc[n.id], MemberDescs(n), 0) = NewValidator(Desc[n.id])
    BY SeenSteps
  <2> QED
    BY <2>1, <2>2 DEF OpenHead
<1> QED
  BY <1>3, <1>5, <1>6, <1>7

LEMMA HeadOpens ==
  ASSUME Heights(Height), \A m \in Nodes : WithinLimits(m), NEW S \in Seq(Nodes), AllValid(S),
         NEW D, NEW p, NEW c, Path(S, D, p, c), NEW b, NEW x, Laid(S, D, p, c, b, x),
         D > 0 \/ c[0] < Len(S), NEW n, n = Next1(S, D, p, c), n.kind = "Composite",
         NEW q, q = PathWith(D, p, n), NEW d, d = CountsWith(D, c),
         NEW z, z = x + Len(FrameBytes(n)), NEW a, a = EndsWith(D, b, x + Len(WP!Encoded[n]), z)
  PROVE  /\ Path(S, D + 1, q, d) /\ Laid(S, D + 1, q, d, a, z) /\ d[0] = c[0]
         /\ Heads(D + 1, q, d) = Append(Heads(D, p, c), OpenHead(n, 0))
<1>1. /\ n \in Nodes /\ c[D] < Len(Level(S, p, D)) /\ c[D] \in Nat /\ D \in Nat
      /\ Height[n] \in 0 .. MaxDepth /\ Height[n] + D <= MaxDepth
      /\ AtFrame(n, Rest(S, 1), x)
      /\ Seg(Rest(S, 1), x, x + Len(WP!Encoded[n]), WP!Encoded[n])
      /\ Seg(Rest(S, 1), x + Len(WP!Encoded[n]), b[D], Rest(Level(S, p, D), c[D] + 2))
      /\ Seg(Rest(S, 1), z, x + Len(WP!Encoded[n]), Rest(n.members, 1))
  BY NextNode
<1>2. WP!Valid[n] /\ WithinLimits(n)
  BY <1>1 DEF AtFrame, Fit
<1>3. D < MaxDepth /\ Len(n.members) > 0
  BY <1>1, <1>2, HeadFits
<1>4. q = [k \in 1 .. D + 1 |-> IF k = D + 1 THEN n ELSE p[k]] /\ d = [k \in 0 .. D + 1 |-> IF k = D + 1 THEN 0 ELSE c[k]]
  BY DEF PathWith, CountsWith
<1>5. p \in [1 .. D -> Nodes] /\ c \in [0 .. D -> Nat] /\ c[0] <= Len(S) /\ \A k \in 1 .. D : OnPath(S, p, c, k)
  BY DEF Path
<1>6. /\ q \in [1 .. D + 1 -> Nodes] /\ d \in [0 .. D + 1 -> Nat]
      /\ \A k \in 1 .. D : q[k] = p[k]
      /\ \A k \in 0 .. D : d[k] = c[k]
      /\ q[D + 1] = n /\ d[D + 1] = 0 /\ d[0] = c[0]
  <2>1. \A k \in 1 .. D + 1 : k = D + 1 \/ k \in 1 .. D
    BY <1>1
  <2>2. \A k \in 0 .. D + 1 : k = D + 1 \/ k \in 0 .. D
    BY <1>1
  <2>3. D + 1 \in 1 .. D + 1 /\ D + 1 \in 0 .. D + 1 /\ D + 1 \notin 1 .. D /\ D + 1 \notin 0 .. D /\ 0 \in 0 .. D
    BY <1>1
  <2>4. q \in [1 .. D + 1 -> Nodes]
    BY ONLY <1>1, <1>4, <1>5, <2>1
  <2>5. d \in [0 .. D + 1 -> Nat]
    BY ONLY <1>4, <1>5, <2>2
  <2>6. \A k \in 1 .. D : k \in 1 .. D + 1 /\ k # D + 1
    BY <1>1
  <2>7. \A k \in 0 .. D : k \in 0 .. D + 1 /\ k # D + 1
    BY <1>1
  <2> QED
    BY ONLY <1>4, <2>3, <2>4, <2>5, <2>6, <2>7
<1>7. \A k \in 0 .. D : Level(S, q, k) = Level(S, p, k)
  <2>1. \A k \in 0 .. D : k # 0 => k \in 1 .. D
    BY <1>1
  <2> QED
    BY <1>6, <2>1 DEF Level
<1>8. Level(S, q, D + 1) = n.members
  BY <1>1, <1>6 DEF Level
<1>9. \A k \in 1 .. D + 1 : OnPath(S, q, d, k)
  <2> SUFFICES ASSUME NEW k \in 1 .. D + 1 PROVE OnPath(S, q, d, k)
    OBVIOUS
  <2>1. CASE k = D + 1
    <3>1. k - 1 = D /\ D \in 0 .. D
      BY <1>1, <2>1
    <3>2. Level(S, q, k - 1) = Level(S, p, D) /\ d[k - 1] = c[D]
      BY <1>6, <1>7, <3>1
    <3>3. q[k] = n /\ d[k] = 0
      BY <1>6, <2>1
    <3>4. Height[n] + k <= MaxDepth + 1
      <4>1. MaxDepth \in Nat
        BY PipeBoundsAssumption
      <4>2. Height[n] + D <= MaxDepth /\ Height[n] \in 0 .. MaxDepth /\ D \in Nat
        BY <1>1
      <4> QED
        BY ONLY <2>1, <4>1, <4>2
    <3>5. n = Level(S, p, D)[c[D] + 1]
      BY DEF Next1
    <3> QED
      BY <1>1, <1>2, <1>3, <3>2, <3>3, <3>4, <3>5 DEF OnPath
  <2>2. CASE k # D + 1
    <3>1. k \in 1 .. D /\ k \in 0 .. D /\ k - 1 \in 0 .. D
      BY <1>1, <2>2
    <3>2. q[k] = p[k] /\ d[k] = c[k] /\ d[k - 1] = c[k - 1] /\ Level(S, q, k - 1) = Level(S, p, k - 1)
      BY <1>6, <1>7, <3>1
    <3>3. OnPath(S, p, c, k)
      BY <1>5, <3>1
    <3> QED
      BY <3>2, <3>3 DEF OnPath
  <2> QED
    BY <2>1, <2>2
<1>10. Path(S, D + 1, q, d)
  <2>1. D + 1 \in Nat /\ d[0] <= Len(S)
    BY <1>1, <1>5, <1>6
  <2> QED
    BY <1>6, <1>9, <2>1 DEF Path
<1> DEFINE y == x + Len(WP!Encoded[n])
<1>11. y \in Nat /\ z \in Nat
  BY <1>1 DEF Seg
<1>12. /\ Seg(Rest(S, 1), y, b[D], Rest(Level(S, p, D), c[D] + 2))
       /\ Seg(Rest(S, 1), z, y, Rest(n.members, 1))
       /\ a = [k \in 0 .. D + 2 |-> IF k = D + 2 THEN z ELSE IF k = D + 1 THEN y ELSE b[k]]
  BY <1>1 DEF EndsWith
<1> HIDE DEF y
<1>13. /\ b \in [0 .. D + 1 -> Nat] /\ b[0] = Len(Rest(S, 1))
       /\ \A k \in 0 .. D : Seg(Rest(S, 1), b[k + 1], b[k], Rest(Level(S, p, k), After(D, c, k)))
  BY DEF Laid
<1>14. /\ a \in [0 .. D + 2 -> Nat] /\ a[D + 2] = z /\ a[D + 1] = y
       /\ \A k \in 0 .. D : a[k] = b[k]
  <2>1. \A k \in 0 .. D + 2 : k = D + 2 \/ k = D + 1 \/ k \in 0 .. D + 1
    BY <1>1
  <2>2. D + 2 \in 0 .. D + 2 /\ D + 1 \in 0 .. D + 2 /\ D + 1 # D + 2
    BY <1>1
  <2>3. \A k \in 0 .. D : k \in 0 .. D + 2 /\ k # D + 1 /\ k # D + 2
    BY <1>1
  <2>4. a \in [0 .. D + 2 -> Nat]
    BY ONLY <1>11, <1>12, <1>13, <2>1
  <2> QED
    BY ONLY <1>12, <2>2, <2>3, <2>4
<1>15. ASSUME NEW k \in 0 .. D + 1
       PROVE  Seg(Rest(S, 1), a[k + 1], a[k], Rest(Level(S, q, k), After(D + 1, d, k)))
  <2>1. CASE k = D + 1
    <3>1. k + 1 = D + 2
      BY <1>1, <2>1
    <3>2. a[k + 1] = z /\ a[k] = y
      BY <1>14, <2>1, <3>1
    <3>3. After(D + 1, d, k) = 1
      BY <1>6, <2>1 DEF After
    <3>4. Level(S, q, k) = n.members
      BY <1>8, <2>1
    <3> QED
      BY <1>12, <3>2, <3>3, <3>4
  <2>2. CASE k = D
    <3>1. D # D + 1 /\ D \in 0 .. D
      BY <1>1
    <3>2. a[k + 1] = y /\ a[k] = b[D]
      BY <1>14, <2>2, <3>1
    <3>3. After(D + 1, d, k) = c[D] + 2
      BY <1>6, <2>2, <3>1 DEF After
    <3>4. Level(S, q, k) = Level(S, p, D)
      BY <1>7, <2>2, <3>1
    <3> QED
      BY <1>12, <3>2, <3>3, <3>4
  <2>3. CASE k # D /\ k # D + 1
    <3>1. k \in 0 .. D /\ k + 1 \in 0 .. D
      BY <1>1, <2>3
    <3>2. a[k + 1] = b[k + 1] /\ a[k] = b[k]
      BY <1>14, <3>1
    <3>3. After(D + 1, d, k) = After(D, c, k)
      BY <1>6, <2>3, <3>1 DEF After
    <3>4. Level(S, q, k) = Level(S, p, k)
      BY <1>7, <3>1
    <3> QED
      BY <1>13, <3>1, <3>2, <3>3, <3>4
  <2> QED
    BY <2>1, <2>2, <2>3
<1>16. Laid(S, D + 1, q, d, a, z)
  <2>1. (D + 1) + 1 = D + 2 /\ 0 \in 0 .. D
    BY <1>1
  <2> QED
    BY <1>13, <1>14, <1>15, <2>1 DEF Laid
<1>17. Heads(D + 1, q, d) = Append(Heads(D, p, c), OpenHead(n, 0))
  <2> DEFINE e == OpenHead(n, 0)
             f == Heads(D, p, c)
             T == {f[k] : k \in 1 .. D} \cup {e}
  <2>1. f = [k \in 1 .. D |-> OpenHead(p[k], c[k])]
    BY DEF Heads
  <2>2. f \in Seq(T) /\ e \in T /\ Len(f) = D
    BY <1>1, <2>1
  <2>3. Heads(D + 1, q, d) = [k \in 1 .. D + 1 |-> OpenHead(q[k], d[k])]
    BY DEF Heads
  <2>4. OpenHead(q[D + 1], d[D + 1]) = e
    BY <1>6
  <2>5. \A k \in 1 .. D : OpenHead(q[k], d[k]) = f[k]
    <3>1. \A k \in 1 .. D : k \in 0 .. D
      OBVIOUS
    <3> QED
      BY <1>6, <2>1, <3>1
  <2> HIDE DEF e, f, T
  <2>6. Append(f, e) = [k \in 1 .. D + 1 |-> IF k = D + 1 THEN e ELSE f[k]]
    BY <2>2, AppendElements
  <2>7. \A k \in 1 .. D + 1 : k = D + 1 \/ k \in 1 .. D
    BY <1>1
  <2>8. Heads(D + 1, q, d) = Append(f, e)
    BY ONLY <2>3, <2>4, <2>5, <2>6, <2>7
  <2> QED
    BY <2>8 DEF e, f
<1> QED
  BY <1>6, <1>10, <1>16, <1>17
-----------------------------------------------------------------------------
(***************************************************************************)
(* A tensor that is next is delivered, with the composites it completes.   *)
(***************************************************************************)

\* One item more.
LEMMA ItemsAppend ==
  ASSUME NEW ms, NEW i \in Nat
  PROVE  /\ ItemsOf(ms, i + 1) = Append(ItemsOf(ms, i), ItemOf[ms[i + 1]])
         /\ Len(ItemsOf(ms, i)) = i
<1> DEFINE f == ItemsOf(ms, i)
           e == ItemOf[ms[i + 1]]
           T == {f[k] : k \in 1 .. i} \cup {e}
<1>1. f = [j \in 1 .. i |-> ItemOf[ms[j]]]
  BY DEF ItemsOf
<1>2. f \in Seq(T) /\ e \in T /\ Len(f) = i
  BY <1>1
<1>3. ItemsOf(ms, i + 1) = [j \in 1 .. i + 1 |-> ItemOf[ms[j]]]
  BY DEF ItemsOf
<1> HIDE DEF f, T
<1>4. Append(f, e) = [k \in 1 .. Len(f) + 1 |-> IF k = Len(f) + 1 THEN e ELSE f[k]]
  BY <1>2, AppendElements
<1>5. \A k \in 1 .. i + 1 : k = i + 1 \/ k \in 1 .. i
  OBVIOUS
<1>6. ItemsOf(ms, i + 1) = Append(f, e)
  BY ONLY <1>1, <1>2, <1>3, <1>4, <1>5
<1> QED
  BY <1>2, <1>6 DEF f

\* f[j] is what reaches level D - j of the heads st: the tensor t, or the composite closed
\* above that level.
Climb(f, st, t, D, j) ==
  IF j = 0 THEN A!TensorItem(t)
  ELSE [kind |-> "Composite", id |-> st[D - j + 1].id, buffers |-> <<>>,
        members |-> Append(st[D - j + 1].members, f[j - 1])]
Climbs(f, st, t, D, n) == f = [j \in 0 .. n |-> Climb(f, st, t, D, j)]

LEMMA ClimbExists ==
  ASSUME NEW st, NEW t, NEW D, NEW k \in Nat
  PROVE  \E f : Climbs(f, st, t, D, k)
<1> DEFINE T == {n \in Nat : ~ \E f : Climbs(f, st, t, D, n)}
<1> SUFFICES ASSUME T # {} PROVE FALSE
  OBVIOUS
<1>1. T \subseteq Nat
  OBVIOUS
<1>2. PICK n \in T : \A m \in T : n <= m
  BY <1>1, Least
<1>3. n \in Nat /\ ~ \E f : Climbs(f, st, t, D, n)
  OBVIOUS
<1>4. \A m \in Nat : m < n => \E f : Climbs(f, st, t, D, m)
  BY <1>2, <1>3
<1> HIDE DEF T
<1>5. CASE n = 0
  <2> DEFINE f == [i \in 0 .. 0 |-> A!TensorItem(t)]
  <2>1. f = [i \in 0 .. 0 |-> Climb(f, st, t, D, i)]
    BY DEF Climb
  <2> QED
    BY <1>3, <1>5, <2>1 DEF Climbs
<1>6. CASE n # 0
  <2>1. n - 1 \in Nat /\ n - 1 < n
    BY <1>3, <1>6
  <2>2. PICK f : Climbs(f, st, t, D, n - 1)
    BY <1>4, <2>1
  <2> DEFINE g == [i \in 0 .. n |-> IF i = n THEN Climb(f, st, t, D, n) ELSE f[i]]
  <2>3. ASSUME NEW i \in 0 .. n PROVE g[i] = Climb(g, st, t, D, i)
    <3>1. i # 0 => i - 1 \in 0 .. n - 1 /\ i - 1 # n /\ g[i - 1] = f[i - 1]
      BY <1>3
    <3> DEFINE gi == g[i]
    <3>2. i = n => gi = Climb(f, st, t, D, n)
      BY <1>3
    <3>3. i # n => i \in 0 .. n - 1 /\ gi = f[i]
      BY <1>3
    <3> HIDE DEF g, gi
    <3>4. Climb(g, st, t, D, i) = Climb(f, st, t, D, i)
      BY <3>1 DEF Climb
    <3>5. i # n => f[i] = Climb(f, st, t, D, i)
      BY ZenonT(30), <2>2, <3>3 DEF Climbs
    <3> QED
      BY <3>2, <3>3, <3>4, <3>5 DEF gi
  <2>4. g = [i \in 0 .. n |-> g[i]]
    OBVIOUS
  <2> HIDE DEF g
  <2>5. Climbs(g, st, t, D, n)
    BY <2>3, <2>4 DEF Climbs
  <2> QED
    BY <1>3, <2>5
<1> QED
  BY <1>5, <1>6

CarriedBy(st, t, D) == CHOOSE f : Climbs(f, st, t, D, D)

LEMMA CarriedIs ==
  ASSUME NEW t
  PROVE  A!Carried(t) = [k \in 0 .. A!depth |-> CarriedBy(astack, t, A!depth)[A!depth - k]]
BY DEF A!Carried, CarriedBy, Climbs, Climb

LEMMA CarriedClimbs ==
  ASSUME NEW st, NEW t, NEW D \in Nat
  PROVE  \E f : Climbs(f, st, t, D, D) /\ CarriedBy(st, t, D) = f
<1> DEFINE f == CarriedBy(st, t, D)
<1>1. \E g : Climbs(g, st, t, D, D)
  BY ClimbExists
<1>2. Climbs(f, st, t, D, D)
  BY <1>1 DEF CarriedBy
<1> QED
  BY <1>2

LEMMA ClimbStep ==
  ASSUME NEW f, NEW st, NEW t, NEW D \in Nat, Climbs(f, st, t, D, D), NEW j \in 0 .. D
  PROVE  /\ j = 0 => f[j] = A!TensorItem(t)
         /\ j # 0 => f[j] = [kind |-> "Composite", id |-> st[D - j + 1].id, buffers |-> <<>>,
                             members |-> Append(st[D - j + 1].members, f[j - 1])]
<1>1. f[j] = Climb(f, st, t, D, j)
  BY DEF Climbs
<1> QED
  BY <1>1, Zenon DEF Climb

\* What is open at level k, and what the writer checked of it.
LEMMA HeadOf ==
  ASSUME Heights(Height), NEW S \in Seq(Nodes), AllValid(S), NEW D, NEW p, NEW c, Path(S, D, p, c),
         NEW st, st = Heads(D, p, c), NEW k \in 1 .. D, NEW ms, ms = p[k].members
  PROVE  /\ st[k] = OpenHead(p[k], c[k]) /\ st[k].id = p[k].id /\ st[k].members = ItemsOf(ms, c[k])
         /\ st[k].v = Seen(Desc[p[k].id], MemberDescs(p[k]), c[k])
         /\ Len(st[k].members) = c[k] /\ c[k] \in Nat /\ Len(ms) \in Nat /\ c[k] + 1 \in 1 .. Len(ms)
         /\ Desc[p[k].id].count = Len(ms) /\ p[k] \in Nodes /\ p[k].kind = "Composite"
         /\ MemberAccepted(st[k].v, Desc[ms[c[k] + 1].id])
         /\ push_member(st[k].v, Desc[ms[c[k] + 1].id]) = Seen(Desc[p[k].id], MemberDescs(p[k]), c[k] + 1)
         /\ c[k] + 1 = Len(ms) => FinishAccepted(push_member(st[k].v, Desc[ms[c[k] + 1].id]))
<1>1. st[k] = OpenHead(p[k], c[k])
  BY DEF Heads
<1>2. k \in 0 .. D /\ D \in Nat /\ k # 0
  BY DEF Path
<1>3. c[k] \in Nat /\ p[k] \in Nodes /\ OnPath(S, p, c, k)
  BY <1>2 DEF Path
<1>4. p[k].kind = "Composite" /\ WP!Valid[p[k]] /\ c[k] < Len(ms)
  BY <1>3 DEF OnPath
<1>5. ms \in Seq(Nodes) /\ Len(ms) \in Nat /\ LevelAccepted(Desc[p[k].id], MemberDescs(p[k]))
  BY <1>3, <1>4, ValidMembers
<1>6. c[k] + 1 \in 1 .. Len(ms) /\ (c[k] + 1) - 1 = c[k]
  BY <1>3, <1>4, <1>5
<1> DEFINE ds == MemberDescs(p[k])
           l == Len(ms)
           hd == Desc[p[k].id]
<1>7. ds = [i \in 1 .. l |-> Desc[ms[i].id]] /\ l \in Nat
  BY <1>5 DEF MemberDescs
<1>8. LevelAccepted(hd, ds)
  BY <1>5
<1>9. /\ st[k].id = p[k].id /\ st[k].members = ItemsOf(ms, c[k]) /\ st[k].v = Seen(hd, ds, c[k])
  BY <1>1 DEF OpenHead
<1> HIDE DEF ds, l, hd
<1>10. DOMAIN ds = 1 .. l /\ Len(ds) = l
  BY <1>7
<1>11. /\ hd.count = l /\ \A i \in 1 .. l : MemberAccepted(Seen(hd, ds, i - 1), ds[i])
       /\ FinishAccepted(Seen(hd, ds, l))
  BY <1>7, <1>8, <1>10, LevelUnfolds
<1>12. c[k] + 1 \in 1 .. l /\ ds[c[k] + 1] = Desc[ms[c[k] + 1].id]
  BY <1>6, <1>7 DEF l
<1>13. MemberAccepted(Seen(hd, ds, c[k]), Desc[ms[c[k] + 1].id])
  <2>1. MemberAccepted(Seen(hd, ds, (c[k] + 1) - 1), ds[c[k] + 1])
    BY <1>11, <1>12
  <2> QED
    BY <1>6, <1>12, <2>1
<1>14. push_member(Seen(hd, ds, c[k]), Desc[ms[c[k] + 1].id]) = Seen(hd, ds, c[k] + 1)
  <2>1. push_member(Seen(hd, ds, c[k]), ds[c[k] + 1]) = Seen(hd, ds, c[k] + 1)
    BY <1>3, SeenSteps
  <2> QED
    BY <1>12, <2>1
<1>15. c[k] + 1 = l => FinishAccepted(Seen(hd, ds, c[k] + 1))
  BY <1>11
<1>16. Len(st[k].members) = c[k]
  BY <1>3, <1>9, ItemsAppend
<1> QED
  BY <1>1, <1>3, <1>4, <1>5, <1>6, <1>9, <1>11, <1>13, <1>14, <1>15, <1>16 DEF ds, l, hd

\* A head fills with its last member.
LEMMA FillsMeans ==
  ASSUME Heights(Height), NEW S \in Seq(Nodes), AllValid(S), NEW D, NEW p, NEW c, Path(S, D, p, c),
         astack = Heads(D, p, c), NEW k \in 1 .. D
  PROVE  A!Fills(k) <=> c[k] + 1 = Len(p[k].members)
<1> DEFINE st == astack
           ms == p[k].members
<1>1. st = Heads(D, p, c) /\ ms = p[k].members
  OBVIOUS
<1> HIDE DEF st, ms
<1>2. /\ st[k].id = p[k].id /\ Len(st[k].members) = c[k] /\ c[k] \in Nat /\ Len(ms) \in Nat
      /\ c[k] + 1 \in 1 .. Len(ms) /\ Desc[p[k].id].count = Len(ms)
  BY <1>1, HeadOf
<1>3. A!Fills(k) <=> Len(st[k].members) + 1 >= Desc[st[k].id].count
  BY DEF A!Fills, st
<1>4. A!Fills(k) <=> c[k] + 1 >= Len(ms)
  BY <1>2, <1>3
<1> QED
  BY <1>2, <1>4 DEF ms

LEMMA DepthIs ==
  ASSUME NEW D, NEW p, NEW c, D \in Nat, astack = Heads(D, p, c)
  PROVE  A!depth = D
BY DEF Heads, A!depth

\* The level that keeps the tensor, or the composite it completes.
LEMMA StopLevelIs ==
  ASSUME Heights(Height), NEW S \in Seq(Nodes), AllValid(S), NEW D, NEW p, NEW c, Path(S, D, p, c),
         astack = Heads(D, p, c), NEW s, s = A!StopLevel
  PROVE  /\ s \in 0 .. D /\ D \in Nat
         /\ \A k \in s + 1 .. D : k \in 1 .. D /\ c[k] + 1 = Len(p[k].members)
         /\ s # 0 => s \in 1 .. D /\ c[s] + 1 < Len(p[s].members)
<1> DEFINE T == {k \in 1 .. D : ~ A!Fills(k)}
<1>1. D \in Nat
  BY DEF Path
<1>2. A!depth = D
  BY <1>1, DepthIs
<1>3. s = IF T = {} THEN 0 ELSE CHOOSE k \in T : \A l \in T : l <= k
  BY <1>2 DEF A!StopLevel
<1>4. T \subseteq 1 .. D /\ \A k \in 1 .. D : k \in T \/ A!Fills(k)
  OBVIOUS
<1>5. \A k \in T : ~ A!Fills(k)
  OBVIOUS
<1> HIDE DEF T
<1>6. T # {} => \E k \in T : \A l \in T : l <= k
  <2> SUFFICES ASSUME T # {} PROVE \E k \in T : \A l \in T : l <= k
    OBVIOUS
  <2> DEFINE U == {D - k : k \in T}
  <2>1. U \subseteq Nat /\ U # {}
    <3>1. U # {}
      OBVIOUS
    <3>2. ASSUME NEW k \in T PROVE D - k \in Nat
      <4>1. k \in 1 .. D
        BY <1>4
      <4> QED
        BY ONLY <1>1, <4>1
    <3> QED
      BY <3>1, <3>2
  <2>2. PICK u \in U : \A v \in U : u <= v
    BY <2>1, Least
  <2>3. PICK k \in T : u = D - k
    OBVIOUS
  <2>4. ASSUME NEW l \in T PROVE l <= k
    <3>1. D - l \in U /\ k \in 1 .. D /\ l \in 1 .. D
      BY <1>4
    <3>2. u <= D - l
      BY <2>2, <3>1
    <3> QED
      BY ONLY <1>1, <2>3, <3>1, <3>2
  <2> QED
    BY <2>4
<1>7. CASE T = {}
  <2>1. s = 0
    BY <1>3, <1>7
  <2>2. \A k \in 1 .. D : A!Fills(k)
    BY <1>4, <1>7
  <2>3. \A k \in 1 .. D : c[k] + 1 = Len(p[k].members)
    BY <2>2, FillsMeans
  <2> QED
    BY <1>1, <2>1, <2>3
<1>8. CASE T # {}
  <2>1. s \in T /\ \A l \in T : l <= s
    BY <1>3, <1>6, <1>8
  <2>2. s \in 1 .. D /\ ~ A!Fills(s)
    BY <1>4, <1>5, <2>1
  <2>3. ASSUME NEW k \in s + 1 .. D PROVE k \in 1 .. D /\ c[k] + 1 = Len(p[k].members)
    <3>1. k \in 1 .. D /\ ~ (k <= s)
      BY <1>1, <2>2
    <3>2. A!Fills(k)
      BY <1>4, <2>1, <3>1
    <3> QED
      BY <3>1, <3>2, FillsMeans
  <2>4. c[s] + 1 # Len(p[s].members)
    BY <2>2, FillsMeans
  <2> DEFINE ms == p[s].members
             st == astack
  <2>5. ms = p[s].members /\ st = Heads(D, p, c)
    OBVIOUS
  <2> HIDE DEF ms, st
  <2>6. c[s] \in Nat /\ Len(ms) \in Nat /\ c[s] + 1 \in 1 .. Len(ms)
    BY <2>2, <2>5, HeadOf
  <2>7. c[s] + 1 < Len(ms)
    BY ONLY <2>4, <2>5, <2>6
  <2> QED
    BY <1>1, <2>2, <2>3, <2>5, <2>7
<1> QED
  BY <1>7, <1>8

\* What a level is offered is the descriptor of its next node.
LEMMA OfferedIs ==
  ASSUME Heights(Height), NEW S \in Seq(Nodes), AllValid(S), NEW D, NEW p, NEW c, Path(S, D, p, c),
         astack = Heads(D, p, c), NEW n, n = Next1(S, D, p, c), NEW t, t.id = n.id, NEW k \in 0 .. D
  PROVE  A!OfferedTo(k, t) = Desc[Level(S, p, k)[c[k] + 1].id]
<1>1. D \in Nat /\ \A j \in 1 .. D : OnPath(S, p, c, j)
  BY DEF Path
<1>2. A!depth = D
  BY <1>1, DepthIs
<1>3. CASE k = D
  BY <1>2, <1>3 DEF A!OfferedTo, Next1
<1>4. CASE k # D
  <2>1. k + 1 \in 1 .. D /\ (k + 1) - 1 = k
    BY <1>1, <1>4
  <2>2. p[k + 1] = Level(S, p, k)[c[k] + 1]
    <3>1. OnPath(S, p, c, k + 1)
      BY <1>1, <2>1
    <3>2. p[k + 1] = Level(S, p, (k + 1) - 1)[c[(k + 1) - 1] + 1]
      BY <3>1 DEF OnPath
    <3> QED
      BY <2>1, <3>2
  <2>3. astack[k + 1].id = p[k + 1].id
    BY <2>1 DEF Heads, OpenHead
  <2> QED
    BY <1>2, <1>4, <2>2, <2>3 DEF A!OfferedTo
<1> QED
  BY <1>3, <1>4

\* No head refuses it.
LEMMA NoBadLevels ==
  ASSUME Heights(Height), NEW S \in Seq(Nodes), AllValid(S), NEW D, NEW p, NEW c, Path(S, D, p, c),
         astack = Heads(D, p, c), NEW n, n = Next1(S, D, p, c), NEW t, t.id = n.id
  PROVE  A!BadLevels(t) = {}
<1>1. D \in Nat
  BY DEF Path
<1>2. A!depth = D
  BY <1>1, DepthIs
<1>3. ASSUME NEW k \in 1 .. D
      PROVE  /\ A!MemberAccepted(astack[k].v, A!OfferedTo(k, t))
             /\ A!Fills(k) => A!FinishAccepted(A!push_member(astack[k].v, A!OfferedTo(k, t)))
  <2> DEFINE st == astack
             ms == p[k].members
             d == A!OfferedTo(k, t)
  <2>1. ms = p[k].members /\ st = Heads(D, p, c)
    OBVIOUS
  <2>2. k \in 0 .. D /\ k # 0
    BY <1>1
  <2>3. Level(S, p, k) = ms
    BY <2>2 DEF Level
  <2>4. d = Desc[ms[c[k] + 1].id]
    BY <2>2, <2>3, OfferedIs
  <2>5. A!Fills(k) <=> c[k] + 1 = Len(p[k].members)
    BY FillsMeans
  <2> HIDE DEF st, ms, d
  <2>6. /\ MemberAccepted(st[k].v, Desc[ms[c[k] + 1].id])
        /\ c[k] + 1 = Len(ms) => FinishAccepted(push_member(st[k].v, Desc[ms[c[k] + 1].id]))
    BY <2>1, HeadOf
  <2>7. A!MemberAccepted(st[k].v, d) /\ (A!Fills(k) => A!FinishAccepted(A!push_member(st[k].v, d)))
    BY <2>1, <2>4, <2>5, <2>6, SameRules
  <2> QED
    BY <2>7 DEF st, d
<1> QED
  BY <1>2, <1>3 DEF A!BadLevels

\* The item of a composite, and that of a tensor.
LEMMA ItemCases ==
  ASSUME NEW n \in Nodes, WithinLimits(n)
  PROVE  /\ n.kind = "Composite" =>
              ItemOf[n] = [kind |-> "Composite", id |-> n.id, buffers |-> <<>>,
                           members |-> ItemsOf(n.members, Len(n.members))]
         /\ n.kind = "Tensor" => ItemOf[n] = A!TensorItem(FrameTensor(n))
<1>1. ItemOf[n] = ItemPiece(ItemOf, n)
  BY ItemUnfolds
<1>2. ItemOf[n] = [kind    |-> n.kind, id |-> n.id,
                   buffers |-> IF n.kind = "Tensor" THEN payloads_of(n) ELSE <<>>,
                   members |-> [i \in DOMAIN n.members |-> ItemOf[n.members[i]]]]
  BY <1>1, Zenon DEF ItemPiece
<1>3. n.members \in Seq(Nodes)
  BY PipeNodesAssumption
<1>4. DOMAIN n.members = 1 .. Len(n.members)
  BY <1>3
<1>5. CASE n.kind = "Composite"
  <2>1. ItemsOf(n.members, Len(n.members)) = [i \in DOMAIN n.members |-> ItemOf[n.members[i]]]
    BY <1>4 DEF ItemsOf
  <2> QED
    BY <1>2, <1>5, <2>1
<1>6. CASE n.kind = "Tensor"
  <2>1. n.members = <<>>
    BY <1>6 DEF WithinLimits
  <2>2. [i \in DOMAIN n.members |-> ItemOf[n.members[i]]] = <<>>
    BY <2>1
  <2>3. A!TensorItem(FrameTensor(n)) = [kind |-> "Tensor", id |-> n.id, buffers |-> payloads_of(n), members |-> <<>>]
    BY <1>6 DEF A!TensorItem, FrameTensor, FrameBuffers
  <2> QED
    BY <1>2, <1>6, <2>2, <2>3
<1>7. n.kind = "Composite" \/ n.kind = "Tensor"
  BY PipeNodesAssumption
<1> QED
  BY <1>5, <1>6, <1>7

\* What reaches level k is the item of its next node, and nothing of that node is left.
Reaches(S, p, c, b, t, y, k) ==
  /\ A!Carried(t)[k] = ItemOf[Level(S, p, k)[c[k] + 1]]
  /\ Seg(Rest(S, 1), y, b[k], Rest(Level(S, p, k), c[k] + 2))

LEMMA CarriedReaches ==
  ASSUME Heights(Height), \A m \in Nodes : WithinLimits(m), NEW S \in Seq(Nodes), AllValid(S),
         NEW D, NEW p, NEW c, Path(S, D, p, c), NEW b, NEW x, Laid(S, D, p, c, b, x),
         astack = Heads(D, p, c), D > 0 \/ c[0] < Len(S), NEW n, n = Next1(S, D, p, c), n.kind = "Tensor",
         NEW s, s = A!StopLevel, NEW t, t = FrameTensor(n), NEW y, y = x + Len(WP!Encoded[n])
  PROVE  \A k \in s .. D : Reaches(S, p, c, b, t, y, k)
<1> DEFINE T == {j \in 0 .. D - s : ~ Reaches(S, p, c, b, t, y, D - j)}
<1>1. D \in Nat /\ s \in 0 .. D /\ \A k \in s + 1 .. D : k \in 1 .. D /\ c[k] + 1 = Len(p[k].members)
  BY StopLevelIs
<1>2. SUFFICES ASSUME T # {} PROVE FALSE
  <2> SUFFICES ASSUME T = {}, NEW k \in s .. D PROVE Reaches(S, p, c, b, t, y, k)
    BY <1>2
  <2>1. D - k \in 0 .. D - s /\ D - (D - k) = k
    BY <1>1
  <2> QED
    BY <2>1
<1>3. T \subseteq Nat
  BY <1>1
<1>4. PICK j \in T : \A l \in T : j <= l
  BY <1>2, <1>3, Least
<1>5. j \in 0 .. D - s /\ j \in Nat /\ ~ Reaches(S, p, c, b, t, y, D - j)
  BY <1>3
<1>6. \A l \in 0 .. D - s : l < j => Reaches(S, p, c, b, t, y, D - l)
  BY <1>1, <1>4, <1>5
<1> HIDE DEF T
<1> DEFINE k == D - j
<1>7. k \in s .. D /\ k \in 0 .. D /\ k \in Nat /\ D - k = j
  BY <1>1, <1>5
<1>8. PICK f : Climbs(f, astack, t, D, D) /\ CarriedBy(astack, t, D) = f
  BY <1>1, CarriedClimbs
<1>9. ASSUME NEW i \in 0 .. D
       PROVE  /\ i = 0 => f[i] = A!TensorItem(t)
              /\ i # 0 => f[i] = [kind |-> "Composite", id |-> astack[D - i + 1].id, buffers |-> <<>>,
                                  members |-> Append(astack[D - i + 1].members, f[i - 1])]
  <2> DEFINE st == astack
  <2>1. D \in Nat /\ Climbs(f, st, t, D, D) /\ i \in 0 .. D
    BY <1>1, <1>8
  <2> HIDE DEF st
  <2>2. /\ i = 0 => f[i] = A!TensorItem(t)
        /\ i # 0 => f[i] = [kind |-> "Composite", id |-> st[D - i + 1].id, buffers |-> <<>>,
                            members |-> Append(st[D - i + 1].members, f[i - 1])]
    BY ONLY <2>1, ClimbStep
  <2> QED
    BY <2>2 DEF st
<1>10. A!Carried(t) = [i \in 0 .. D |-> f[D - i]]
  <2>1. A!depth = D
    BY <1>1, DepthIs
  <2> QED
    BY <1>8, <2>1, CarriedIs
<1>11. A!Carried(t)[k] = f[j]
  BY <1>7, <1>10
<1>12. CASE j = 0
  <2>1. k = D
    BY <1>1, <1>12
  <2>2. f[j] = A!TensorItem(t)
    <3>1. 0 \in 0 .. D
      BY <1>1
    <3> QED
      BY <1>12, <1>9, <3>1
  <2>3. /\ n \in Nodes /\ Seg(Rest(S, 1), y, b[D], Rest(Level(S, p, D), c[D] + 2))
    BY NextNode
  <2>4. ItemOf[n] = A!TensorItem(t)
    BY <2>3, ItemCases
  <2>5. A!Carried(t)[k] = ItemOf[Level(S, p, k)[c[k] + 1]]
    BY <1>11, <2>1, <2>2, <2>4 DEF Next1
  <2>6. Reaches(S, p, c, b, t, y, k)
    BY <2>1, <2>3, <2>5 DEF Reaches
  <2> QED
    BY <1>5, <2>6
<1>13. CASE j # 0
  <2> DEFINE i == k + 1
             ms == p[i].members
             st == astack
  <2>1. i \in s + 1 .. D /\ i \in 1 .. D /\ D - (j - 1) = i /\ j - 1 \in 0 .. D - s /\ j - 1 < j
        /\ D - j + 1 = i /\ i - 1 = k /\ i \in 0 .. D /\ i # 0 /\ D - i = j - 1 /\ j \in 0 .. D /\ k # D
    BY <1>1, <1>5, <1>7, <1>13
  <2>2. Reaches(S, p, c, b, t, y, i)
    <3>1. Reaches(S, p, c, b, t, y, D - (j - 1))
      BY <1>6, <2>1
    <3> QED
      BY <2>1, <3>1
  <2>3. c[i] + 1 = Len(ms)
    BY <1>1, <2>1
  <2>4. f[j] = [kind |-> "Composite", id |-> astack[i].id, buffers |-> <<>>,
                members |-> Append(astack[i].members, f[j - 1])]
    <3>1. f[j] = [kind |-> "Composite", id |-> astack[D - j + 1].id, buffers |-> <<>>,
                  members |-> Append(astack[D - j + 1].members, f[j - 1])]
      BY <1>13, <1>9, <2>1
    <3> QED
      BY <2>1, <3>1
  <2>5. A!Carried(t)[i] = f[j - 1] /\ Level(S, p, i) = ms
    BY <1>10, <2>1 DEF Level
  <2>6. st = Heads(D, p, c) /\ ms = p[i].members
    OBVIOUS
  <2>7. OnPath(S, p, c, i)
    BY <2>1 DEF Path
  <2>8. p[i] = Level(S, p, k)[c[k] + 1]
    BY <2>1, <2>7 DEF OnPath
  <2>9. Seg(Rest(S, 1), b[i], b[k], Rest(Level(S, p, k), c[k] + 2))
    <3>1. Seg(Rest(S, 1), b[k + 1], b[k], Rest(Level(S, p, k), After(D, c, k)))
      BY <1>7 DEF Laid
    <3>2. After(D, c, k) = c[k] + 2
      BY <2>1 DEF After
    <3> QED
      BY <3>1, <3>2
  <2>10. A!Carried(t)[i] = ItemOf[ms[c[i] + 1]] /\ Seg(Rest(S, 1), y, b[i], Rest(ms, c[i] + 2))
    BY <2>2, <2>5 DEF Reaches
  <2> HIDE DEF st, ms, i
  <2>11. /\ st[i].id = p[i].id /\ st[i].members = ItemsOf(ms, c[i]) /\ c[i] \in Nat /\ Len(ms) \in Nat
         /\ p[i] \in Nodes /\ p[i].kind = "Composite"
    BY <2>1, <2>6, HeadOf
  <2>12. Append(st[i].members, f[j - 1]) = ItemsOf(ms, Len(ms))
    <3>1. ItemsOf(ms, c[i] + 1) = Append(ItemsOf(ms, c[i]), ItemOf[ms[c[i] + 1]])
      BY <2>11, ItemsAppend
    <3> QED
      BY <2>3, <2>5, <2>10, <2>11, <3>1
  <2>13. f[j] = ItemOf[p[i]]
    <3>1. ItemOf[p[i]] = [kind |-> "Composite", id |-> p[i].id, buffers |-> <<>>, members |-> ItemsOf(ms, Len(ms))]
      BY <2>6, <2>11, ItemCases
    <3> QED
      BY <2>4, <2>11, <2>12, <3>1 DEF st
  <2>14. y = b[i]
    <3>1. ms \in Seq(Nodes)
      BY <2>6, <2>11, PipeNodesAssumption
    <3>2. c[i] + 2 = Len(ms) + 1 /\ c[i] + 2 \in 1 .. Len(ms) + 1
      BY <2>3, <2>11
    <3> DEFINE r == Rest(ms, c[i] + 2)
    <3>3. r = <<>>
      BY <3>1, <3>2, RestCases
    <3>4. b[i] = y + Len(r) /\ y \in Nat
      BY <2>10 DEF Seg
    <3> HIDE DEF r
    <3>5. Len(r) = 0
      BY <3>3
    <3> QED
      BY ONLY <3>4, <3>5
  <2>15. Reaches(S, p, c, b, t, y, k)
    BY <1>11, <2>8, <2>9, <2>13, <2>14 DEF Reaches
  <2> QED
    BY <1>5, <2>15
<1> QED
  BY <1>12, <1>13

\* Level s has one node more, and the levels above it are gone.
PathTo(s, p) == [k \in 1 .. s |-> p[k]]
CountsTo(s, c) == [k \in 0 .. s |-> IF k = s THEN c[k] + 1 ELSE c[k]]
EndsTo(s, b, y) == [k \in 0 .. s + 1 |-> IF k = s + 1 THEN y ELSE b[k]]

LEMMA PathCuts ==
  ASSUME NEW S, NEW D, NEW p, NEW c, Path(S, D, p, c), Len(S) \in Nat, NEW b, NEW x, Laid(S, D, p, c, b, x),
         NEW s \in 0 .. D, s # 0 => c[s] + 1 < Len(p[s].members), c[0] < Len(S),
         NEW y \in Nat, Seg(Rest(S, 1), y, b[s], Rest(Level(S, p, s), c[s] + 2)),
         NEW q, q = PathTo(s, p), NEW d, d = CountsTo(s, c), NEW a, a = EndsTo(s, b, y)
  PROVE  /\ Path(S, s, q, d) /\ Laid(S, s, q, d, a, y)
         /\ \A k \in 1 .. s : q[k] = p[k] /\ (k # s => d[k] = c[k])
         /\ d[s] = c[s] + 1 /\ (s # 0 => d[0] = c[0])
<1>1. D \in Nat /\ s \in Nat /\ p \in [1 .. D -> Nodes] /\ c \in [0 .. D -> Nat] /\ \A k \in 1 .. D : OnPath(S, p, c, k)
  BY DEF Path
<1>2. /\ q = [k \in 1 .. s |-> p[k]] /\ d = [k \in 0 .. s |-> IF k = s THEN c[k] + 1 ELSE c[k]]
      /\ a = [k \in 0 .. s + 1 |-> IF k = s + 1 THEN y ELSE b[k]]
  BY DEF PathTo, CountsTo, EndsTo
<1>3. /\ \A k \in 1 .. s : k \in 1 .. D /\ k \in 0 .. s /\ k - 1 \in 0 .. s /\ k - 1 # s
      /\ \A k \in 0 .. s : k \in 0 .. D /\ k \in 0 .. s + 1 /\ k # s + 1 /\ k \in 0 .. D + 1
      /\ s \in 0 .. s /\ 0 \in 0 .. s /\ s + 1 \in 0 .. s + 1
  BY <1>1
<1>4. /\ q \in [1 .. s -> Nodes] /\ \A k \in 1 .. s : q[k] = p[k]
  BY ONLY <1>1, <1>2, <1>3
<1>5. /\ d \in [0 .. s -> Nat] /\ d[s] = c[s] + 1 /\ \A k \in 0 .. s : k # s => d[k] = c[k]
  BY ONLY <1>1, <1>2, <1>3
<1>6. /\ b \in [0 .. D + 1 -> Nat] /\ b[0] = Len(Rest(S, 1)) /\ b[D + 1] = x
      /\ \A k \in 0 .. D : Seg(Rest(S, 1), b[k + 1], b[k], Rest(Level(S, p, k), After(D, c, k)))
  BY DEF Laid
<1>7. /\ a \in [0 .. s + 1 -> Nat] /\ a[s + 1] = y /\ \A k \in 0 .. s : a[k] = b[k]
  <2>1. \A k \in 0 .. s + 1 : k = s + 1 \/ k \in 0 .. s
    BY <1>1
  <2>2. a \in [0 .. s + 1 -> Nat]
    BY ONLY <1>2, <1>3, <1>6, <2>1, y \in Nat
  <2> QED
    BY ONLY <1>2, <1>3, <2>2
<1>8. \A k \in 0 .. s : Level(S, q, k) = Level(S, p, k)
  <2>1. \A k \in 0 .. s : k # 0 => k \in 1 .. s
    BY <1>1
  <2> QED
    BY <1>4, <2>1 DEF Level
<1>9. ASSUME NEW k \in 1 .. s PROVE OnPath(S, q, d, k)
  <2>1. /\ k \in 1 .. D /\ k - 1 \in 0 .. s /\ k - 1 # s /\ k \in 0 .. s
        /\ q[k] = p[k] /\ d[k - 1] = c[k - 1] /\ Level(S, q, k - 1) = Level(S, p, k - 1)
    BY <1>3, <1>4, <1>5, <1>8
  <2>2. OnPath(S, p, c, k)
    BY <1>1, <2>1
  <2>3. d[k] < Len(p[k].members)
    <3>1. CASE k = s
      <4>1. k # 0
        OBVIOUS
      <4> QED
        BY <1>5, <3>1, <4>1
    <3>2. CASE k # s
      BY <1>5, <2>1, <2>2, <3>2 DEF OnPath
    <3> QED
      BY <3>1, <3>2
  <2> QED
    BY <2>1, <2>2, <2>3 DEF OnPath
<1>10. d[0] <= Len(S)
  <2>1. c[0] \in Nat
    BY <1>1
  <2>2. d[0] = c[0] \/ d[0] = c[0] + 1
    BY <1>3, <1>5
  <2> QED
    BY <2>1, <2>2
<1>11. Path(S, s, q, d)
  BY <1>1, <1>4, <1>5, <1>9, <1>10 DEF Path
<1>12. ASSUME NEW k \in 0 .. s
       PROVE  Seg(Rest(S, 1), a[k + 1], a[k], Rest(Level(S, q, k), After(s, d, k)))
  <2>1. CASE k = s
    <3>1. After(s, d, k) = c[s] + 2
      <4>1. After(s, d, k) = (c[s] + 1) + 1 /\ c[s] \in Nat
        BY <1>1, <1>5, <2>1 DEF After
      <4> QED
        BY <4>1
    <3>2. a[k + 1] = y /\ a[k] = b[s] /\ Level(S, q, k) = Level(S, p, s)
      BY <1>7, <1>8, <2>1
    <3> QED
      BY <3>1, <3>2
  <2>2. CASE k # s
    <3>1. k \in 0 .. D /\ k # D /\ k + 1 \in 0 .. s
      BY <1>1, <2>2
    <3>2. After(s, d, k) = c[k] + 2 /\ After(D, c, k) = c[k] + 2
      BY <1>5, <2>2, <3>1 DEF After
    <3>3. a[k + 1] = b[k + 1] /\ a[k] = b[k] /\ Level(S, q, k) = Level(S, p, k)
      BY <1>7, <1>8, <3>1
    <3> QED
      BY <1>6, <3>1, <3>2, <3>3
  <2> QED
    BY <2>1, <2>2
<1>13. Laid(S, s, q, d, a, y)
  <2>1. a[0] = b[0]
    BY <1>3, <1>7
  <2> QED
    BY <1>6, <1>7, <1>12, <2>1 DEF Laid
<1> QED
  BY <1>3, <1>4, <1>5, <1>11, <1>13

\* The tensor, and the composites it completes.
LEMMA TensorDelivered ==
  ASSUME Heights(Height), \A m \in Nodes : WithinLimits(m), NEW S \in Seq(Nodes), AllValid(S),
         NEW D, NEW p, NEW c, Path(S, D, p, c), NEW b, NEW x, Laid(S, D, p, c, b, x),
         astack = Heads(D, p, c), aout = ItemsOf(S, c[0]), D > 0 \/ c[0] < Len(S),
         NEW n, n = Next1(S, D, p, c), n.kind = "Tensor",
         NEW t, t = FrameTensor(n), NEW y, y = x + Len(WP!Encoded[n]), A!PushTensor(t)
  PROVE  /\ UNCHANGED afailed
         /\ aout' = aout \/ (aout' = Append(aout, ItemOf[S[Len(aout) + 1]]) /\ Len(aout) < Len(S))
         /\ Cursor(S, y, astack', aout')
<1> DEFINE s == A!StopLevel
           item == A!Carried(t)
<1>1. /\ D \in Nat /\ s \in 0 .. D /\ \A k \in s .. D : Reaches(S, p, c, b, t, y, k)
      /\ s # 0 => s \in 1 .. D /\ c[s] + 1 < Len(p[s].members)
  BY StopLevelIs, CarriedReaches
<1>2. Reaches(S, p, c, b, t, y, s)
  BY <1>1
<1>3. item[s] = ItemOf[Level(S, p, s)[c[s] + 1]] /\ Seg(Rest(S, 1), y, b[s], Rest(Level(S, p, s), c[s] + 2))
  BY <1>2 DEF Reaches
<1>4. t.id = n.id
  BY DEF FrameTensor
<1>5. A!BadLevels(t) = {}
  BY <1>4, NoBadLevels
<1>6. c[0] < Len(S) /\ c[0] \in Nat /\ Len(S) \in Nat
  <2>1. 0 \in 0 .. D /\ (D > 0 \/ D = 0) /\ Level(S, p, 0) = S
    BY <1>1 DEF Level
  <2>2. Len(S) \in Nat /\ c[0] \in Nat /\ (D > 0 => c[0] < Len(S))
    BY <2>1, PathLevel
  <2> QED
    BY <2>1, <2>2
<1>7. A!depth = D /\ y \in Nat
  BY <1>1, <1>3, DepthIs DEF Seg
<1> DEFINE q == PathTo(s, p)
           d == CountsTo(s, c)
           a == EndsTo(s, b, y)
<1> DEFINE lv == s
<1>8. /\ Path(S, s, q, d) /\ Laid(S, s, q, d, a, y)
      /\ \A k \in 1 .. s : q[k] = p[k] /\ (k # s => d[k] = c[k])
      /\ d[s] = c[s] + 1 /\ (s # 0 => d[0] = c[0])
  <2> HIDE DEF s
  <2> QED
    BY <1>1, <1>3, <1>6, <1>7, PathCuts
<1>9. Len(aout) = c[0]
  BY <1>6, ItemsAppend
<1>10. A!OfferedTo(s, t) = Desc[Level(S, p, s)[c[s] + 1].id]
  BY <1>1, <1>4, OfferedIs
<1>11. \/ /\ s = 0 /\ astack' = <<>> /\ aout' = Append(aout, item[0]) /\ UNCHANGED afailed
       \/ /\ s > 0 /\ UNCHANGED <<aout, afailed>>
          /\ astack' = Append(SubSeq(astack, 1, s - 1),
                              [astack[s] EXCEPT !.members = Append(@, item[s]),
                                                !.v = A!push_member(@, A!OfferedTo(s, t))])
  BY <1>5 DEF A!PushTensor
<1> HIDE DEF s, item, q, d, a
<1>12. CASE s = 0
  <2>1. astack' = <<>> /\ aout' = Append(aout, item[0]) /\ UNCHANGED afailed
    BY <1>11, <1>12
  <2>2. item[0] = ItemOf[S[c[0] + 1]]
    BY <1>3, <1>12 DEF Level
  <2>3. aout' = ItemsOf(S, c[0] + 1)
    BY <1>6, <2>1, <2>2, ItemsAppend
  <2>4. astack' = Heads(s, q, d)
    BY <1>12, <2>1 DEF Heads
  <2>5. d[0] = c[0] + 1
    BY <1>8, <1>12
  <2>6. Cursor(S, y, astack', aout')
    BY <1>8, <2>3, <2>4, <2>5 DEF Cursor
  <2> QED
    BY <1>6, <1>9, <2>1, <2>2, <2>6
<1>13. CASE s # 0
  <2>1. s \in 1 .. D /\ s > 0
    BY <1>1, <1>13
  <2> DEFINE ms == p[s].members
             top == astack[s]
             f == SubSeq(astack, 1, s - 1)
             e == OpenHead(p[s], c[s] + 1)
  <2>2. Level(S, p, s) = ms
    BY <1>13 DEF Level
  <2>3. /\ top = OpenHead(p[s], c[s]) /\ c[s] \in Nat
        /\ push_member(top.v, Desc[ms[c[s] + 1].id]) = Seen(Desc[p[s].id], MemberDescs(p[s]), c[s] + 1)
    <3> DEFINE st == astack
               mm == ms
    <3>1. st = Heads(D, p, c) /\ mm = p[s].members
      OBVIOUS
    <3> HIDE DEF st, mm
    <3>2. /\ st[s] = OpenHead(p[s], c[s]) /\ c[s] \in Nat
          /\ push_member(st[s].v, Desc[mm[c[s] + 1].id]) = Seen(Desc[p[s].id], MemberDescs(p[s]), c[s] + 1)
      BY <2>1, <3>1, HeadOf
    <3> QED
      BY <3>2 DEF st, mm
  <2>4. astack' = Append(f, [top EXCEPT !.members = Append(@, item[s]),
                                         !.v = A!push_member(@, A!OfferedTo(s, t))])
        /\ UNCHANGED <<aout, afailed>>
    BY <1>11, <1>13
  <2>5. [top EXCEPT !.members = Append(@, item[s]), !.v = A!push_member(@, A!OfferedTo(s, t))] = e
    <3>1. top = [id |-> p[s].id, members |-> ItemsOf(ms, c[s]), v |-> Seen(Desc[p[s].id], MemberDescs(p[s]), c[s])]
      BY <2>3 DEF OpenHead
    <3>2. top.members = ItemsOf(ms, c[s]) /\ top.id = p[s].id
      BY <3>1
    <3>3. Append(top.members, item[s]) = ItemsOf(ms, c[s] + 1)
      <4>1. ItemsOf(ms, c[s] + 1) = Append(ItemsOf(ms, c[s]), ItemOf[ms[c[s] + 1]])
        <5>1. c[s] \in Nat
          BY <2>3
        <5> HIDE DEF ms
        <5> QED
          BY <5>1, ItemsAppend
      <4>2. item[s] = ItemOf[ms[c[s] + 1]]
        BY <1>3, <2>2
      <4> HIDE DEF ms, top
      <4> QED
        BY ONLY <3>2, <4>1, <4>2
    <3>4. A!push_member(top.v, A!OfferedTo(s, t)) = Seen(Desc[p[s].id], MemberDescs(p[s]), c[s] + 1)
      BY <1>10, <2>2, <2>3, SameRules
    <3>5. e = [id |-> p[s].id, members |-> ItemsOf(ms, c[s] + 1), v |-> Seen(Desc[p[s].id], MemberDescs(p[s]), c[s] + 1)]
      BY DEF OpenHead
    <3> HIDE DEF top, e
    <3>6. [top EXCEPT !.members = Append(@, item[s]), !.v = A!push_member(@, A!OfferedTo(s, t))]
           = [id |-> p[s].id, members |-> Append(top.members, item[s]), v |-> A!push_member(top.v, A!OfferedTo(s, t))]
      <4> DEFINE m == Append(top.members, item[s])
                 v == A!push_member(top.v, A!OfferedTo(s, t))
      <4> HIDE DEF m, v
      <4>1. [top EXCEPT !.members = m, !.v = v] = [id |-> p[s].id, members |-> m, v |-> v]
        <5> DEFINE i == p[s].id
                   j == ItemsOf(ms, c[s])
                   k == Seen(Desc[p[s].id], MemberDescs(p[s]), c[s])
                   h == [top EXCEPT !.members = m, !.v = v]
        <5>1. top = [id |-> i, members |-> j, v |-> k]
          BY <3>1
        <5> HIDE DEF i, j, k
        <5>2. top \in [id : {i}, members : {j}, v : {k}]
          BY ONLY <5>1
        <5>3. h \in [id : {i}, members : {m}, v : {v}]
          BY ONLY <5>2
        <5> HIDE DEF h
        <5>4. h = [id |-> i, members |-> m, v |-> v]
          BY ONLY <5>3
        <5> QED
          BY <5>4 DEF h, i
      <4> QED
        BY <4>1 DEF m, v
    <3> QED
      BY ONLY <3>3, <3>4, <3>5, <3>6
  <2>6. astack = [k \in 1 .. D |-> OpenHead(p[k], c[k])]
    BY DEF Heads
  <2>7. f = [k \in 1 .. s - 1 |-> OpenHead(p[k], c[k])]
    <3> DEFINE g == astack
               T == {OpenHead(p[k], c[k]) : k \in 1 .. D}
    <3>1. g \in Seq(T) /\ Len(g) = D /\ \A k \in 1 .. D : g[k] = OpenHead(p[k], c[k])
      BY <1>1, <2>6
    <3> HIDE DEF g
    <3>2. SubSeq(g, 1, s - 1) = [k \in 1 .. s - 1 |-> g[k]]
      BY <1>1, <2>1, <3>1
    <3>3. \A k \in 1 .. s - 1 : k \in 1 .. D
      BY <1>1, <2>1
    <3> QED
      BY <3>1, <3>2, <3>3 DEF g
  <2> HIDE DEF f, e, top, ms
  <2>8. Append(f, e) = [k \in 1 .. s |-> IF k = s THEN e ELSE f[k]]
    <3> DEFINE T == {OpenHead(p[k], c[k]) : k \in 1 .. D} \cup {e}
    <3>1. \A k \in 1 .. s - 1 : k \in 1 .. D
      BY <1>1, <2>1
    <3>2. f \in Seq(T) /\ e \in T /\ Len(f) = s - 1
      BY <2>1, <2>7, <3>1
    <3> HIDE DEF T
    <3>3. Append(f, e) = [k \in 1 .. Len(f) + 1 |-> IF k = Len(f) + 1 THEN e ELSE f[k]]
      BY <3>2, AppendElements
    <3>4. Len(f) + 1 = s
      BY <2>1, <3>2
    <3> QED
      BY <3>3, <3>4
  <2>9. Heads(s, q, d) = [k \in 1 .. s |-> OpenHead(q[k], d[k])]
    BY DEF Heads
  <2>10. \A k \in 1 .. s : OpenHead(q[k], d[k]) = IF k = s THEN e ELSE f[k]
    <3> SUFFICES ASSUME NEW k \in 1 .. s PROVE OpenHead(q[k], d[k]) = IF k = s THEN e ELSE f[k]
      OBVIOUS
    <3>1. CASE k = s
      BY <1>8, <3>1 DEF e
    <3>2. CASE k # s
      <4>1. k \in 1 .. s - 1
        BY <2>1, <3>2
      <4> QED
        BY <1>8, <2>7, <3>2, <4>1
    <3> QED
      BY <3>1, <3>2
  <2>11. Append(f, e) = Heads(s, q, d)
    BY ONLY <2>8, <2>9, <2>10
  <2>12. astack' = Heads(s, q, d)
    BY <2>4, <2>5, <2>11
  <2>13. aout' = ItemsOf(S, d[0])
    BY <1>8, <1>13, <2>4
  <2>14. Cursor(S, y, astack', aout')
    BY <1>8, <2>12, <2>13 DEF Cursor
  <2> QED
    BY <2>4, <2>14
<1> QED
  BY <1>12, <1>13
-----------------------------------------------------------------------------
(***************************************************************************)
(* The reader's side of the invariant, and its steps.                      *)
(***************************************************************************)
ReadSoFar == Len(RP!Images(delivered))
LInv == RP!FInv /\ ~ afailed /\ Cursor(SentNodes, ReadSoFar, astack, aout)

\* Where what the reader holds lies.
LEMMA HeldLies ==
  ASSUME WInv, RP!FInv, rstate # "Unusable"
  PROVE  /\ Seg(Rest(SentNodes, 1), ReadSoFar, pos, RP!Held) /\ ReadSoFar \in Nat
         /\ pos = ReadSoFar + Len(RP!Held) /\ pos \in 0 .. Len(Bytes)
         /\ RP!Held \in Seq(Byte) /\ Len(RP!Held) \in Nat /\ Len(Bytes) \in Nat
<1> DEFINE F == Rest(SentNodes, 1)
           s == RP!Images(delivered)
           h == RP!Held
<1>1. RP!IInv /\ RP!NoByteLost /\ RP!TypeOK
  BY DEF RP!FInv, RP!IInv
<1>2. s \in Seq(Byte) /\ h \in Seq(Byte)
  BY <1>1, Instance, SameBytes, RP!HeldType
<1>3. Bytes \in Seq(Byte) /\ Len(F) \in Nat /\ Len(Bytes) <= Len(F) /\ \A k \in 1 .. Len(Bytes) : Bytes[k] = F[k]
  BY WireOfNodes
<1>4. pos \in 0 .. Len(Bytes)
  BY <1>1 DEF RP!TypeOK
<1>5. SubSeq(Bytes, 1, pos) = s \o h
  BY <1>1, Instance, SameBytes, RP!LostMeans
<1> HIDE DEF F, s, h
<1>6. Len(SubSeq(Bytes, 1, pos)) = pos /\ \A k \in 1 .. pos : SubSeq(Bytes, 1, pos)[k] = Bytes[k]
  <2>1. Len(Bytes) \in Nat
    BY <1>3
  <2> QED
    BY <1>3, <1>4, <2>1
<1> DEFINE sh == s \o h
<1>7. sh \in Seq(Byte) /\ Len(sh) = pos /\ \A k \in 1 .. pos : sh[k] = Bytes[k]
  <2>1. sh \in Seq(Byte)
    BY <1>2
  <2> QED
    BY <1>5, <1>6, <2>1
<1>8. Seg(F, 0, pos, sh)
  <2> HIDE DEF sh
  <2>1. pos <= Len(F) /\ pos \in Nat
    BY <1>3, <1>4
  <2>2. \A k \in 1 .. Len(sh) : F[0 + k] = sh[k]
    <3> SUFFICES ASSUME NEW k \in 1 .. Len(sh) PROVE F[0 + k] = sh[k]
      OBVIOUS
    <3>1. k \in 1 .. pos /\ k \in 1 .. Len(Bytes) /\ 0 + k = k
      BY <1>3, <1>4, <1>7
    <3> QED
      BY <1>3, <1>7, <3>1
  <2> QED
    BY <1>7, <2>1, <2>2 DEF Seg
<1>9. Seg(F, 0 + Len(s), pos, h) /\ Len(s) \in Nat /\ Len(h) \in Nat
  <2>1. Seg(F, 0, pos, s \o h)
    BY <1>8
  <2> QED
    BY <1>2, <1>3, <2>1, SegSplit
<1>10. Seg(F, Len(s), pos, h)
  BY <1>9
<1>11. pos = Len(s) + Len(h)
  BY <1>10 DEF Seg
<1> QED
  BY <1>2, <1>3, <1>4, <1>9, <1>10, <1>11 DEF ReadSoFar, F, s, h

\* A reader past the start of a frame holds something.
LEMMA HeldNotEmpty ==
  ASSUME RP!FInv, rstate \in {"Prefix", "Descriptor", "Buffer", "TensorReady"},
         rstate = "Prefix" => filled > 0
  PROVE  Len(RP!Held) > 0
<1>1. RP!TypeOK /\ RP!Assembling /\ RP!Staged /\ RP!IInv
  BY DEF RP!FInv, RP!IInv
<1>2. CASE rstate \in {"Prefix", "Descriptor"}
  <2>1. Len(rstaging) = filled /\ RP!Held = rstaging
    BY <1>1, <1>2 DEF RP!Assembling, RP!Held, RP!InProgress
  <2>2. rstate = "Descriptor" => Len(rstaging) >= PrefixLen
    BY <1>1 DEF RP!Staged
  <2>3. filled \in Nat
    BY <1>1 DEF RP!TypeOK
  <2> QED
    BY <1>2, <2>1, <2>2, <2>3, PrefixLenAssumption
<1> DEFINE Positive(id) == encode(id) \in Seq(Byte) /\ Len(encode(id)) \in Nat /\ Len(encode(id)) > 0
<1>3. \A id \in Ids : Positive(id)
  <2> SUFFICES ASSUME NEW id \in Ids PROVE Positive(id)
    OBVIOUS
  <2> DEFINE none == <<>>
  <2>1. none \in Seq(Seq(Byte))
    OBVIOUS
  <2> HIDE DEF none
  <2>2. RP!encode(id) \in Seq(RP!Byte) /\ Len(RP!encode(id)) = Desc[id].len
    BY <2>1, Instance, SameBytes, RP!ImageType
  <2> QED
    BY <2>2, SameBytes, PipeLengthAssumption, DescAssumption DEF Ids
<1>4. CASE rstate = "Buffer"
  <2>1. pending \in Seq(RP!Tensor) /\ dest \in Seq(Byte) /\ Len(pending) = 1 /\ rstaging = encode(pending[1].id)
    <3>1. rstaging = RP!encode(pending[1].id)
      BY <1>1, <1>4 DEF RP!Staged
    <3> QED
      BY <1>1, <1>4, <3>1, SameBytes DEF RP!TypeOK, RP!Assembling
  <2>2. pending[1] \in RP!Tensor /\ pending # <<>>
    <3>1. Len(pending) = 1 /\ pending \in Seq(RP!Tensor)
      BY <2>1
    <3>2. pending # <<>>
      BY ONLY <3>1
    <3> QED
      BY <3>1, <3>2
  <2>3. pending[1].id \in Ids /\ pending[1].buffers \in Seq(Seq(Byte))
    BY <2>2, SameBytes DEF RP!Tensor
  <2> DEFINE e == encode(pending[1].id)
             f == WP!Joined(pending[1].buffers)
  <2>4. RP!Held = (e \o f) \o dest
    BY <1>4, <2>1, <2>2, SameBytes DEF RP!Held, RP!InProgress
  <2>5. f \in Seq(Byte)
    BY <2>3, Instance, WP!JoinedType
  <2>6. e \in Seq(Byte) /\ Len(e) > 0 /\ Len(e) \in Nat
    BY <1>3, <2>3
  <2> HIDE DEF e, f
  <2>7. Len(f) \in Nat /\ Len(dest) \in Nat /\ e \o f \in Seq(Byte) /\ Len(e \o f) = Len(e) + Len(f)
    BY <2>1, <2>5, <2>6
  <2> DEFINE g == e \o f
  <2>8. g \in Seq(Byte) /\ Len(g) > 0 /\ Len(g) \in Nat
    BY <2>6, <2>7
  <2> HIDE DEF g
  <2>9. Len(g \o dest) = Len(g) + Len(dest)
    BY <2>1, <2>8
  <2> QED
    BY <2>4, <2>7, <2>8, <2>9 DEF g
<1>5. CASE rstate = "TensorReady"
  <2>1. ready \in Seq(RP!Tensor) /\ Len(ready) = 1
    BY <1>1, <1>5 DEF RP!TypeOK, RP!Assembling
  <2>2. ready[1] \in RP!Tensor /\ ready = <<ready[1]>>
    BY <2>1, Instance, RP!Single
  <2>3. RP!Images(<<ready[1]>>) = RP!Image(ready[1])
    BY <2>2, Instance, RP!ImagesOfOne
  <2>4. RP!Held = encode(ready[1].id) \o WP!Joined(ready[1].buffers)
    <3>1. RP!Held = RP!Images(ready)
      BY <1>5 DEF RP!Held
    <3> QED
      BY <2>2, <2>3, <3>1, SameReader
  <2>5. ready[1].id \in Ids /\ ready[1].buffers \in Seq(Seq(Byte))
    BY <2>2, SameBytes DEF RP!Tensor
  <2> DEFINE e == encode(ready[1].id)
             f == WP!Joined(ready[1].buffers)
  <2>6. f \in Seq(Byte)
    BY <2>5, Instance, WP!JoinedType
  <2>7. e \in Seq(Byte) /\ Len(e) > 0 /\ Len(e) \in Nat
    BY <1>3, <2>5
  <2> HIDE DEF e, f
  <2>8. Len(e \o f) = Len(e) + Len(f) /\ Len(f) \in Nat
    BY <2>6, <2>7
  <2> QED
    BY <2>4, <2>7, <2>8 DEF e, f
<1> QED
  BY <1>2, <1>4, <1>5

\* While the reader holds something there is a next node, whose frame it is in.
LEMMA FrameAt ==
  ASSUME NodesWithinLimits, WInv, RP!FInv, rstate # "Unusable", Len(RP!Held) > 0,
         NEW D, NEW p, NEW c, Path(SentNodes, D, p, c), NEW b, Laid(SentNodes, D, p, c, b, ReadSoFar),
         NEW n, n = Next1(SentNodes, D, p, c)
  PROVE  /\ Heights(Height) /\ (\A m \in Nodes : WithinLimits(m))
         /\ SentNodes \in Seq(Nodes) /\ AllValid(SentNodes) /\ Len(Rest(SentNodes, 1)) \in Nat
         /\ (D > 0 \/ c[0] < Len(SentNodes))
         /\ AtFrame(n, Rest(SentNodes, 1), ReadSoFar) /\ Fit(n)
         /\ Seg(Rest(SentNodes, 1), ReadSoFar, pos, RP!Held)
<1> DEFINE S == SentNodes
           F == Rest(S, 1)
           x == ReadSoFar
<1>1. Heights(Height) /\ \A m \in Nodes : WithinLimits(m)
  <2>1. Heights(Height)
    BY HeightExists
  <2> QED
    BY <2>1 DEF NodesWithinLimits
<1>2. S \in Seq(Nodes) /\ AllValid(S) /\ Len(F) \in Nat /\ Len(S) \in Nat /\ Len(Bytes) <= Len(F)
  BY WireOfNodes
<1>3. /\ Seg(F, x, pos, RP!Held) /\ pos = x + Len(RP!Held) /\ x \in Nat /\ pos \in 0 .. Len(Bytes)
      /\ Len(RP!Held) \in Nat /\ Len(Bytes) \in Nat
  BY HeldLies
<1>4. Path(S, D, p, c) /\ Laid(S, D, p, c, b, x) /\ n = Next1(S, D, p, c)
  OBVIOUS
<1> HIDE DEF S, F, x
<1>5. D > 0 \/ c[0] < Len(S)
  <2> SUFFICES ASSUME ~ (D > 0), ~ (c[0] < Len(S)) PROVE FALSE
    OBVIOUS
  <2>1. D \in Nat /\ c[0] \in Nat /\ c[0] <= Len(S)
    <3>1. D \in Nat /\ c \in [0 .. D -> Nat] /\ c[0] <= Len(S)
      BY <1>4 DEF Path
    <3> QED
      BY <3>1
  <2>2. D = 0 /\ c[0] = Len(S)
    BY <1>2, <2>1
  <2>3. x = Len(F)
    BY <1>2, <1>4, <2>2, AllRead DEF F
  <2>4. pos <= Len(F)
    BY <1>2, <1>3
  <2>5. Len(RP!Held) > 0
    OBVIOUS
  <2> QED
    BY ONLY <1>2, <1>3, <2>3, <2>4, <2>5
<1>6. AtFrame(n, F, x)
  BY <1>1, <1>2, <1>4, <1>5, NextNode DEF F
<1>7. Fit(n)
  BY <1>6 DEF AtFrame
<1> QED
  BY <1>1, <1>2, <1>3, <1>5, <1>6, <1>7 DEF S, F, x

\* step() refuses nothing.
LEMMA StepGood ==
  ASSUME NodesWithinLimits, WInv, LInv, RP!ReadStep
  PROVE  rstate' \in {"Descriptor", "Buffer", "TensorReady"} /\ rstate \in {"Prefix", "Descriptor", "Buffer"}
<1>1. RP!FInv /\ Cursor(SentNodes, ReadSoFar, astack, aout)
  BY DEF LInv
<1>2. PICK D, p, c, b : Path(SentNodes, D, p, c) /\ Laid(SentNodes, D, p, c, b, ReadSoFar)
  BY <1>1 DEF Cursor
<1>3. rstate \in {"Prefix", "Descriptor", "Buffer"} /\ rstate # "Unusable"
  BY DEF RP!ReadStep, RP!StepPrefix, RP!StepDescriptor, RP!StepBuffer
<1>4. rstate = "Prefix" => filled > 0
  <2> SUFFICES ASSUME rstate = "Prefix" PROVE filled > 0
    OBVIOUS
  <2>1. RP!TypeOK /\ RP!Assembling
    BY <1>1 DEF RP!FInv, RP!IInv
  <2>2. RP!unfilled = 0
    BY DEF RP!ReadStep, RP!StepPrefix, RP!StepDescriptor, RP!StepBuffer
  <2>3. target = PrefixLen /\ target \in Nat /\ filled \in Nat
    BY <2>1 DEF RP!Assembling, RP!TypeOK
  <2> QED
    BY <2>2, <2>3, PrefixLenAssumption DEF RP!unfilled, RP!Filling
<1>5. Len(RP!Held) > 0
  BY <1>1, <1>3, <1>4, HeldNotEmpty
<1> DEFINE n == Next1(SentNodes, D, p, c)
           F == Rest(SentNodes, 1)
           x == ReadSoFar
<1>6. /\ Len(F) \in Nat /\ AtFrame(n, F, x) /\ Seg(F, x, pos, RP!Held)
  BY <1>1, <1>2, <1>3, <1>5, FrameAt
<1> HIDE DEF n, F, x
<1>7. CASE RP!StepPrefix
  <2>1. rstate' = "Descriptor"
    BY <1>1, <1>6, <1>7, PrefixGood
  <2> QED
    BY <1>3, <2>1
<1>8. CASE RP!StepDescriptor
  <2>1. rstate' \in {"TensorReady", "Buffer"}
    BY <1>1, <1>6, <1>8, DescriptorGood
  <2> QED
    BY <1>3, <2>1
<1>9. CASE RP!StepBuffer
  <2>1. rstate' \in {"TensorReady", "Buffer"}
    BY <1>1, <1>6, <1>9, BufferGood
  <2> QED
    BY <1>3, <2>1
<1> QED
  BY <1>7, <1>8, <1>9 DEF RP!ReadStep

\* A finished tensor is taken and pushed.
Delivers ==
  \/ aout' = aout
  \/ Len(aout) < Len(SentNodes) /\ aout' = Append(aout, ItemOf[SentNodes[Len(aout) + 1]])

LEMMA TakenAndPushed ==
  ASSUME NodesWithinLimits, WInv, LInv, RP!take_tensor, A!push(ready[1])
  PROVE  /\ UNCHANGED afailed /\ Delivers
         /\ Cursor(SentNodes, ReadSoFar', astack', aout')
<1>1. RP!FInv /\ ~ afailed /\ Cursor(SentNodes, ReadSoFar, astack, aout)
  BY DEF LInv
<1>2. PICK D, p, c, b : /\ Path(SentNodes, D, p, c) /\ Laid(SentNodes, D, p, c, b, ReadSoFar)
                        /\ astack = Heads(D, p, c) /\ aout = ItemsOf(SentNodes, c[0])
  BY <1>1 DEF Cursor
<1>3. rstate = "TensorReady" /\ rstate # "Unusable" /\ delivered' = delivered \o ready
  BY DEF RP!take_tensor
<1>4. Len(RP!Held) > 0
  BY <1>1, <1>3, HeldNotEmpty
<1> DEFINE n == Next1(SentNodes, D, p, c)
           F == Rest(SentNodes, 1)
           x == ReadSoFar
           S == SentNodes
           t == FrameTensor(n)
           z == x + Len(FrameBytes(n))
<1>5. /\ Heights(Height) /\ (\A m \in Nodes : WithinLimits(m))
      /\ S \in Seq(Nodes) /\ AllValid(S) /\ Len(F) \in Nat
      /\ (D > 0 \/ c[0] < Len(S)) /\ AtFrame(n, F, x) /\ Fit(n)
      /\ Seg(F, x, pos, RP!Held)
  BY <1>1, <1>2, <1>3, <1>4, FrameAt
<1>6. ready = <<t>> /\ ready[1] = t /\ t \in RP!Tensor /\ RP!Image(t) = FrameBytes(n)
  <2> HIDE DEF n, F, x
  <2>1. /\ ready = <<FrameTensor(n)>> /\ ready[1] = FrameTensor(n) /\ FrameTensor(n) \in RP!Tensor
        /\ RP!Image(ready[1]) = FrameBytes(n)
    BY <1>1, <1>3, <1>5, ReadyIsFrame
  <2> QED
    BY <2>1
<1>7. ReadSoFar' = z
  <2> HIDE DEF n, t
  <2>1. delivered \in Seq(RP!Tensor)
    BY <1>1 DEF RP!FInv, RP!IInv, RP!TypeOK
  <2>2. delivered' = Append(delivered, t)
    BY <1>3, <1>6, <2>1
  <2>3. RP!Images(Append(delivered, t)) = RP!Images(delivered) \o RP!Image(t)
    BY <1>6, <2>1, Instance, RP!ImagesAppend
  <2>4. RP!Images(delivered)' = RP!Images(delivered) \o FrameBytes(n)
    BY <1>6, <2>2, <2>3 DEF RP!Images, RP!Image
  <2>5. RP!Images(delivered) \in Seq(Byte) /\ FrameBytes(n) \in Seq(Byte)
    <3>1. RP!IInv
      BY <1>1 DEF RP!FInv
    <3> QED
      BY <1>5, <3>1, Instance, SameBytes, RP!HeldType, FrameStarts
  <2>6. Len(RP!Images(delivered) \o FrameBytes(n)) = Len(RP!Images(delivered)) + Len(FrameBytes(n))
    BY <2>5
  <2> QED
    BY <2>4, <2>6 DEF ReadSoFar
<1>8. Path(S, D, p, c) /\ Laid(S, D, p, c, b, x) /\ astack = Heads(D, p, c) /\ aout = ItemsOf(S, c[0])
  BY <1>2
<1>9. n = Next1(S, D, p, c) /\ t = FrameTensor(n) /\ z = x + Len(FrameBytes(n)) /\ t.id = n.id
  BY DEF FrameTensor
<1>10. (n.kind = "Tensor" <=> ~ IsHead(n.id)) /\ (n.kind = "Tensor" \/ n.kind = "Composite") /\ n \in Nodes
  BY <1>5, FitNode
<1>11. A!IsHead(t.id) <=> IsHead(n.id)
  BY <1>9, SameRules
<1> HIDE DEF n, F, x, S, t, z
<1>12. CASE n.kind = "Composite"
  <2>1. A!PushHead(t)
    BY <1>6, <1>10, <1>11, <1>12 DEF A!push, A!PushTensor
  <2> DEFINE y == x + Len(WP!Encoded[n])
             q == PathWith(D, p, n)
             d == CountsWith(D, c)
             a == EndsWith(D, b, y, z)
  <2>2. /\ Path(S, D + 1, q, d) /\ Laid(S, D + 1, q, d, a, z) /\ d[0] = c[0]
        /\ Heads(D + 1, q, d) = Append(Heads(D, p, c), OpenHead(n, 0))
    BY <1>5, <1>8, <1>9, <1>12, HeadOpens
  <2>3. D \in Nat /\ Height[n] + D <= MaxDepth
    BY <1>5, <1>8, <1>9, NextNode
  <2>4. /\ D < MaxDepth /\ HeadAccepted(Desc[n.id])
        /\ OpenHead(n, 0) = [id |-> n.id, members |-> <<>>, v |-> NewValidator(Desc[n.id])]
    <3>1. WP!Valid[n] /\ WithinLimits(n)
      BY <1>5 DEF Fit
    <3> QED
      BY <1>5, <1>10, <1>12, <2>3, <3>1, HeadFits
  <2>5. Len(astack) = D
    BY <1>8, <2>3 DEF Heads
  <2>6. A!HeadAccepted(Desc[t.id]) /\ A!NewValidator(Desc[t.id]) = NewValidator(Desc[n.id])
    BY <1>9, <2>4, SameRules
  <2>7. /\ astack' = Append(astack, [id |-> t.id, members |-> <<>>, v |-> A!NewValidator(Desc[t.id])])
        /\ UNCHANGED <<afailed, aout>>
    BY <2>1, <2>4, <2>5, <2>6 DEF A!PushHead
  <2> HIDE DEF q, d, a
  <2>8. astack' = Heads(D + 1, q, d)
    BY <1>8, <1>9, <2>2, <2>4, <2>6, <2>7
  <2>9. aout' = ItemsOf(S, d[0])
    BY <1>8, <2>2, <2>7
  <2>10. Cursor(S, z, astack', aout')
    BY <2>2, <2>8, <2>9 DEF Cursor
  <2> QED
    BY <1>7, <2>7, <2>10 DEF S, Delivers
<1>13. CASE n.kind = "Tensor"
  <2>1. A!PushTensor(t)
    BY <1>6, <1>10, <1>11, <1>13 DEF A!push, A!PushHead
  <2>2. z = x + Len(WP!Encoded[n])
    BY <1>5, <1>9, <1>13, ImageHasFrame
  <2>3. /\ UNCHANGED afailed
        /\ aout' = aout \/ (aout' = Append(aout, ItemOf[S[Len(aout) + 1]]) /\ Len(aout) < Len(S))
        /\ Cursor(S, z, astack', aout')
    BY <1>5, <1>8, <1>9, <1>13, <2>1, <2>2, TensorDelivered
  <2> QED
    BY <1>7, <2>3 DEF S, Delivers
<1> QED
  BY <1>10, <1>12, <1>13

\* One more node sent leaves the assembler where it is.
LEMMA CursorGrows ==
  ASSUME NEW S \in Seq(Nodes), NEW n \in Nodes, NEW x, NEW st, NEW out, Cursor(S, x, st, out)
  PROVE  Cursor(Append(S, n), x, st, out)
<1> DEFINE S2 == Append(S, n)
           F == Rest(S, 1)
           G == Rest(S2, 1)
           e == WP!Encoded[n]
<1>1. PICK D, p, c, b : /\ Path(S, D, p, c) /\ Laid(S, D, p, c, b, x)
                        /\ st = Heads(D, p, c) /\ out = ItemsOf(S, c[0])
  BY DEF Cursor
<1>2. /\ S2 \in Seq(Nodes) /\ Len(S) \in Nat /\ Len(S2) = Len(S) + 1 /\ \A k \in 1 .. Len(S) : S2[k] = S[k]
  OBVIOUS
<1>3. /\ D \in Nat /\ p \in [1 .. D -> Nodes] /\ c \in [0 .. D -> Nat] /\ c[0] <= Len(S) /\ c[0] \in Nat
      /\ \A k \in 1 .. D : OnPath(S, p, c, k)
  <2>1. /\ D \in Nat /\ p \in [1 .. D -> Nodes] /\ c \in [0 .. D -> Nat] /\ c[0] <= Len(S)
        /\ \A k \in 1 .. D : OnPath(S, p, c, k)
    BY <1>1 DEF Path
  <2>2. c[0] \in Nat
    BY <2>1
  <2> QED
    BY <2>1, <2>2
<1>4. F \in Seq(Byte) /\ e \in Seq(Byte) /\ G = F \o e /\ Len(F) \in Nat
  <2>1. 1 \in 1 .. Len(S) + 1
    BY <1>2
  <2>2. F \in Seq(Byte)
    BY <2>1, RestCases
  <2>3. G = F \o e
    BY <2>1, RestAppend
  <2>4. e \in Seq(Byte)
    BY ImageCases
  <2> QED
    BY <2>2, <2>3, <2>4
<1>5. Rest(S2, 1) = G /\ Rest(S, 1) = F
  OBVIOUS
<1>6. \A i \in 1 .. Len(S) + 1 : Rest(S2, i) = Rest(S, i) \o e /\ Rest(S, i) \in Seq(Byte)
  BY RestAppend, RestCases
<1> HIDE DEF S2, F, G, e
<1>7. G \in Seq(Byte) /\ Len(G) = Len(F) + Len(e) /\ Len(e) \in Nat /\ \A k \in 1 .. Len(F) : G[k] = F[k]
  BY <1>4
<1>8. ASSUME NEW k \in 1 .. D PROVE OnPath(S2, p, c, k)
  <2>1. OnPath(S, p, c, k)
    BY <1>3
  <2>2. CASE k = 1
    <3>1. Level(S, p, k - 1) = S /\ Level(S2, p, k - 1) = S2 /\ k - 1 = 0
      BY <2>2 DEF Level
    <3>2. c[0] < Len(S) /\ p[k] = S[c[0] + 1]
      BY <2>1, <3>1 DEF OnPath
    <3>3. c[0] + 1 \in 1 .. Len(S)
      BY <1>2, <1>3, <3>2
    <3>4. c[k - 1] < Len(Level(S2, p, k - 1)) /\ p[k] = Level(S2, p, k - 1)[c[k - 1] + 1]
      BY <1>2, <1>3, <3>1, <3>2, <3>3
    <3> QED
      BY <2>1, <3>4 DEF OnPath
  <2>3. CASE k # 1
    <3>1. k - 1 # 0
      BY <2>3
    <3>2. Level(S2, p, k - 1) = Level(S, p, k - 1)
      BY <3>1 DEF Level
    <3> QED
      BY <2>1, <3>2 DEF OnPath
  <2> QED
    BY <2>2, <2>3
<1>9. Path(S2, D, p, c)
  <2>1. c[0] <= Len(S2)
    BY <1>2, <1>3
  <2> QED
    BY <1>3, <1>8, <2>1 DEF Path
<1> DEFINE a == [k \in 0 .. D + 1 |-> IF k = 0 THEN Len(G) ELSE b[k]]
<1>10. /\ b \in [0 .. D + 1 -> Nat] /\ b[0] = Len(F) /\ b[D + 1] = x
       /\ \A k \in 0 .. D : Seg(F, b[k + 1], b[k], Rest(Level(S, p, k), After(D, c, k)))
  BY <1>1, <1>5 DEF Laid
<1>11. a \in [0 .. D + 1 -> Nat] /\ a[0] = Len(G) /\ \A k \in 1 .. D + 1 : a[k] = b[k]
  <2>1. Len(G) \in Nat
    BY <1>7
  <2>2. 0 \in 0 .. D + 1 /\ \A k \in 1 .. D + 1 : k \in 0 .. D + 1 /\ k # 0
    BY <1>3
  <2>3. a \in [0 .. D + 1 -> Nat]
    BY ONLY <1>10, <2>1
  <2> QED
    BY ONLY <2>2, <2>3
<1> HIDE DEF a
<1>12. ASSUME NEW k \in 0 .. D PROVE Seg(G, a[k + 1], a[k], Rest(Level(S2, p, k), After(D, c, k)))
  <2>1. a[k + 1] = b[k + 1]
    <3>1. k + 1 \in 1 .. D + 1
      BY <1>3
    <3> QED
      BY <1>11, <3>1
  <2> DEFINE i == After(D, c, k)
  <2>2. CASE k = 0
    <3>1. Level(S, p, k) = S /\ Level(S2, p, k) = S2
      BY <2>2 DEF Level
    <3>2. i \in 1 .. Len(S) + 1
      <4>1. D # 0 => c[0] < Len(S)
        <5> SUFFICES ASSUME D # 0 PROVE c[0] < Len(S)
          OBVIOUS
        <5>1. 1 \in 1 .. D /\ 1 - 1 = 0
          BY <1>3
        <5>2. OnPath(S, p, c, 1)
          BY <1>3, <5>1
        <5>3. c[1 - 1] < Len(Level(S, p, 1 - 1))
          BY <5>2 DEF OnPath
        <5> QED
          BY <2>2, <3>1, <5>1, <5>3
      <4>2. i = IF D = 0 THEN c[0] + 1 ELSE c[0] + 2
        BY <2>2 DEF After
      <4> HIDE DEF i
      <4> QED
        BY <1>2, <1>3, <4>1, <4>2
    <3> DEFINE r == Rest(S, i)
               y == b[k + 1]
    <3>3. Seg(F, y, Len(F), r) /\ r \in Seq(Byte) /\ Rest(S2, i) = r \o e
      BY <1>6, <1>10, <2>2, <3>1, <3>2
    <3>4. a[k] = Len(F \o e) /\ G = F \o e
      BY <1>4, <1>11, <2>2
    <3> HIDE DEF r, y, i
    <3>5. Seg(F \o e, y, Len(F \o e), r \o e)
      BY <1>4, <3>3, SegJoin
    <3> QED
      BY <2>1, <3>1, <3>3, <3>4, <3>5 DEF y, i
  <2>3. CASE k # 0
    <3>1. Level(S2, p, k) = Level(S, p, k)
      BY <2>3 DEF Level
    <3> DEFINE r == Rest(Level(S, p, k), i)
    <3>2. Seg(F, b[k + 1], b[k], r)
      BY <1>10
    <3>3. a[k] = b[k]
      <4>1. k \in 1 .. D + 1
        BY <1>3, <2>3
      <4> QED
        BY <1>11, <4>1
    <3>4. r \in Seq(Byte)
      <4>1. k \in 1 .. D
        BY <1>3, <2>3
      <4>2. p[k] \in Nodes /\ OnPath(S, p, c, k) /\ c[k] \in Nat
        BY <1>3, <4>1
      <4> DEFINE ms == p[k].members
      <4>3. ms \in Seq(Nodes) /\ c[k] < Len(ms) /\ Len(ms) \in Nat
        <5>1. p[k].members \in Seq(Nodes)
          BY <4>2, PipeNodesAssumption
        <5> QED
          BY <4>2, <5>1 DEF OnPath
      <4>4. i = c[k] + 1 \/ i = c[k] + 2
        BY DEF After
      <4>5. Level(S, p, k) = ms
        BY <2>3 DEF Level
      <4> HIDE DEF ms, i
      <4>6. i \in 1 .. Len(ms) + 1
        BY <4>2, <4>3, <4>4
      <4> QED
        BY <4>3, <4>5, <4>6, RestCases
    <3> HIDE DEF r
    <3>5. Seg(G, b[k + 1], b[k], r)
      <4>1. Len(r) \in Nat /\ Len(F) <= Len(G) /\ Len(G) \in Nat
        BY <1>4, <1>7, <3>4
      <4> DEFINE y == b[k + 1]
                 u == b[k]
      <4>2. Seg(F, y, u, r)
        BY <3>2
      <4> HIDE DEF y, u
      <4>3. Seg(G, y, u, r)
        BY <1>4, <1>7, <4>1, <4>2, SegGrows
      <4> QED
        BY <4>3 DEF y, u
    <3> QED
      BY <2>1, <3>1, <3>3, <3>5 DEF r
  <2> QED
    BY <2>2, <2>3
<1>13. Laid(S2, D, p, c, a, x)
  <2>1. a[D + 1] = x
    <3>1. D + 1 \in 1 .. D + 1
      BY <1>3
    <3> QED
      BY <1>10, <1>11, <3>1
  <2> QED
    BY <1>5, <1>11, <1>12, <2>1 DEF Laid
<1>14. out = ItemsOf(S2, c[0])
  <2>1. \A j \in 1 .. c[0] : j \in 1 .. Len(S)
    BY <1>2, <1>3
  <2>2. out = [j \in 1 .. c[0] |-> ItemOf[S[j]]]
    BY <1>1 DEF ItemsOf
  <2>3. ItemsOf(S2, c[0]) = [j \in 1 .. c[0] |-> ItemOf[S2[j]]]
    BY DEF ItemsOf
  <2> QED
    BY <1>2, <2>1, <2>2, <2>3
<1> QED
  BY <1>1, <1>9, <1>13, <1>14 DEF Cursor, S2
-----------------------------------------------------------------------------
(***************************************************************************)
(* The end of the input.                                                   *)
(***************************************************************************)

\* The wire ends inside the last image, or after it; after it if that item is done.
LEMMA WireTail ==
  ASSUME WInv, Len(SentNodes) > 0, NEW last, last = SentNodes[Len(SentNodes)]
  PROVE  /\ wire # <<>> /\ Len(WP!Encoded[last]) \in Nat
         /\ Len(Rest(SentNodes, 1)) < Len(wire) + Len(WP!Encoded[last])
         /\ wire[Len(wire)].item \in done => Len(wire) = Len(Rest(SentNodes, 1))
<1>1. /\ Started \in Seq(1 .. Len(submitted)) /\ submitted \in Seq(Items) /\ wire \in Seq(WP!WireByte)
      /\ Len(wire) \in Nat /\ (wire # <<>> => wire[Len(wire)].item \in 1 .. Len(submitted))
  BY WriterTypes
<1>2. OnWire(wire, Started, submitted, done)
  BY DEF WInv
<1>3. /\ Len(SentNodes) = Len(Started) /\ Len(Started) \in Nat
      /\ \A k \in 1 .. Len(Started) : SentNodes[k] = submitted[Started[k]]
  BY <1>1, NodesType DEF SentNodes
<1>4. wire # <<>>
  <2>1. Started # <<>>
    <3>1. Len(Started) > 0
      BY <1>3
    <3> QED
      BY ONLY <3>1
  <2> QED
    BY <1>2, <2>1 DEF OnWire
<1> DEFINE w == wire[Len(wire)]
           i == w.item
<1>5. /\ Started[Len(Started)] = i
      /\ Len(wire) + Len(WP!Encoded[submitted[i]]) = Len(StreamOf(Started, submitted)) + w.nth
      /\ i \in done => Len(wire) = Len(StreamOf(Started, submitted))
  BY <1>2, <1>4 DEF OnWire, ToTheEnd
<1>6. last = submitted[i]
  <2>1. Len(Started) \in 1 .. Len(Started)
    BY <1>3
  <2> QED
    BY <1>3, <1>5, <2>1
<1>7. StreamOf(Started, submitted) = Rest(SentNodes, 1) /\ Len(Rest(SentNodes, 1)) \in Nat
  BY WireOfNodes DEF StreamOf, SentNodes
<1>8. last \in Nodes /\ i \in DOMAIN submitted
  <2>1. i \in 1 .. Len(submitted)
    BY <1>1, <1>4
  <2>2. i \in DOMAIN submitted /\ submitted[i] \in Items
    BY <1>1, <2>1
  <2> QED
    BY <1>6, <2>2, PipeBoundsAssumption
<1>9. WP!Encoded[last] \in Seq(Byte)
  BY <1>8, ImageCases
<1>10. w.nth \in DOMAIN WP!Encoded[submitted[i]]
  <2>1. WP!WireBytes
    BY DEF WInv, WP!EInv
  <2>2. Len(wire) \in DOMAIN wire
    <3>1. Len(wire) # 0
      BY <1>1, <1>4
    <3> QED
      BY <1>1, <3>1
  <2>3. WP!ByteOf(WP!Encoded[submitted[wire[Len(wire)].item]], wire[Len(wire)])
    BY <2>1, <2>2 DEF WP!WireBytes
  <2> QED
    BY <2>3 DEF WP!ByteOf
<1>11. w.nth \in Nat /\ w.nth >= 1 /\ Len(WP!Encoded[last]) \in Nat
  BY <1>6, <1>9, <1>10
<1> QED
  BY <1>1, <1>4, <1>5, <1>6, <1>7, <1>11

\* What is left before the last image has begins on the wire.
LEMMA TailShort ==
  ASSUME WInv, NEW i \in 1 .. Len(SentNodes), NEW e,
         Seg(Rest(SentNodes, 1), e, Len(Rest(SentNodes, 1)), Rest(SentNodes, i))
  PROVE  e < Len(wire)
<1> DEFINE S == SentNodes
           F == Rest(S, 1)
           last == S[Len(S)]
           r == Rest(S, i)
<1>1. S \in Seq(Nodes) /\ Len(S) \in Nat /\ Len(F) \in Nat /\ Len(wire) \in Nat
  BY WireOfNodes
<1>2. Len(S) > 0
  BY <1>1
<1>3. Len(WP!Encoded[last]) \in Nat /\ Len(F) < Len(wire) + Len(WP!Encoded[last])
  BY <1>2, WireTail
<1>4. Len(r) >= Len(WP!Encoded[last]) /\ Len(r) \in Nat
  BY <1>1, RestHoldsLast
<1>5. e \in Nat /\ Len(F) = e + Len(r)
  BY DEF Seg
<1> HIDE DEF S, F, last, r
<1> QED
  BY ONLY <1>1, <1>3, <1>4, <1>5

\* What is left of the levels ends further and further.
LEMMA LaidDown ==
  ASSUME Heights(Height), NEW S \in Seq(Nodes), AllValid(S), NEW D, NEW p, NEW c, Path(S, D, p, c),
         NEW b, NEW x, Laid(S, D, p, c, b, x), NEW k \in 0 .. D
  PROVE  b[k + 1] <= b[k] /\ b[k] \in Nat /\ b[k + 1] \in Nat
<1> DEFINE ms == Level(S, p, k)
           i == After(D, c, k)
           r == Rest(ms, i)
<1>1. D \in Nat
  BY DEF Path
<1>2. ms \in Seq(Nodes) /\ Len(ms) \in Nat /\ c[k] \in Nat /\ c[k] <= Len(ms) /\ (k < D => c[k] < Len(ms))
  BY PathLevel
<1>3. i \in 1 .. Len(ms) + 1
  <2>1. i = IF k = D THEN c[k] + 1 ELSE c[k] + 2
    BY DEF After
  <2>2. k # D => k < D
    BY <1>1
  <2> HIDE DEF i, ms
  <2> QED
    BY <1>2, <2>1, <2>2
<1>4. r \in Seq(Byte)
  BY <1>2, <1>3, RestCases
<1>5. Seg(Rest(S, 1), b[k + 1], b[k], r)
  BY DEF Laid
<1>6. Len(r) \in Nat
  BY <1>4
<1>7. b[k + 1] \in Nat /\ b[k] = b[k + 1] + Len(r)
  BY <1>5 DEF Seg
<1> HIDE DEF r
<1> QED
  BY ONLY <1>6, <1>7

\* The image of the item in progress ends where what is left of the items begins.
LEMMA EndOfItem ==
  ASSUME Heights(Height), NEW S \in Seq(Nodes), AllValid(S), NEW D, NEW p, NEW c, Path(S, D, p, c),
         NEW b, NEW x, Laid(S, D, p, c, b, x), NEW y \in Nat,
         Seg(Rest(S, 1), y, b[D], Rest(Level(S, p, D), c[D] + 2))
  PROVE  \E e \in Nat : y <= e /\ Seg(Rest(S, 1), e, Len(Rest(S, 1)), Rest(S, c[0] + 2))
<1> DEFINE F == Rest(S, 1)
<1>1. D \in Nat
  BY DEF Path
<1>2. /\ b[0] = Len(F)
      /\ \A k \in 0 .. D : Seg(F, b[k + 1], b[k], Rest(Level(S, p, k), After(D, c, k)))
  BY DEF Laid
<1>3. CASE D = 0
  <2>1. Level(S, p, D) = S
    BY <1>3 DEF Level
  <2>2. Seg(F, y, Len(F), Rest(S, c[0] + 2))
    BY <1>2, <1>3, <2>1
  <2> QED
    BY <2>2
<1>4. CASE D # 0
  <2> DEFINE T == {j \in 0 .. D - 1 : ~ (y <= b[D - j])}
  <2>1. T = {}
    <3> SUFFICES ASSUME T # {} PROVE FALSE
      OBVIOUS
    <3>1. T \subseteq Nat
      OBVIOUS
    <3>2. PICK j \in T : \A l \in T : j <= l
      BY <3>1, Least
    <3>3. j \in 0 .. D - 1 /\ j \in Nat /\ ~ (y <= b[D - j])
      BY <3>1
    <3>4. \A l \in 0 .. D - 1 : l < j => y <= b[D - l]
      BY <1>1, <3>2, <3>3
    <3> HIDE DEF T
    <3>5. CASE j = 0
      <4>1. D \in 0 .. D /\ D - j = D
        BY <1>1, <3>5
      <4>2. b[D] \in Nat
        BY <4>1, LaidDown
      <4> DEFINE r == Rest(Level(S, p, D), c[D] + 2)
                 ms == Level(S, p, D)
      <4>3. ms \in Seq(Nodes) /\ Len(ms) \in Nat /\ c[D] \in Nat /\ c[D] < Len(ms)
        <5>1. D > 0
          BY <1>1, <1>4
        <5> QED
          BY <4>1, <5>1, PathLevel
      <4> HIDE DEF ms
      <4>4. c[D] + 2 \in 1 .. Len(ms) + 1
        BY <4>3
      <4>5. r \in Seq(Byte)
        BY <4>3, <4>4, RestCases DEF ms
      <4>6. Len(r) \in Nat
        BY <4>5
      <4>7. b[D] = y + Len(r)
        BY DEF Seg
      <4> HIDE DEF r
      <4> QED
        BY <3>3, <4>1, <4>2, <4>6, <4>7
    <3>6. CASE j # 0
      <4> DEFINE k == D - j
      <4>1. j - 1 \in 0 .. D - 1 /\ j - 1 < j /\ D - (j - 1) = k + 1 /\ k \in 0 .. D
        BY <1>1, <3>3, <3>6
      <4>2. y <= b[D - (j - 1)]
        BY <3>4, <4>1
      <4>3. y <= b[k + 1]
        BY <4>1, <4>2
      <4> HIDE DEF k
      <4>4. b[k + 1] <= b[k] /\ b[k] \in Nat /\ b[k + 1] \in Nat
        BY <4>1, LaidDown
      <4>5. y <= b[k]
        BY ONLY <4>3, <4>4, y \in Nat
      <4> QED
        BY <3>3, <4>5 DEF k
    <3> QED
      BY <3>5, <3>6
  <2>2. D - 1 \in 0 .. D - 1 /\ D - (D - 1) = 1 /\ 0 \in 0 .. D /\ 0 + 1 = 1
    BY <1>1, <1>4
  <2>3. y <= b[1]
    BY <2>1, <2>2
  <2>4. Seg(F, b[1], Len(F), Rest(S, c[0] + 2))
    <3>1. Seg(F, b[0 + 1], b[0], Rest(Level(S, p, 0), After(D, c, 0)))
      BY <1>2, <2>2
    <3>2. Level(S, p, 0) = S /\ After(D, c, 0) = c[0] + 2
      BY <1>4 DEF Level, After
    <3> QED
      BY <1>2, <2>2, <3>1, <3>2
  <2>5. b[1] \in Nat
    BY <2>4 DEF Seg
  <2> QED
    BY <2>3, <2>4, <2>5
<1> QED
  BY <1>3, <1>4

\* All that was sent was returned, or all but the last item, which was not reported written.
Complete == Len(aout) = Len(SentNodes)
Missing ==
  Len(aout) + 1 = Len(SentNodes) /\ wire # <<>> /\ wire[Len(wire)].item \notin done
CleanEnd == rstate = "Finished" /\ astack = <<>>
EndInv ==
  rstate \in {"Finished", "Failed"} => closed /\ (CleanEnd => Complete) /\ (~ CleanEnd => Missing)

\* The end of the input inside an item.
LEMMA CutShort ==
  ASSUME NodesWithinLimits, WInv, NEW D, NEW p, NEW c, Path(SentNodes, D, p, c),
         NEW b, NEW x, Laid(SentNodes, D, p, c, b, x), aout = ItemsOf(SentNodes, c[0]),
         D > 0 \/ c[0] < Len(SentNodes), NEW n, n = Next1(SentNodes, D, p, c),
         pos = Len(Bytes), pos < x + Len(WP!Encoded[n])
  PROVE  Missing
<1> DEFINE S == SentNodes
           F == Rest(S, 1)
           y == x + Len(WP!Encoded[n])
<1>1. Heights(Height) /\ \A m \in Nodes : WithinLimits(m)
  <2>1. Heights(Height)
    BY HeightExists
  <2> QED
    BY <2>1 DEF NodesWithinLimits
<1>2. S \in Seq(Nodes) /\ AllValid(S) /\ Len(F) \in Nat /\ Len(S) \in Nat /\ Len(Bytes) = Len(wire) /\ Len(wire) \in Nat
  BY WireOfNodes
<1>3. Path(S, D, p, c) /\ Laid(S, D, p, c, b, x) /\ n = Next1(S, D, p, c) /\ (D > 0 \/ c[0] < Len(S))
  OBVIOUS
<1>4. pos < y
  OBVIOUS
<1> HIDE DEF S, F, y
<1>5. Seg(F, y, b[D], Rest(Level(S, p, D), c[D] + 2))
  BY <1>1, <1>2, <1>3, NextNode DEF F, y
<1>6. y \in Nat
  BY <1>5 DEF Seg
<1>7. PICK e \in Nat : y <= e /\ Seg(F, e, Len(F), Rest(S, c[0] + 2))
  <2>1. \E e \in Nat : y <= e /\ Seg(Rest(S, 1), e, Len(Rest(S, 1)), Rest(S, c[0] + 2))
    BY <1>1, <1>2, <1>3, <1>5, <1>6, EndOfItem DEF F
  <2> QED
    BY <2>1 DEF F
<1>8. c[0] < Len(S) /\ c[0] \in Nat
  <2>1. D \in Nat /\ c[0] \in Nat
    <3>1. D \in Nat /\ c \in [0 .. D -> Nat]
      BY <1>3 DEF Path
    <3> QED
      BY <3>1
  <2>2. 0 \in 0 .. D /\ Level(S, p, 0) = S
    BY <2>1 DEF Level
  <2>3. D > 0 => c[0] < Len(Level(S, p, 0))
    BY <1>1, <1>2, <1>3, <2>2, PathLevel
  <2> QED
    BY <1>3, <2>1, <2>2, <2>3
<1>9. Len(wire) < e
  BY <1>2, <1>4, <1>6, <1>7
<1>10. c[0] + 1 = Len(S)
  <2> SUFFICES ASSUME c[0] + 1 # Len(S) PROVE FALSE
    OBVIOUS
  <2>1. c[0] + 2 \in 1 .. Len(S)
    BY <1>2, <1>8
  <2>2. e < Len(wire)
    BY <1>7, <2>1, TailShort DEF S, F
  <2> QED
    BY <1>2, <1>9, <2>2
<1>11. Len(wire) < Len(F)
  <2>1. e <= Len(F)
    <3> DEFINE r == Rest(S, c[0] + 2)
    <3>1. r = <<>>
      <4>1. c[0] + 2 = Len(S) + 1 /\ Len(S) + 1 \in 1 .. Len(S) + 1
        BY <1>2, <1>8, <1>10
      <4> DEFINE i == c[0] + 2
      <4>2. i \in 1 .. Len(S) + 1 /\ i = Len(S) + 1
        BY <4>1
      <4> HIDE DEF i
      <4>3. Rest(S, i) = <<>>
        BY <1>2, <4>2, RestCases
      <4> QED
        BY <4>3 DEF i
    <3>2. Len(F) = e + Len(r)
      BY <1>7 DEF Seg
    <3> HIDE DEF r
    <3>3. Len(r) = 0
      BY <3>1
    <3> QED
      BY ONLY <3>2, <3>3, e \in Nat
  <2> QED
    BY <1>2, <1>9, <2>1
<1>12. wire # <<>> /\ (wire[Len(wire)].item \in done => Len(wire) = Len(F))
  <2>1. Len(S) > 0
    BY <1>2, <1>8
  <2> QED
    BY <2>1, WireTail DEF S, F
<1>13. wire[Len(wire)].item \notin done
  BY <1>2, <1>11, <1>12
<1>14. Len(aout) = c[0]
  <2>1. aout = ItemsOf(SentNodes, c[0])
    OBVIOUS
  <2> QED
    BY <1>8, <2>1, ItemsAppend
<1> QED
  BY <1>10, <1>12, <1>13, <1>14 DEF Missing, S

\* What the end of the input means.
LEMMA EofMeans ==
  ASSUME NodesWithinLimits, WInv, LInv, RP!ReportEof, astack' = astack
  PROVE  /\ closed /\ (rstate' = "Finished" /\ astack = <<>> => Complete)
         /\ (~ (rstate' = "Finished" /\ astack = <<>>) => Missing)
<1>1. RP!FInv /\ Cursor(SentNodes, ReadSoFar, astack, aout)
  BY DEF LInv
<1>2. RP!TypeOK /\ RP!Assembling
  BY <1>1 DEF RP!FInv, RP!IInv
<1>3. PICK D, p, c, b : /\ Path(SentNodes, D, p, c) /\ Laid(SentNodes, D, p, c, b, ReadSoFar)
                        /\ astack = Heads(D, p, c) /\ aout = ItemsOf(SentNodes, c[0])
  BY <1>1 DEF Cursor
<1>4. /\ RP!Filling /\ RP!unfilled > 0 /\ closed /\ pos = Len(Bytes) /\ rstate # "Unusable"
      /\ rstate \in {"Prefix", "Descriptor", "Buffer"}
      /\ rstate' = (IF rstate = "Prefix" /\ filled = 0 THEN "Finished" ELSE "Failed")
  BY DEF RP!ReportEof, RP!Filling
<1> DEFINE S == SentNodes
           x == ReadSoFar
           F == Rest(S, 1)
           n == Next1(S, D, p, c)
<1>5. Heights(Height) /\ \A m \in Nodes : WithinLimits(m)
  <2>1. Heights(Height)
    BY HeightExists
  <2> QED
    BY <2>1 DEF NodesWithinLimits
<1>6. /\ S \in Seq(Nodes) /\ AllValid(S) /\ Len(F) \in Nat /\ Len(S) \in Nat
      /\ Len(Bytes) = Len(wire) /\ Len(wire) \in Nat
  BY WireOfNodes
<1>7. /\ pos = x + Len(RP!Held) /\ x \in Nat /\ Len(RP!Held) \in Nat
  BY <1>1, <1>4, HeldLies
<1>8. D \in Nat /\ c[0] \in Nat /\ c[0] <= Len(S)
  <2>1. D \in Nat /\ c \in [0 .. D -> Nat] /\ c[0] <= Len(S)
    BY <1>3 DEF Path
  <2> QED
    BY <2>1
<1>9. ASSUME D > 0 \/ c[0] < Len(S), pos < x + Len(WP!Encoded[n]) PROVE Missing
  BY <1>3, <1>4, <1>9, CutShort
<1>10. CASE rstate = "Prefix" /\ filled = 0
  <2>1. Len(RP!Held) = 0
    BY <1>2, <1>10 DEF RP!Assembling, RP!Held, RP!InProgress
  <2>2. pos = x
    BY <1>7, <2>1
  <2>3. CASE D = 0
    <3>1. c[0] = Len(S)
      <4> SUFFICES ASSUME c[0] < Len(S) PROVE FALSE
        BY <1>6, <1>8
      <4>1. c[0] + 1 \in 1 .. Len(S)
        BY <1>6, <1>8
      <4>2. Seg(F, x, Len(F), Rest(S, c[0] + 1))
        <5>1. 0 \in 0 .. D /\ 0 + 1 = 1 /\ D + 1 = 1
          BY <2>3
        <5>2. Seg(F, b[0 + 1], b[0], Rest(Level(S, p, 0), After(D, c, 0))) /\ b[0] = Len(F) /\ b[D + 1] = x
          BY <1>3, <5>1 DEF Laid
        <5>3. Level(S, p, 0) = S /\ After(D, c, 0) = c[0] + 1
          BY <2>3 DEF Level, After
        <5> QED
          BY <5>1, <5>2, <5>3
      <4>3. x < Len(wire)
        BY <4>1, <4>2, TailShort
      <4> QED
        BY <1>4, <1>6, <1>7, <2>2, <4>3
    <3>2. Complete
      <4>1. Len(aout) = c[0]
        BY <1>3, <1>8, ItemsAppend
      <4> QED
        BY <3>1, <4>1 DEF Complete
    <3>3. astack = <<>>
      <4>1. astack = [k \in 1 .. 0 |-> OpenHead(p[k], c[k])]
        BY <1>3, <2>3 DEF Heads
      <4> QED
        BY <4>1
    <3>4. rstate' = "Finished"
      BY <1>4, <1>10
    <3> QED
      BY <1>4, <3>2, <3>3, <3>4
  <2>4. CASE D # 0
    <3>1. D > 0
      BY <1>8, <2>4
    <3>2. astack # <<>>
      <4>1. Len(astack) = D
        BY <1>3, <1>8 DEF Heads
      <4>2. Len(astack) # 0
        BY <2>4, <4>1
      <4> QED
        BY ONLY <4>2
    <3>3. n \in Nodes
      <4> DEFINE m == n
      <4>1. m = Next1(S, D, p, c)
        OBVIOUS
      <4> HIDE DEF m
      <4>2. m \in Nodes
        BY <1>3, <1>5, <1>6, <3>1, <4>1, NextNode
      <4> QED
        BY <4>2 DEF m
    <3>4. Len(WP!Encoded[n]) > 0 /\ Len(WP!Encoded[n]) \in Nat
      <4>1. WP!Encoded[n] \in Seq(Byte) /\ Len(WP!Encoded[n]) > 0
        BY <3>3, ImageCases
      <4> QED
        BY <4>1
    <3>5. pos < x + Len(WP!Encoded[n])
      <4> HIDE DEF n, x
      <4> QED
        BY <1>7, <2>2, <3>4
    <3>6. Missing
      BY <1>9, <3>1, <3>5
    <3> QED
      BY <1>4, <3>2, <3>6
  <2> QED
    BY <2>3, <2>4
<1>11. CASE ~ (rstate = "Prefix" /\ filled = 0)
  <2>1. Len(RP!Held) > 0
    <3>1. filled \in Nat
      BY <1>2 DEF RP!TypeOK
    <3>2. rstate = "Prefix" => filled > 0
      BY <1>11, <3>1
    <3> QED
      BY <1>1, <1>4, <3>2, HeldNotEmpty
  <2>2. /\ D > 0 \/ c[0] < Len(S)
        /\ AtFrame(n, F, x) /\ Fit(n) /\ Seg(F, x, pos, RP!Held)
    BY <1>1, <1>3, <1>4, <2>1, FrameAt
  <2>3. pos < x + Len(FrameBytes(n))
    <3> HIDE DEF n, F, x
    <3> QED
      BY <1>1, <1>4, <1>6, <2>2, FrameUnfinished
  <2>4. Len(FrameBytes(n)) <= Len(WP!Encoded[n]) /\ Len(FrameBytes(n)) \in Nat /\ Len(WP!Encoded[n]) \in Nat
    <3> HIDE DEF n
    <3>1. n \in Nodes /\ (n.kind = "Tensor" \/ n.kind = "Composite")
      BY <2>2, FitNode
    <3> DEFINE e == WP!Encoded[n]
               f == FrameBytes(n)
               r == Rest(n.members, 1)
    <3>2. e \in Seq(Byte) /\ f \in Seq(Byte)
      BY <2>2, <3>1, ImageCases, FrameStarts
    <3>3. (n.kind = "Tensor" => e = f) /\ (n.kind # "Tensor" => e = f \o r)
      BY <2>2, ImageHasFrame
    <3>4. r \in Seq(Byte)
      <4>1. n.members \in Seq(Nodes)
        BY <3>1, PipeNodesAssumption
      <4>2. 1 \in 1 .. Len(n.members) + 1
        <5>1. Len(n.members) \in Nat
          BY <4>1
        <5> QED
          BY <5>1
      <4> QED
        BY <4>1, <4>2, RestCases
    <3> HIDE DEF e, f, r
    <3>5. Len(f) \in Nat /\ Len(e) \in Nat /\ Len(r) \in Nat
      BY <3>2, <3>4
    <3>6. n.kind # "Tensor" => Len(e) = Len(f) + Len(r)
      BY <3>2, <3>3, <3>4
    <3>7. n.kind = "Tensor" => Len(e) = Len(f)
      BY <3>3
    <3>8. Len(f) <= Len(e)
      BY ONLY <3>5, <3>6, <3>7
    <3> QED
      BY <3>5, <3>8 DEF e, f
  <2>5. pos < x + Len(WP!Encoded[n])
    <3> HIDE DEF n, x
    <3>1. pos \in Nat
      BY <1>7
    <3> QED
      BY <1>7, <2>3, <2>4, <3>1
  <2>6. Missing
    BY <1>9, <2>2, <2>5
  <2>7. rstate' # "Finished"
    BY <1>4, <1>11
  <2> QED
    BY <1>4, <2>6, <2>7
<1> QED
  BY <1>10, <1>11
-----------------------------------------------------------------------------
(***************************************************************************)
(* The inductive invariant of the stream.                                  *)
(***************************************************************************)
PInv == WInv /\ LInv /\ EndInv

\* The writer stands still while the reader moves.
LEMMA WriterRests ==
  ASSUME WInv, UNCHANGED wside
  PROVE  /\ WInv' /\ SentNodes' = SentNodes /\ Bytes' = Bytes
         /\ UNCHANGED <<wire, done>> /\ Sent' = Sent
<1>1. UNCHANGED <<wire, done, submitted>> /\ UNCHANGED WP!vars
  BY DEF wside, WP!vars
<1>2. WP!EInv'
  BY <1>1, Instance, WP!ImagesNext DEF WInv
<1>3. OnWire(wire, Started, submitted, done')
  BY <1>1 DEF WInv
<1>4. WInv'
  BY <1>1, <1>2, <1>3, WriterStays
<1>5. Started' = Started
  BY <1>1, StartedIs
<1> QED
  BY <1>1, <1>4, <1>5 DEF SentNodes, Bytes, Sent

\* A step of the reader core keeps its invariant.
LEMMA ReaderMoves ==
  ASSUME WInv, RP!FInv, RP!ReadNext, UNCHANGED wside, UNCHANGED closed
  PROVE  RP!FInv'
<1>1. Bytes' = Bytes
  BY WriterRests
<1>2. RP!Next
  BY <1>1 DEF RP!Next
<1> QED
  BY <1>2, Instance, RP!ReadNextHolds

\* Nothing is taken: the assembler stays where it is.
LEMMA CursorStays ==
  ASSUME SentNodes' = SentNodes, UNCHANGED delivered, UNCHANGED aside, Cursor(SentNodes, ReadSoFar, astack, aout)
  PROVE  Cursor(SentNodes, ReadSoFar, astack, aout)'
<1>1. ReadSoFar' = ReadSoFar
  BY DEF ReadSoFar, RP!Images, RP!Image, RP!encode
<1>2. astack' = astack /\ aout' = aout
  BY DEF aside
<1>3. Cursor(SentNodes', ReadSoFar', astack', aout')
  BY <1>1, <1>2
<1> QED
  BY <1>3

LEMMA ReadKeeps ==
  ASSUME NodesWithinLimits, PInv, Read
  PROVE  /\ PInv' /\ UNCHANGED <<closed, aout, astack, afailed>> /\ Sent' = Sent
         /\ rstate \in {"Prefix", "Descriptor", "Buffer"}
         /\ \/ rstate' \in {"Prefix", "Descriptor", "Buffer", "TensorReady"}
            \/ /\ rstate' \in {"Finished", "Failed"} /\ closed
               /\ (rstate' = "Finished" /\ astack = <<>> => Complete)
               /\ (~ (rstate' = "Finished" /\ astack = <<>>) => Missing)
<1>1. WInv /\ LInv /\ EndInv /\ RP!FInv /\ Cursor(SentNodes, ReadSoFar, astack, aout) /\ ~ afailed
  BY DEF PInv, LInv
<1>2. UNCHANGED wside /\ UNCHANGED closed /\ UNCHANGED aside
  BY DEF Read
<1>3. UNCHANGED <<astack, aout, afailed>>
  BY <1>2 DEF aside
<1>4. RP!ReadStep \/ (\E n \in 1 .. RP!unfilled : RP!report_filled(n)) \/ RP!ReportEof
  BY ReaderSteps DEF Read, R!ReadStep, RP!ReadStep
<1>5. RP!ReadNext
  BY <1>4 DEF RP!ReadNext
<1>6. WInv' /\ SentNodes' = SentNodes /\ UNCHANGED <<wire, done>> /\ Sent' = Sent
  BY <1>1, <1>2, WriterRests
<1>7. RP!FInv'
  BY <1>1, <1>2, <1>5, ReaderMoves
<1>8. UNCHANGED delivered
  BY <1>4 DEF RP!ReadStep, RP!StepPrefix, RP!StepDescriptor, RP!StepBuffer, RP!report_filled, RP!ReportEof
<1>9. LInv'
  <2>1. Cursor(SentNodes, ReadSoFar, astack, aout)'
    BY <1>1, <1>2, <1>6, <1>8, CursorStays
  <2>2. ~ afailed'
    BY <1>1, <1>3
  <2> QED
    BY <1>7, <2>1, <2>2 DEF LInv
<1>10. CASE RP!ReadStep
  <2>1. rstate' \in {"Descriptor", "Buffer", "TensorReady"} /\ rstate \in {"Prefix", "Descriptor", "Buffer"}
    BY <1>1, <1>10, StepGood
  <2>2. EndInv'
    BY <2>1 DEF EndInv
  <2> QED
    BY <1>2, <1>3, <1>6, <1>9, <2>1, <2>2 DEF PInv
<1>11. CASE \E n \in 1 .. RP!unfilled : RP!report_filled(n)
  <2>1. rstate' = rstate /\ rstate \in {"Prefix", "Descriptor", "Buffer"}
    BY <1>11 DEF RP!report_filled, RP!Filling
  <2>2. EndInv'
    BY <2>1 DEF EndInv
  <2> QED
    BY <1>2, <1>3, <1>6, <1>9, <2>1, <2>2 DEF PInv
<1>12. CASE RP!ReportEof
  <2>1. /\ closed /\ (rstate' = "Finished" /\ astack = <<>> => Complete)
        /\ (~ (rstate' = "Finished" /\ astack = <<>>) => Missing)
    BY <1>1, <1>3, <1>12, EofMeans
  <2>2. rstate \in {"Prefix", "Descriptor", "Buffer"} /\ rstate' \in {"Finished", "Failed"}
    BY <1>12 DEF RP!ReportEof, RP!Filling
  <2>3. (Complete' <=> Complete) /\ (Missing' <=> Missing) /\ (CleanEnd' <=> rstate' = "Finished" /\ astack = <<>>)
    BY <1>3, <1>6 DEF Complete, Missing, CleanEnd
  <2>4. EndInv'
    BY <1>2, <2>1, <2>3 DEF EndInv
  <2> QED
    BY <1>2, <1>3, <1>6, <1>9, <2>1, <2>2, <2>4 DEF PInv
<1> QED
  BY <1>4, <1>10, <1>11, <1>12

LEMMA TakeKeeps ==
  ASSUME NodesWithinLimits, PInv, TakeAndPush
  PROVE  /\ PInv' /\ UNCHANGED <<closed, afailed>> /\ Sent' = Sent /\ SentNodes' = SentNodes /\ Delivers
         /\ rstate = "TensorReady" /\ rstate' = "Prefix"
<1>1. WInv /\ LInv /\ EndInv /\ RP!FInv /\ Cursor(SentNodes, ReadSoFar, astack, aout) /\ ~ afailed
  BY DEF PInv, LInv
<1>2. UNCHANGED wside /\ UNCHANGED closed /\ RP!take_tensor /\ A!push(ready[1])
  BY ReaderSteps DEF TakeAndPush
<1>3. WInv' /\ SentNodes' = SentNodes /\ Sent' = Sent
  BY <1>1, <1>2, WriterRests
<1>4. RP!FInv'
  <2>1. RP!ReadNext
    BY <1>2 DEF RP!ReadNext
  <2> QED
    BY <1>1, <1>2, <2>1, ReaderMoves
<1>5. UNCHANGED afailed /\ Delivers /\ Cursor(SentNodes, ReadSoFar', astack', aout')
  BY <1>1, <1>2, TakenAndPushed
<1>6. LInv'
  <2>1. Cursor(SentNodes', ReadSoFar', astack', aout')
    BY <1>3, <1>5
  <2>2. Cursor(SentNodes, ReadSoFar, astack, aout)'
    BY <2>1
  <2> QED
    BY <1>1, <1>4, <1>5, <2>2 DEF LInv
<1>7. rstate = "TensorReady" /\ rstate' = "Prefix"
  BY <1>2 DEF RP!take_tensor
<1> QED
  BY <1>2, <1>3, <1>5, <1>6, <1>7 DEF PInv, EndInv

LEMMA LoseKeeps ==
  ASSUME PInv, LoseCount
  PROVE  /\ PInv' /\ UNCHANGED <<closed, aout, astack, afailed>> /\ Sent' = Sent /\ rstate' = "Unusable"
<1>1. WInv /\ LInv /\ EndInv /\ RP!FInv /\ Cursor(SentNodes, ReadSoFar, astack, aout) /\ ~ afailed
  BY DEF PInv, LInv
<1>2. UNCHANGED wside /\ UNCHANGED closed /\ UNCHANGED aside
  BY DEF LoseCount
<1>3. UNCHANGED <<astack, aout, afailed>>
  BY <1>2 DEF aside
<1>4. \E m \in 0 .. RP!unfilled : RP!OverReport(m) \/ RP!MarkUnusable(m)
  BY ReaderSteps DEF LoseCount
<1>5. RP!ReadNext
  BY <1>4 DEF RP!ReadNext
<1>6. WInv' /\ SentNodes' = SentNodes /\ Sent' = Sent
  BY <1>1, <1>2, WriterRests
<1>7. RP!FInv'
  BY <1>1, <1>2, <1>5, ReaderMoves
<1>8. UNCHANGED delivered /\ rstate' = "Unusable"
  BY <1>4 DEF RP!OverReport, RP!MarkUnusable
<1>9. LInv'
  <2>1. Cursor(SentNodes, ReadSoFar, astack, aout)'
    BY <1>1, <1>2, <1>6, <1>8, CursorStays
  <2>2. ~ afailed'
    BY <1>1, <1>3
  <2> QED
    BY <1>7, <2>1, <2>2 DEF LInv
<1>10. EndInv'
  BY <1>8 DEF EndInv
<1> QED
  BY <1>2, <1>3, <1>6, <1>8, <1>9, <1>10 DEF PInv

\* The wire holds bytes.
LEMMA BytesType ==
  /\ WInv => Bytes \in Seq(Byte) /\ Len(Bytes) = Len(wire) /\ Len(wire) \in Nat
  /\ WInv' => Bytes' \in Seq(Byte) /\ Len(Bytes') = Len(wire') /\ Len(wire') \in Nat
<1> DEFINE B(w) == [i \in DOMAIN w |-> w[i].byte]
<1>1. ASSUME NEW w \in Seq(WP!WireByte)
      PROVE  B(w) \in Seq(Byte) /\ Len(B(w)) = Len(w) /\ Len(w) \in Nat
  <2>1. DOMAIN w = 1 .. Len(w) /\ Len(w) \in Nat /\ \A i \in 1 .. Len(w) : w[i] \in WP!WireByte
    OBVIOUS
  <2>2. \A v \in WP!WireByte : v.byte \in Byte
    <3> HIDE DEF B
    <3>1. WP!Byte = Byte
      BY SameBytes
    <3> QED
      BY ONLY <3>1 DEF WP!WireByte
  <2>3. B(w) \in [1 .. Len(w) -> Byte]
    BY <2>1, <2>2
  <2> QED
    BY <2>1, <2>3
<1>2. WInv => wire \in Seq(WP!WireByte)
  BY DEF WInv, WP!EInv, WP!IInv, WP!TypeOK
<1>3. WInv' => wire' \in Seq(WP!WireByte)
  BY DEF WInv, WP!EInv, WP!IInv, WP!TypeOK
<1>4. Bytes = B(wire) /\ Bytes' = B(wire')
  BY DEF Bytes
<1> HIDE DEF B
<1> QED
  BY <1>1, <1>2, <1>3, <1>4

\* More bytes on the wire leave the reader where it is.
LEMMA ReaderRests ==
  ASSUME RP!FInv, UNCHANGED rside, closed' \in BOOLEAN, rstate # "Finished",
         Bytes \in Seq(Byte), Bytes' \in Seq(Byte), Len(Bytes) <= Len(Bytes'),
         \A k \in 1 .. Len(Bytes) : Bytes'[k] = Bytes[k]
  PROVE  RP!FInv'
<1>1. RP!TypeOK /\ RP!Assembling /\ RP!OnlyWholeTensors /\ RP!Staged /\ RP!NoByteLost
  BY DEF RP!FInv, RP!IInv
<1>2. /\ UNCHANGED <<pos, rstate, rindex, target, filled, rstaging, pending>>
      /\ UNCHANGED <<dest, ready, delivered>>
  BY DEF rside
<1>3. pos \in 0 .. Len(Bytes) /\ Len(Bytes) \in Nat /\ Len(Bytes') \in Nat
  BY <1>1 DEF RP!TypeOK
<1>4. pos' \in 0 .. Len(Bytes')
  BY <1>2, <1>3
<1>5. RP!TypeOK'
  BY <1>1, <1>2, <1>4, SameBytes DEF RP!TypeOK, RP!Filling
<1>6. RP!Assembling'
  BY <1>1, <1>2 DEF RP!Assembling, RP!Partial
<1>7. RP!OnlyWholeTensors'
  BY <1>1, <1>2 DEF RP!OnlyWholeTensors, RP!Whole
<1>8. RP!Staged'
  BY <1>1, <1>2 DEF RP!Staged, RP!encode
<1>9. RP!NoByteLost'
  <2>1. RP!Held' = RP!Held /\ RP!Images(delivered)' = RP!Images(delivered)
    BY <1>2 DEF RP!Held, RP!InProgress, RP!Images, RP!Image, RP!encode
  <2>2. rstate # "Unusable" => SubSeq(Bytes, 1, pos) = RP!Images(delivered) \o RP!Held
    BY <1>1, Instance, SameBytes, RP!LostMeans
  <2>3. SubSeq(Bytes', 1, pos) = SubSeq(Bytes, 1, pos)
    <3> DEFINE u == Bytes
               v == Bytes'
    <3>1. u \in Seq(Byte) /\ v \in Seq(Byte) /\ pos \in 0 .. Len(u) /\ Len(u) <= Len(v) /\ \A k \in 1 .. Len(u) : v[k] = u[k]
      BY <1>3
    <3> HIDE DEF u, v
    <3> QED
      BY <3>1 DEF u, v
  <2> QED
    BY <1>2, <2>1, <2>2, <2>3, Instance, SameBytes, RP!LostMeans
<1> QED
  BY <1>5, <1>6, <1>7, <1>8, <1>9 DEF RP!FInv, RP!IInv

\* The writer's bytes, after a step of it.
LEMMA BytesGrow ==
  ASSUME WInv, WInv', Sends
  PROVE  /\ Bytes \in Seq(Byte) /\ Bytes' \in Seq(Byte) /\ Len(Bytes) <= Len(Bytes')
         /\ \A k \in 1 .. Len(Bytes) : Bytes'[k] = Bytes[k]
<1>1. /\ Bytes \in Seq(Byte) /\ Len(Bytes) = Len(wire) /\ Len(wire) \in Nat
      /\ Bytes' \in Seq(Byte) /\ Len(Bytes') = Len(wire') /\ Len(wire') \in Nat
  BY BytesType
<1>2. Len(wire) <= Len(wire') /\ \A i \in 1 .. Len(wire) : wire'[i] = wire[i]
  BY DEF Sends
<1>3. ASSUME NEW k \in 1 .. Len(Bytes) PROVE Bytes'[k] = Bytes[k]
  <2>1. k \in 1 .. Len(wire) /\ k \in 1 .. Len(wire') /\ k \in 1 .. Len(Bytes')
    BY <1>1, <1>2
  <2>2. DOMAIN Bytes = 1 .. Len(Bytes) /\ DOMAIN Bytes' = 1 .. Len(Bytes')
    BY <1>1
  <2>3. DOMAIN Bytes = DOMAIN wire /\ DOMAIN Bytes' = DOMAIN wire'
    BY DEF Bytes
  <2>4. Bytes[k] = wire[k].byte /\ Bytes'[k] = wire'[k].byte
    BY <2>1, <2>2, <2>3 DEF Bytes
  <2> QED
    BY <1>2, <2>1, <2>4
<1> QED
  BY <1>1, <1>2, <1>3

\* A step of the writer, which may be its last.
LEMMA WriterActs ==
  ASSUME PInv, W!Next \/ UNCHANGED wside, ~ closed, closed' \in BOOLEAN, UNCHANGED rside, UNCHANGED aside
  PROVE  /\ PInv' /\ Sends /\ UNCHANGED <<aout, astack, afailed, rstate>>
<1>1. WInv /\ LInv /\ EndInv /\ RP!FInv /\ Cursor(SentNodes, ReadSoFar, astack, aout) /\ ~ afailed
  BY DEF PInv, LInv
<1>2. UNCHANGED <<astack, aout, afailed, rstate, delivered>>
  BY DEF aside, rside
<1>3. WInv' /\ Sends
  <2>1. ASSUME UNCHANGED wside PROVE Sends
    <3>1. SentNodes' = SentNodes /\ UNCHANGED wire
      BY <1>1, <2>1, WriterRests
    <3>2. Len(wire) \in Nat
      BY <1>1, WriterTypes
    <3> QED
      BY <3>1, <3>2 DEF Sends
  <2> QED
    BY <1>1, <2>1, WriterNext, WriterRests
<1>4. rstate \notin {"Finished", "Failed"}
  BY <1>1 DEF EndInv
<1>5. RP!FInv'
  BY <1>1, <1>3, <1>4, BytesGrow, ReaderRests
<1>6. Cursor(SentNodes', ReadSoFar, astack, aout)
  <2>1. CASE SentNodes' = SentNodes
    BY <1>1, <2>1
  <2>2. CASE \E n \in Items : WP!Valid[n] /\ SentNodes' = Append(SentNodes, n)
    <3>1. PICK n \in Items : SentNodes' = Append(SentNodes, n)
      BY <2>2
    <3>2. n \in Nodes /\ SentNodes \in Seq(Nodes)
      BY <1>1, WireOfNodes, PipeBoundsAssumption
    <3>3. Cursor(Append(SentNodes, n), ReadSoFar, astack, aout)
      BY <1>1, <3>2, CursorGrows
    <3> QED
      BY <3>1, <3>3
  <2> QED
    BY <1>3, <2>1, <2>2 DEF Sends
<1>7. ReadSoFar' = ReadSoFar
  BY <1>2 DEF ReadSoFar, RP!Images, RP!Image, RP!encode
<1>8. LInv'
  <2>1. Cursor(SentNodes', ReadSoFar', astack', aout')
    BY <1>2, <1>6, <1>7
  <2>2. Cursor(SentNodes, ReadSoFar, astack, aout)'
    BY <2>1
  <2> QED
    BY <1>1, <1>2, <1>5, <2>2 DEF LInv
<1>9. EndInv'
  BY <1>2, <1>4 DEF EndInv
<1> QED
  BY <1>2, <1>3, <1>8, <1>9 DEF PInv

LEMMA WriteKeeps ==
  ASSUME PInv, Write
  PROVE  /\ PInv' /\ Sends /\ ~ closed /\ UNCHANGED <<closed, aout, astack, afailed, rstate>>
<1>1. W!Next /\ ~ closed /\ UNCHANGED closed /\ UNCHANGED rside /\ UNCHANGED aside
  BY DEF Write
<1>2. closed' \in BOOLEAN
  BY <1>1 DEF PInv, LInv, RP!FInv, RP!IInv, RP!TypeOK
<1> QED
  BY <1>1, <1>2, WriterActs

LEMMA CloseKeeps ==
  ASSUME PInv, Close
  PROVE  /\ PInv' /\ ~ closed /\ closed' = TRUE /\ UNCHANGED <<aout, astack, afailed, rstate>> /\ Sent' = Sent
<1>1. UNCHANGED wside /\ ~ closed /\ closed' = TRUE /\ UNCHANGED rside /\ UNCHANGED aside
  BY DEF Close
<1>2. Sent' = Sent
  BY <1>1, WriterRests DEF PInv
<1> QED
  BY <1>1, <1>2, WriterActs

\* Before the first byte the assembler waits for the first node.
LEMMA CursorInit ==
  ASSUME NEW S \in Seq(Nodes), S = <<>>, NEW x, x = 0, NEW st, st = <<>>, NEW out, out = <<>>
  PROVE  Cursor(S, x, st, out)
<1> DEFINE p == [k \in 1 .. 0 |-> CHOOSE n \in Nodes : TRUE]
           c == [k \in 0 .. 0 |-> 0]
           b == [k \in 0 .. 1 |-> 0]
           F == Rest(S, 1)
<1>1. Len(S) = 0 /\ F = <<>> /\ Len(F) = 0
  <2>1. Len(S) = 0
    OBVIOUS
  <2>2. F = <<>>
    <3> DEFINE i == 1
    <3>1. i \in 1 .. Len(S) + 1 /\ i = Len(S) + 1
      BY <2>1
    <3> HIDE DEF i
    <3>2. Rest(S, i) = <<>>
      BY <3>1, RestCases
    <3> QED
      BY <3>2 DEF i
  <2> QED
    BY <2>1, <2>2
<1>2. Path(S, 0, p, c)
  BY <1>1 DEF Path
<1>3. Laid(S, 0, p, c, b, x)
  <2>1. Level(S, p, 0) = S /\ After(0, c, 0) = 1
    BY DEF Level, After
  <2>2. Seg(F, 0, 0, F)
    <3> HIDE DEF F
    <3> QED
      BY <1>1 DEF Seg
  <2>3. \A k \in 0 .. 0 : Seg(Rest(S, 1), b[k + 1], b[k], Rest(Level(S, p, k), After(0, c, k)))
    <3> SUFFICES ASSUME NEW k \in 0 .. 0
                 PROVE Seg(Rest(S, 1), b[k + 1], b[k], Rest(Level(S, p, k), After(0, c, k)))
      OBVIOUS
    <3>1. k = 0 /\ b[k + 1] = 0 /\ b[k] = 0
      OBVIOUS
    <3> QED
      BY <2>1, <2>2, <3>1
  <2> QED
    BY <1>1, <2>3 DEF Laid
<1>4. st = Heads(0, p, c)
  BY DEF Heads
<1>5. out = ItemsOf(S, c[0])
  BY DEF ItemsOf
<1> HIDE DEF p, c, b
<1> QED
  BY <1>2, <1>3, <1>4, <1>5 DEF Cursor

LEMMA PipeInit == ASSUME Init PROVE PInv /\ Started = <<>> /\ SentNodes = <<>>
<1>1. WP!Init /\ RP!ReadInit /\ closed = FALSE /\ A!AssembleInit
  BY WriterSteps, ReaderSteps DEF Init
<1>2. WInv /\ SentNodes = <<>> /\ wire = <<>> /\ Started = <<>>
  BY <1>1, WriterInit
<1>3. Bytes \in Seq(Byte) /\ Len(Bytes) = 0
  BY <1>2, BytesType
<1>4. /\ pos = 0 /\ rstate = "Prefix" /\ rindex = 0 /\ target = PrefixLen /\ filled = 0 /\ rstaging = <<>>
      /\ pending = <<>> /\ dest = <<>> /\ ready = <<>> /\ delivered = <<>>
  BY <1>1 DEF RP!ReadInit
<1>5. RP!IInv
  <2>1. /\ rstaging \in Seq(Byte) /\ dest \in Seq(Byte) /\ Len(rstaging) = 0
        /\ pending \in Seq(RP!Tensor) /\ Len(pending) = 0 /\ ready \in Seq(RP!Tensor)
        /\ Len(ready) = 0 /\ delivered \in Seq(RP!Tensor)
    BY <1>4
  <2>2. RP!Byte = Byte /\ closed \in BOOLEAN /\ pos \in 0 .. Len(Bytes) /\ filled <= target
    <3>1. RP!Byte = Byte
      BY SameBytes
    <3>2. pos \in 0 .. Len(Bytes) /\ filled <= target
      BY <1>3, <1>4, PrefixLenAssumption
    <3> QED
      BY <1>1, <3>1, <3>2
  <2>3. RP!TypeOK
    BY <1>3, <1>4, <2>1, <2>2, PrefixLenAssumption DEF RP!TypeOK
  <2>4. RP!Assembling
    BY <1>4, <2>1 DEF RP!Assembling
  <2>5. RP!OnlyWholeTensors
    BY <1>4 DEF RP!OnlyWholeTensors
  <2> QED
    BY <2>3, <2>4, <2>5 DEF RP!IInv
<1>6. RP!Staged
  BY <1>4 DEF RP!Staged
<1>7. RP!Images(delivered) = <<>> /\ RP!Held = <<>>
  BY <1>4, Instance, SameBytes, RP!ImagesOfNone DEF RP!Held, RP!InProgress
<1>8. RP!FInv
  <2>1. SubSeq(Bytes, 1, pos) = <<>>
    BY <1>3, <1>4
  <2>2. RP!Images(delivered) \o RP!Held = <<>>
    BY <1>7
  <2> QED
    BY <1>5, <1>6, <2>1, <2>2, Instance, SameBytes, RP!LostMeans DEF RP!FInv
<1>9. LInv
  <2>1. astack = <<>> /\ aout = <<>> /\ ~ afailed
    BY <1>1 DEF A!AssembleInit
  <2>2. ReadSoFar = 0
    BY <1>7 DEF ReadSoFar
  <2>3. SentNodes \in Seq(Nodes)
    BY <1>2
  <2>4. Cursor(SentNodes, ReadSoFar, astack, aout)
    BY <1>2, <2>1, <2>2, <2>3, CursorInit
  <2> QED
    BY <1>8, <2>1, <2>4 DEF LInv
<1>10. EndInv
  BY <1>4 DEF EndInv
<1> QED
  BY <1>2, <1>9, <1>10 DEF PInv

LEMMA PipeStutter ==
  ASSUME PInv, UNCHANGED vars
  PROVE  PInv' /\ Sent' = Sent /\ UNCHANGED <<closed, aout, astack, afailed, rstate>>
<1>1. WInv /\ LInv /\ EndInv /\ RP!FInv /\ Cursor(SentNodes, ReadSoFar, astack, aout) /\ ~ afailed
  BY DEF PInv, LInv
<1>2. UNCHANGED wside /\ UNCHANGED closed /\ UNCHANGED rside /\ UNCHANGED aside
  BY DEF vars
<1>3. UNCHANGED <<astack, aout, afailed, rstate, delivered>>
  BY <1>2 DEF aside, rside
<1>4. WInv' /\ SentNodes' = SentNodes /\ Bytes' = Bytes /\ Sent' = Sent /\ UNCHANGED <<wire, done>>
  BY <1>1, <1>2, WriterRests
<1>5. RP!FInv'
  <2>1. UNCHANGED RP!vars
    BY <1>2, <1>4 DEF RP!vars, rside
  <2> QED
    BY <1>1, <2>1, Instance, RP!ReadNextHolds
<1>6. LInv'
  <2>1. Cursor(SentNodes, ReadSoFar, astack, aout)'
    BY <1>1, <1>2, <1>3, <1>4, CursorStays
  <2> QED
    BY <1>1, <1>3, <1>5, <2>1 DEF LInv
<1>7. EndInv'
  <2>1. (Complete' <=> Complete) /\ (Missing' <=> Missing) /\ (CleanEnd' <=> CleanEnd)
    BY <1>3, <1>4 DEF Complete, Missing, CleanEnd
  <2> QED
    BY <1>1, <1>2, <1>3, <2>1 DEF EndInv
<1> QED
  BY <1>2, <1>3, <1>4, <1>6, <1>7 DEF PInv

LEMMA PipeNext == ASSUME NodesWithinLimits, PInv, [Next]_vars PROVE PInv'
BY ReadKeeps, TakeKeeps, LoseKeeps, WriteKeeps, CloseKeeps, PipeStutter DEF Next

-----------------------------------------------------------------------------
(***************************************************************************)
(* The refinement.                                                         *)
(***************************************************************************)
ItemSeq(ns) == [k \in DOMAIN ns |-> ItemOf[ns[k]]]

LEMMA SentIs == Sent = ItemSeq(SentNodes) /\ Sent' = ItemSeq(SentNodes')
BY DEF Sent, SentNodes, NodesOf, ItemSeq

LEMMA ItemSeqs ==
  ASSUME NEW ns \in Seq(Nodes)
  PROVE  /\ Len(ItemSeq(ns)) = Len(ns) /\ Len(ns) \in Nat /\ ItemSeq(ns) = ItemsOf(ns, Len(ns))
         /\ \A k \in 1 .. Len(ns) : ItemSeq(ns)[k] = ItemOf[ns[k]]
         /\ \A n \in Nodes : ItemSeq(Append(ns, n)) = Append(ItemSeq(ns), ItemOf[n])
<1>1. DOMAIN ns = 1 .. Len(ns) /\ Len(ns) \in Nat
  OBVIOUS
<1>2. ItemSeq(ns) = ItemsOf(ns, Len(ns))
  BY <1>1 DEF ItemSeq, ItemsOf
<1>3. Len(ItemSeq(ns)) = Len(ns)
  BY <1>1, <1>2, ItemsAppend
<1>4. ASSUME NEW n \in Nodes PROVE ItemSeq(Append(ns, n)) = Append(ItemSeq(ns), ItemOf[n])
  <2> DEFINE m == Append(ns, n)
             l == Len(ns)
  <2>1. m \in Seq(Nodes) /\ Len(m) = l + 1 /\ m[l + 1] = n /\ (\A k \in 1 .. l : m[k] = ns[k]) /\ l \in Nat
    BY <1>1
  <2> HIDE DEF m, l
  <2>2. DOMAIN m = 1 .. l + 1
    BY <2>1
  <2>3. ItemSeq(m) = ItemsOf(m, l + 1)
    BY <2>2 DEF ItemSeq, ItemsOf
  <2>4. ItemsOf(m, l + 1) = Append(ItemsOf(m, l), ItemOf[m[l + 1]])
    BY <2>1, ItemsAppend
  <2>5. ItemsOf(m, l) = ItemsOf(ns, l)
    BY <2>1 DEF ItemsOf
  <2>6. ItemSeq(ns) = ItemsOf(ns, l)
    BY <1>2 DEF l
  <2>7. ItemSeq(m) = Append(ItemSeq(ns), ItemOf[n])
    BY <2>1, <2>3, <2>4, <2>5, <2>6
  <2> QED
    BY <2>7 DEF m
<1> QED
  BY <1>1, <1>2, <1>3, <1>4 DEF ItemSeq

\* What the reading application has been told, when the assembler refused nothing.
Told(rs, st) ==
  IF rs = "Unusable" THEN "Lost"
  ELSE IF rs = "Failed" \/ (rs = "Finished" /\ st # <<>>) THEN "Torn"
  ELSE IF rs = "Finished" THEN "Clean" ELSE "Open"

LEMMA OutcomeIs ==
  /\ ~ afailed => Outcome = Told(rstate, astack)
  /\ ~ afailed' => Outcome' = Told(rstate', astack')
BY DEF Outcome, Told, A!FinishClean

\* What the reading application got, when it got all that was sent.
LEMMA AllGot ==
  ASSUME PInv
  PROVE  /\ Len(Sent) = Len(SentNodes) /\ Len(SentNodes) \in Nat
         /\ \A k \in 1 .. Len(SentNodes) : Sent[k] = ItemOf[SentNodes[k]]
         /\ Complete => aout = Sent
         /\ Len(aout) \in Nat
<1>1. WInv /\ Cursor(SentNodes, ReadSoFar, astack, aout)
  BY DEF PInv, LInv
<1>2. SentNodes \in Seq(Nodes)
  BY <1>1, WireOfNodes
<1>3. /\ Len(Sent) = Len(SentNodes) /\ Len(SentNodes) \in Nat /\ Sent = ItemsOf(SentNodes, Len(SentNodes))
      /\ \A k \in 1 .. Len(SentNodes) : Sent[k] = ItemOf[SentNodes[k]]
  BY <1>2, SentIs, ItemSeqs
<1>4. PICK k \in Nat : aout = ItemsOf(SentNodes, k)
  <2>1. PICK D, p, c, b : Path(SentNodes, D, p, c) /\ aout = ItemsOf(SentNodes, c[0])
    BY <1>1 DEF Cursor
  <2>2. D \in Nat /\ c \in [0 .. D -> Nat]
    BY <2>1 DEF Path
  <2>3. c[0] \in Nat
    BY <2>2
  <2> QED
    BY <2>1, <2>3
<1>5. Len(aout) = k
  BY <1>4, ItemsAppend
<1> QED
  BY <1>3, <1>4, <1>5 DEF Complete

\* The initial states are those of the channel,
LEMMA ChannelInit == Init => Channel!Init
<1> SUFFICES ASSUME Init PROVE Channel!Init
  OBVIOUS
<1>1. PInv /\ SentNodes = <<>>
  BY PipeInit
<1>2. ~ afailed /\ aout = <<>> /\ astack = <<>> /\ closed = FALSE /\ rstate = "Prefix"
  BY DEF Init, A!AssembleInit, R!ReadInit
<1>3. Sent = <<>>
  BY <1>1, SentIs DEF ItemSeq
<1>4. Outcome = "Open"
  BY <1>2, OutcomeIs DEF Told
<1> QED
  BY <1>2, <1>3, <1>4 DEF Channel!Init

\* and the steps are steps of the channel or change nothing it has.
LEMMA ChannelWrite == ASSUME PInv, Write PROVE [Channel!Next]_(Channel!cvars)
<1>1. PInv' /\ Sends /\ ~ closed /\ UNCHANGED <<closed, aout, astack, afailed, rstate>>
  BY WriteKeeps
<1>2. ~ afailed /\ ~ afailed'
  BY <1>1 DEF PInv, LInv
<1>3. Outcome' = Outcome
  BY <1>1, <1>2, OutcomeIs
<1>4. SentNodes \in Seq(Nodes)
  BY WireOfNodes DEF PInv
<1>5. CASE SentNodes' = SentNodes
  <2>1. Sent' = Sent
    BY <1>5, SentIs
  <2> QED
    BY <1>1, <1>3, <2>1 DEF Channel!cvars
<1>6. CASE \E n \in Items : WP!Valid[n] /\ SentNodes' = Append(SentNodes, n)
  <2>1. PICK n \in Items : SentNodes' = Append(SentNodes, n)
    BY <1>6
  <2>2. n \in Nodes
    BY PipeBoundsAssumption
  <2>3. ItemSeq(Append(SentNodes, n)) = Append(ItemSeq(SentNodes), ItemOf[n])
    BY <1>4, <2>2, ItemSeqs
  <2>4. Sent' = Append(Sent, ItemOf[n])
    BY <2>1, <2>3, SentIs
  <2>5. Channel!Send(ItemOf[n])
    BY <1>1, <1>3, <2>4 DEF Channel!Send
  <2> QED
    BY <2>5 DEF Channel!Next
<1> QED
  BY <1>1, <1>5, <1>6 DEF Sends

LEMMA ChannelClose == ASSUME PInv, Close PROVE [Channel!Next]_(Channel!cvars)
<1>1. ~ closed /\ closed' = TRUE /\ UNCHANGED <<aout, astack, afailed, rstate>> /\ Sent' = Sent
  BY CloseKeeps
<1>2. ~ afailed /\ ~ afailed'
  BY <1>1 DEF PInv, LInv
<1>3. Outcome' = Outcome
  BY <1>1, <1>2, OutcomeIs
<1> QED
  BY <1>1, <1>3 DEF Channel!Next, Channel!Close

LEMMA ChannelRead == ASSUME NodesWithinLimits, PInv, Read PROVE [Channel!Next]_(Channel!cvars)
<1>1. /\ UNCHANGED <<closed, aout, astack, afailed>> /\ Sent' = Sent
      /\ rstate \in {"Prefix", "Descriptor", "Buffer"}
      /\ \/ rstate' \in {"Prefix", "Descriptor", "Buffer", "TensorReady"}
         \/ /\ rstate' \in {"Finished", "Failed"} /\ closed
            /\ (rstate' = "Finished" /\ astack = <<>> => Complete)
            /\ (~ (rstate' = "Finished" /\ astack = <<>>) => Missing)
  BY ReadKeeps
<1>2. ~ afailed /\ ~ afailed'
  BY <1>1 DEF PInv, LInv
<1>3. Outcome = "Open" /\ Outcome' = Told(rstate', astack)
  BY <1>1, <1>2, OutcomeIs DEF Told
<1>4. CASE rstate' \in {"Prefix", "Descriptor", "Buffer", "TensorReady"}
  <2>1. Outcome' = Outcome
    BY <1>3, <1>4 DEF Told
  <2> QED
    BY <1>1, <2>1 DEF Channel!cvars
<1>5. CASE rstate' \in {"Finished", "Failed"}
  <2>1. closed
    BY <1>1, <1>5
  <2>2. CASE rstate' = "Finished" /\ astack = <<>>
    <3>1. aout = Sent
      BY <1>1, <2>2, AllGot
    <3>2. Outcome' = "Clean"
      BY <1>3, <2>2 DEF Told
    <3>3. Channel!End
      BY <1>1, <1>3, <2>1, <3>1, <3>2 DEF Channel!End
    <3> QED
      BY <3>3 DEF Channel!Next
  <2>3. CASE ~ (rstate' = "Finished" /\ astack = <<>>)
    <3>1. Len(aout) + 1 = Len(Sent)
      BY <1>1, <1>5, <2>3, AllGot DEF Missing
    <3>2. Outcome' = "Torn"
      BY <1>3, <1>5, <2>3 DEF Told
    <3>3. Channel!Tear
      BY <1>1, <1>3, <2>1, <3>1, <3>2 DEF Channel!Tear
    <3> QED
      BY <3>3 DEF Channel!Next
  <2> QED
    BY <2>2, <2>3
<1> QED
  BY <1>1, <1>4, <1>5

LEMMA ChannelTake == ASSUME NodesWithinLimits, PInv, TakeAndPush PROVE [Channel!Next]_(Channel!cvars)
<1>1. /\ UNCHANGED <<closed, afailed>> /\ Sent' = Sent /\ Delivers
      /\ rstate = "TensorReady" /\ rstate' = "Prefix"
  BY TakeKeeps
<1>2. ~ afailed /\ ~ afailed'
  BY <1>1 DEF PInv, LInv
<1>3. Outcome = "Open" /\ Outcome' = "Open"
  BY <1>1, <1>2, OutcomeIs DEF Told
<1>4. CASE aout' = aout
  BY <1>1, <1>3, <1>4 DEF Channel!cvars
<1>5. CASE Len(aout) < Len(SentNodes) /\ aout' = Append(aout, ItemOf[SentNodes[Len(aout) + 1]])
  <2>1. /\ Len(Sent) = Len(SentNodes) /\ Len(SentNodes) \in Nat /\ Len(aout) \in Nat
        /\ \A k \in 1 .. Len(SentNodes) : Sent[k] = ItemOf[SentNodes[k]]
    BY AllGot
  <2>2. Len(aout) + 1 \in 1 .. Len(SentNodes)
    BY <1>5, <2>1
  <2>3. Sent[Len(aout) + 1] = ItemOf[SentNodes[Len(aout) + 1]]
    BY <2>1, <2>2
  <2>4. Channel!Deliver
    BY <1>1, <1>3, <1>5, <2>1, <2>3 DEF Channel!Deliver
  <2> QED
    BY <2>4 DEF Channel!Next
<1> QED
  BY <1>1, <1>4, <1>5 DEF Delivers

LEMMA ChannelLose == ASSUME PInv, LoseCount PROVE [Channel!Next]_(Channel!cvars)
<1>1. UNCHANGED <<closed, aout, astack, afailed>> /\ Sent' = Sent /\ rstate' = "Unusable"
  BY LoseKeeps
<1>2. Outcome' = "Lost"
  BY <1>1, OutcomeIs DEF Told, PInv, LInv
<1> QED
  BY <1>1, <1>2 DEF Channel!Next, Channel!Lose

LEMMA ChannelStutter == ASSUME PInv, UNCHANGED vars PROVE [Channel!Next]_(Channel!cvars)
<1>1. Sent' = Sent /\ UNCHANGED <<closed, aout, astack, afailed, rstate>>
  BY PipeStutter
<1>2. ~ afailed /\ ~ afailed'
  BY <1>1 DEF PInv, LInv
<1>3. Outcome' = Outcome
  BY <1>1, <1>2, OutcomeIs
<1> QED
  BY <1>1, <1>3 DEF Channel!cvars

LEMMA ChannelNext ==
  ASSUME NodesWithinLimits, PInv, [Next]_vars PROVE [Channel!Next]_(Channel!cvars)
BY ChannelWrite, ChannelClose, ChannelRead, ChannelTake, ChannelLose, ChannelStutter DEF Next

\* A torn stream lacks the end of an item that was not reported written.
LEMMA TornMeansCut == ASSUME PInv PROVE CompletedItemsAreReadable
<1>1. ~ afailed /\ EndInv
  BY DEF PInv, LInv
<1>2. Outcome = Told(rstate, astack)
  BY <1>1, OutcomeIs
<1> QED
  BY <1>1, <1>2 DEF CompletedItemsAreReadable, Told, EndInv, CleanEnd, Missing

\* What the reading application has so far are the first items sent.
LEMMA GotIsPrefix ==
  ASSUME PInv
  PROVE  Len(aout) <= Len(Sent) /\ SubSeq(aout, 1, Len(aout)) = SubSeq(Sent, 1, Len(aout))
<1>1. WInv /\ Cursor(SentNodes, ReadSoFar, astack, aout)
  BY DEF PInv, LInv
<1>2. PICK D, p, c, b : Path(SentNodes, D, p, c) /\ aout = ItemsOf(SentNodes, c[0])
  BY <1>1 DEF Cursor
<1> DEFINE k == c[0]
<1>3. k \in Nat /\ k <= Len(SentNodes)
  <2>1. D \in Nat /\ c \in [0 .. D -> Nat] /\ c[0] <= Len(SentNodes)
    BY <1>2 DEF Path
  <2> QED
    BY <2>1
<1>4. /\ Len(Sent) = Len(SentNodes) /\ Len(SentNodes) \in Nat
      /\ \A i \in 1 .. Len(SentNodes) : Sent[i] = ItemOf[SentNodes[i]]
  BY AllGot
<1>5. Len(aout) = k /\ aout = [i \in 1 .. k |-> ItemOf[SentNodes[i]]]
  BY <1>2, <1>3, ItemsAppend DEF ItemsOf
<1> HIDE DEF k
<1>6. \A i \in 1 .. k : aout[i] = Sent[i]
  BY <1>3, <1>4, <1>5
<1>7. SubSeq(aout, 1, k) = SubSeq(Sent, 1, k)
  BY <1>3, <1>6
<1> QED
  BY <1>3, <1>4, <1>5, <1>7

-----------------------------------------------------------------------------
(***************************************************************************)
(* What a clean end says about the writer, when its operations end only    *)
(* done, failed, or with bytes left to offer.                              *)
(***************************************************************************)

\* Items begun are done, but for that of the last byte.
LEMMA EarlierDone ==
  ASSUME WInv, wire # <<>>
  PROVE  \A k \in DOMAIN Started : Started[k] \in done \/ Started[k] = wire[Len(wire)].item
<1> DEFINE n == Len(wire)
           Good(f, i) == f[i] \in Seq(Nat) /\ \A k \in DOMAIN f[i] : f[i][k] \in done \/ (i > 0 /\ f[i][k] = wire[i].item)
<1>1. wire \in Seq(WP!WireByte) /\ n \in Nat /\ WP!NoSplice
  BY WriterTypes DEF WP!IInv
<1>2. \A i \in 1 .. n : wire[i].nth \in Nat \ {0} /\ wire[i].item \in Nat
  <2> SUFFICES ASSUME NEW i \in 1 .. n PROVE wire[i].nth \in Nat \ {0} /\ wire[i].item \in Nat
    OBVIOUS
  <2> DEFINE image == WP!Encoded[submitted[wire[i].item]]
  <2>1. i \in DOMAIN wire /\ WP!WireBytes
    BY <1>1 DEF WInv, WP!EInv
  <2>2. wire[i].item \in DOMAIN submitted /\ wire[i].nth \in DOMAIN image
    BY <2>1 DEF WP!WireBytes, WP!ByteOf
  <2>3. submitted[wire[i].item] \in Nodes
    <3>1. submitted \in Seq(Items)
      BY WriterTypes
    <3> QED
      BY <2>2, <3>1, PipeBoundsAssumption
  <2>4. image \in Seq(Byte)
    BY <2>3, ImageCases
  <2>5. wire[i].item \in Nat
    <3>1. wire[i] \in WP!WireByte
      BY <1>1
    <3> QED
      BY ONLY <3>1 DEF WP!WireByte
  <2> HIDE DEF image
  <2> QED
    BY <2>2, <2>4, <2>5
<1>3. PICK f : UpTo(f, wire, n) /\ Started = f[n]
  BY <1>1, StartedUpTo, StartedIs
<1>4. \A i \in 0 .. n : /\ i = 0 => f[i] = <<>>
                        /\ i # 0 => f[i] = IF wire[i].nth = 1 THEN Append(f[i - 1], wire[i].item) ELSE f[i - 1]
  <2> SUFFICES ASSUME NEW i \in 0 .. n
               PROVE  /\ i = 0 => f[i] = <<>>
                      /\ i # 0 => f[i] = IF wire[i].nth = 1 THEN Append(f[i - 1], wire[i].item) ELSE f[i - 1]
    OBVIOUS
  <2>1. f[i] = Starting(f, wire, i) /\ (i # 0 => f[i] = IF wire[i].nth = 1 THEN Append(f[i - 1], wire[i].item) ELSE f[i - 1])
    BY <1>1, <1>3, UpToStep
  <2> QED
    BY <2>1 DEF Starting
<1>5. /\ wire[1].nth = 1 /\ n > 0
      /\ \A i \in 1 .. n - 1 : \/ wire[i + 1].item = wire[i].item /\ wire[i + 1].nth = wire[i].nth + 1
                               \/ wire[i].item \in done /\ wire[i + 1].nth = 1
  BY <1>1 DEF WP!NoSplice
<1> HIDE DEF n
<1> DEFINE T == {i \in 0 .. n : ~ Good(f, i)}
<1>6. ASSUME T # {} PROVE FALSE
  <2>1. T \subseteq Nat
    OBVIOUS
  <2>2. PICK i \in T : \A j \in T : i <= j
    BY <1>6, <2>1, Least
  <2>3. i \in 0 .. n /\ ~ Good(f, i) /\ \A j \in 0 .. n : j < i => Good(f, j)
    BY <2>2
  <2> HIDE DEF T
  <2>4. i # 0
    <3>1. \A u : u = <<>> => u \in Seq(Nat) /\ \A k \in DOMAIN u : FALSE
      OBVIOUS
    <3>2. i = 0 => f[i] = <<>>
      BY <1>4, <2>3
    <3> QED
      BY <2>3, <3>1, <3>2
  <2> DEFINE j == i - 1
  <2>5. j \in 0 .. n /\ j < i /\ j \in Nat /\ i \in 1 .. n /\ i = j + 1 /\ n \in Nat
    BY <1>1, <2>3, <2>4
  <2>6. Good(f, j) /\ f[i] = IF wire[i].nth = 1 THEN Append(f[j], wire[i].item) ELSE f[j]
    BY <1>4, <2>3, <2>4, <2>5
  <2>7. j > 0 => \/ wire[i].item = wire[j].item /\ wire[i].nth # 1
                 \/ wire[j].item \in done /\ wire[i].nth = 1
    <3> SUFFICES ASSUME j > 0 PROVE \/ wire[i].item = wire[j].item /\ wire[i].nth # 1
                                    \/ wire[j].item \in done /\ wire[i].nth = 1
      OBVIOUS
    <3>1. j \in 1 .. n - 1 /\ j \in 1 .. n /\ wire[j].nth \in Nat \ {0}
      BY <1>2, <2>5
    <3>2. wire[j].nth + 1 # 1
      BY <3>1
    <3>3. \/ wire[j + 1].item = wire[j].item /\ wire[j + 1].nth = wire[j].nth + 1
          \/ wire[j].item \in done /\ wire[j + 1].nth = 1
      BY <1>5, <3>1
    <3> QED
      BY <2>5, <3>2, <3>3
  <2>8. j = 0 => wire[i].nth = 1 /\ f[j] = <<>>
    BY <1>4, <1>5, <2>5
  <2> DEFINE u == f[j]
             x == wire[i].item
  <2>10. u \in Seq(Nat) /\ x \in Nat /\ Append(u, x) \in Seq(Nat)
    <3>1. x \in Nat
      BY <1>2, <2>5
    <3>2. u \in Seq(Nat)
      BY <2>6
    <3> HIDE DEF u, x
    <3> QED
      BY <3>1, <3>2
  <2>9. Good(f, i)
    <3>1. \A k \in DOMAIN u : u[k] \in done \/ (j > 0 /\ u[k] = wire[j].item)
      BY <2>6
    <3>2. CASE wire[i].nth # 1
      <4>1. f[i] = u /\ j > 0 /\ x = wire[j].item
        BY <2>5, <2>6, <2>7, <2>8, <3>2
      <4>2. u \in Seq(Nat)
        BY <2>10
      <4> HIDE DEF u
      <4> QED
        BY <2>5, <3>1, <4>1, <4>2
    <3>3. CASE wire[i].nth = 1
      <4>1. f[i] = Append(u, x) /\ \A k \in DOMAIN u : u[k] \in done
        BY <2>5, <2>6, <2>7, <2>8, <3>1, <3>3
      <4>2. \A k \in DOMAIN Append(u, x) : Append(u, x)[k] \in done \/ Append(u, x)[k] = x
        <5>1. u \in Seq(Nat) /\ x \in Nat
          BY <2>10
        <5>2. Append(u, x) = [k \in 1 .. Len(u) + 1 |-> IF k = Len(u) + 1 THEN x ELSE u[k]] /\ Len(u) \in Nat
          BY <5>1, AppendElements
        <5>3. DOMAIN u = 1 .. Len(u)
          BY <5>1
        <5> HIDE DEF u, x
        <5> QED
          BY <4>1, <5>2, <5>3
      <4>3. Append(u, x) \in Seq(Nat)
        BY <2>10
      <4> HIDE DEF u, x
      <4>4. f[i] \in Seq(Nat) /\ \A k \in DOMAIN f[i] : f[i][k] \in done \/ f[i][k] = x
        BY <4>1, <4>2, <4>3
      <4> QED
        BY <2>5, <4>4 DEF x
    <3> QED
      BY <3>2, <3>3
  <2> QED
    BY <2>3, <2>9
<1>7. n \in 0 .. n
  BY <1>1
<1>8. Good(f, n)
  BY <1>6, <1>7
<1> QED
  BY <1>3, <1>8 DEF n

-----------------------------------------------------------------------------
\* The wire holds whole items, or lacks some of the last one.
Short ==
  \/ wire = <<>> \/ wire[Len(wire)].item \in done
  \/ Len(wire) < Len(StreamOf(Started, submitted))

\* So it is while the operation offers bytes.
LEMMA OfferingIsShort == ASSUME WInv, ~ lost, W!remaining > 0 PROVE Short
<1> DEFINE w == wire[Len(wire)]
<1>1. /\ wire \in Seq(WP!WireByte) /\ submitted \in Seq(Items) /\ Started \in Seq(1 .. Len(submitted))
      /\ WP!TypeOK /\ WP!OnTrack /\ WP!EmittedIsExact /\ Len(wire) \in Nat /\ Len(submitted) \in Nat
  BY WriterTypes
<1>2. WP!Offering /\ WP!remaining > 0
  <2>1. W!Offering
    BY DEF W!remaining
  <2>2. W!remaining = WP!remaining
    BY DEF W!remaining, WP!remaining, W!Offering, WP!Offering, W!CurrentSlice, WP!CurrentSlice
  <2> QED
    BY <2>1, <2>2 DEF W!Offering, WP!Offering
<1>3. emitted + 1 \in 1 .. Len(WP!Image) /\ Len(WP!Image) \in Nat /\ emitted \in Nat
  <2>1. \A k \in 1 .. WP!remaining : emitted + k \in 1 .. Len(WP!Image) /\ Len(WP!Image) \in Nat
    BY ZenonT(30), <1>1, <1>2, Instance, WP!OfferedBytes
  <2>2. WP!remaining \in Nat
    BY <1>1, <1>2, Instance, WP!RestParts
  <2>3. 1 \in 1 .. WP!remaining
    BY <1>2, <2>2
  <2> QED
    BY <1>1, <2>1, <2>3 DEF WP!TypeOK
<1>4. opState # "None"
  BY <1>2 DEF WP!Offering
<1>5. CASE emitted = 0
  BY <1>1, <1>4, <1>5 DEF WP!EmittedIsExact, WP!LastByte, Short
<1>6. CASE emitted # 0
  <2>1. wire # <<>> /\ w.item = Len(submitted) /\ w.nth = emitted
    BY <1>1, <1>4, <1>6 DEF WP!EmittedIsExact, WP!LastByte
  <2>2. ToTheEnd(wire, Started, submitted, done)
    BY <2>1 DEF WInv, OnWire
  <2>3. Len(wire) + Len(WP!Encoded[submitted[w.item]]) = Len(StreamOf(Started, submitted)) + w.nth
    BY <2>2 DEF ToTheEnd
  <2>4. Len(wire) + Len(WP!Image) = Len(StreamOf(Started, submitted)) + emitted
    BY <2>1, <2>3 DEF WP!Image
  <2>5. Len(StreamOf(Started, submitted)) \in Nat
    BY <1>1, NodesType
  <2> QED
    BY <1>1, <1>3, <2>4, <2>5 DEF Short
<1> QED
  BY <1>5, <1>6

\* A clean end then leaves no item unfinished.
LEMMA CleanMeansDone ==
  ASSUME PInv, CleanEnd, Short
  PROVE  \A k \in DOMAIN Started : Started[k] \in done
<1>1. WInv /\ Cursor(SentNodes, ReadSoFar, astack, aout) /\ RP!FInv /\ Complete
  BY DEF PInv, LInv, EndInv, CleanEnd
<1> DEFINE S == SentNodes
           x == ReadSoFar
           F == Rest(S, 1)
<1>2. PICK D, p, c, b : /\ Path(S, D, p, c) /\ Laid(S, D, p, c, b, x)
                        /\ astack = Heads(D, p, c) /\ aout = ItemsOf(S, c[0])
  BY <1>1 DEF Cursor
<1>3. S \in Seq(Nodes) /\ Len(S) \in Nat /\ Len(F) \in Nat /\ Len(Bytes) = Len(wire) /\ Len(wire) \in Nat
  BY <1>1, WireOfNodes
<1>4. D \in Nat /\ c[0] \in Nat
  <2>1. D \in Nat /\ c \in [0 .. D -> Nat]
    BY <1>2 DEF Path
  <2> QED
    BY <2>1
<1>5. D = 0 /\ c[0] = Len(S)
  <2>1. Len(astack) = D
    BY <1>2, <1>4 DEF Heads
  <2>2. Len(astack) = 0
    BY DEF CleanEnd
  <2>3. Len(aout) = c[0]
    BY <1>2, <1>4, ItemsAppend
  <2> QED
    BY <1>1, <2>1, <2>2, <2>3 DEF Complete
<1>6. Len(F) = x /\ x \in Nat
  <2>1. 0 \in 0 .. D /\ 0 + 1 = 1 /\ D + 1 = 1
    BY <1>5
  <2>2. Seg(F, b[0 + 1], b[0], Rest(Level(S, p, 0), After(D, c, 0))) /\ b[0] = Len(F) /\ b[D + 1] = x
    BY <1>2, <2>1 DEF Laid
  <2>3. Level(S, p, 0) = S /\ After(D, c, 0) = Len(S) + 1
    BY <1>5 DEF Level, After
  <2>4. Seg(F, x, Len(F), Rest(S, Len(S) + 1))
    BY <2>1, <2>2, <2>3
  <2>5. Rest(S, Len(S) + 1) = <<>>
    <3>1. Len(S) + 1 \in 1 .. Len(S) + 1
      BY <1>3
    <3> DEFINE i == Len(S) + 1
    <3>2. i \in 1 .. Len(S) + 1 /\ i = Len(S) + 1
      BY <3>1
    <3> HIDE DEF i
    <3>3. Rest(S, i) = <<>>
      BY <1>3, <3>2, RestCases
    <3> QED
      BY <3>3 DEF i
  <2> HIDE DEF F, x
  <2> QED
    BY <1>3, <2>4, <2>5 DEF Seg
<1>7. x <= Len(wire)
  <2>1. pos = x + Len(RP!Held) /\ pos \in 0 .. Len(Bytes) /\ Len(RP!Held) \in Nat
    BY <1>1, HeldLies DEF CleanEnd
  <2> HIDE DEF x
  <2> QED
    BY <1>3, <1>6, <2>1
<1>8. ~ (Len(wire) < Len(StreamOf(Started, submitted)))
  <2>1. StreamOf(Started, submitted) = F
    BY DEF StreamOf, SentNodes
  <2> HIDE DEF F, x
  <2> QED
    BY <1>3, <1>6, <1>7, <2>1
<1>9. CASE wire = <<>>
  <2>1. Started = <<>>
    BY <1>1, <1>9 DEF WInv, OnWire
  <2> QED
    BY <2>1
<1>10. CASE wire # <<>> /\ wire[Len(wire)].item \in done
  BY <1>1, <1>10, EarlierDone
<1> QED
  BY <1>8, <1>9, <1>10 DEF Short

\* What a driver does that never loses a count and gives up only while bytes are offered.
DrivenStep ==
  \/ \E n \in Items : W!tensor(n) \/ W!composite(n)
  \/ W!step
  \/ \E n \in 1 .. W!remaining : W!report_written(n)
  \/ W!remaining > 0 /\ W!report_sink_closed
  \/ (opState \in {"Done", "Failed"} \/ W!remaining > 0) /\ W!Drop

\* An operation that is over, and the state between operations, left whole items or a cut.
Fed == ~ lost /\ (opState \in {"None", "Done", "Failed"} => Short)

\* A member that has to be encoded is within the limits.
LEMMA NoStepFails == ASSUME NodesWithinLimits, WInv, W!step PROVE opState' # "Failed"
<1>1. CASE W!StepPayload \/ W!StepDone
  BY <1>1 DEF W!StepPayload, W!StepDone
<1>2. CASE W!StepNode
  <2>1. PICK f \in W!OpenFrames :
          W!TakeMember(stack[f].members[stack[f].next],
                       SubSeq([stack EXCEPT ![f] = W!Advance(@)], 1, f))
    BY <1>2 DEF W!StepNode
  <2> DEFINE n == stack[f].members[stack[f].next]
  <2>2. n \in Nodes
    <3>1. stack \in Seq(WP!Frame)
      BY WriterTypes DEF WP!TypeOK
    <3>2. f \in DOMAIN stack /\ stack[f].next <= Len(stack[f].members)
      BY <2>1 DEF W!OpenFrames
    <3>3. stack[f] \in WP!Frame
      BY <3>1, <3>2
    <3>4. stack[f].members \in Seq(Nodes) /\ stack[f].next \in Nat \ {0}
      BY ONLY <3>3 DEF WP!Frame
    <3> QED
      BY <3>2, <3>4
  <2>3. W!Encodable(Desc[n.id])
    <3>1. Encodable(Desc[n.id])
      BY <2>2 DEF NodesWithinLimits, WithinLimits, Decodable
    <3> QED
      BY <3>1 DEF Encodable, W!Encodable
  <2> HIDE DEF n
  <2> QED
    BY <2>1, <2>3 DEF W!TakeMember, n
<1> QED
  BY <1>1, <1>2 DEF W!step

LEMMA FedNext ==
  ASSUME NodesWithinLimits, WInv, Fed, DrivenStep
  PROVE  WInv' /\ Sends /\ Fed'
<1>1. W!Next
  BY DEF DrivenStep, W!Next
<1>2. WInv' /\ Sends
  BY <1>1, WriterNext
<1>3. ~ lost'
  BY DEF Fed, DrivenStep, W!tensor, W!composite, W!BeginOp, W!step, W!StepPayload, W!StepNode, W!StepDone,
         W!report_written, W!report_sink_closed, W!Drop
<1>4. CASE \/ \E n \in Items : W!tensor(n) \/ W!composite(n)
           \/ \E n \in 1 .. W!remaining : W!report_written(n)
  BY <1>2, <1>3, <1>4 DEF Fed, W!tensor, W!composite, W!BeginOp, W!report_written, W!Offering
<1>5. CASE W!step
  <2>1. CASE W!StepPayload \/ W!StepNode
    <3>1. opState' \notin {"None", "Done"}
      BY <2>1 DEF W!StepPayload, W!StepNode, W!TakeMember
    <3> QED
      BY <1>2, <1>3, <1>5, <3>1, NoStepFails DEF Fed
  <2>2. CASE W!StepDone
    <3>1. UNCHANGED wire /\ done' = done \cup {Len(submitted)} /\ opState # "None"
      BY <2>2 DEF W!StepDone, W!SliceExhausted, W!Offering
    <3>2. WP!EmittedIsExact /\ ~ lost
      BY WriterTypes DEF Fed
    <3>3. wire # <<>> => wire[Len(wire)].item \in done'
      BY <3>1, <3>2 DEF WP!EmittedIsExact, WP!LastByte
    <3>4. Short'
      BY <3>1, <3>3 DEF Short
    <3> QED
      BY <1>2, <1>3, <3>4 DEF Fed
  <2> QED
    BY <1>5, <2>1, <2>2 DEF W!step
<1>6. CASE \/ W!remaining > 0 /\ W!report_sink_closed
           \/ (opState \in {"Done", "Failed"} \/ W!remaining > 0) /\ W!Drop
  <2>1. Short
    BY <1>6, OfferingIsShort DEF Fed
  <2>2. UNCHANGED <<wire, submitted, done>>
    BY <1>6 DEF W!report_sink_closed, W!Drop
  <2>3. Started' = Started
    BY <2>2, StartedIs
  <2>4. Short'
    BY <2>1, <2>2, <2>3 DEF Short, StreamOf, NodesOf
  <2> QED
    BY <1>2, <1>3, <2>4 DEF Fed
<1> QED
  BY <1>4, <1>5, <1>6 DEF DrivenStep

LEMMA FedStays == ASSUME Fed, UNCHANGED wside PROVE Fed'
<1>1. UNCHANGED <<wire, submitted, done, lost, opState>>
  BY DEF wside
<1>2. Started' = Started
  BY <1>1, StartedIs
<1> QED
  BY <1>1, <1>2 DEF Fed, Short, StreamOf, NodesOf

-----------------------------------------------------------------------------
\* For any nodes within the limits of the reader, and however writes and reads are cut and
\* interleaved, a tensor or composite that the writer reported written is one the reader
\* accepts: the end of the stream is torn only inside an item not reported written, and
\* nothing is refused.
THEOREM PipeKeepsCompletedItems ==
  ASSUME NodesWithinLimits
  PROVE  Spec => []CompletedItemsAreReadable
<1>1. Init => PInv
  BY PipeInit
<1>2. PInv /\ [Next]_vars => PInv'
  BY PipeNext
<1>3. PInv => CompletedItemsAreReadable
  BY TornMeansCut
<1> QED
  BY <1>1, <1>2, <1>3, PTL DEF Spec

\* For any nodes within the limits of the reader, the stream implements the item channel:
\* what next_item returns are the items sent, in order, whole and unaltered; a clean end
\* means all of them, a torn end all but the last.
THEOREM PipeImplementsChannel ==
  ASSUME NodesWithinLimits
  PROVE  Spec => ImplementsChannel
<1>1. Init => PInv
  BY PipeInit
<1>2. PInv /\ [Next]_vars => PInv'
  BY PipeNext
<1>3. Init => Channel!Init
  BY ChannelInit
<1>4. PInv /\ [Next]_vars => [Channel!Next]_(Channel!cvars)
  BY ChannelNext
<1> QED
  BY <1>1, <1>2, <1>3, <1>4, PTL DEF Spec, ImplementsChannel, Channel!Spec
=============================================================================
