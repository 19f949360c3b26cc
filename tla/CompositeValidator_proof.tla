---------------------- MODULE CompositeValidator_proof ----------------------
(***************************************************************************)
(* What an accepted composite guarantees, for every rank, every size and   *)
(* every width of the integers, saturating arithmetic included.            *)
(***************************************************************************)
EXTENDS CompositeValidator, FiniteSetTheorems, FunctionTheorems, TLAPS

\* A set of natural numbers that is not empty has a least element.
LEMMA Least ==
  ASSUME NEW T, T \subseteq Nat, T # {}
  PROVE  \E x \in T : \A y \in T : x <= y
<1>1. PICK x \in T : \A y \in T : ~ (<<y, x>> \in OpToRel(<, Nat))
  BY NatLessThanWellFounded, WFMin
<1>2. \A y \in T : ~ (y < x)
  BY <1>1 DEF OpToRel
<1> QED
  BY <1>2

-----------------------------------------------------------------------------

Box(m) == [offset |-> m.shard[1].offset, shape |-> m.shape]

\* A member that passed shard_box: it has a shard section of the head's shape, and its box
\* ends within it.
Placed(m, shape) ==
  /\ m \in Members /\ m.shard # <<>> /\ m.shard[1].parent = shape
  /\ validate_against_shape(m.shard[1], m.shape)

\* The validator's record agrees with what was pushed.
Recorded ==
  /\ head \in Heads
  /\ members \in Seq(Members)
  /\ v.rule = head.rule /\ v.shape = head.shape
  /\ v.seen = Len(members) /\ v.declared = head.count

\* Partition: one box per member, in order.
BoxesMatch ==
  head.rule = "Partition" =>
    /\ Len(v.boxes) = Len(members) /\ v.boxes \in Seq({Box(m) : m \in Members})
    /\ \A i \in 1 .. Len(members) : v.boxes[i] = Box(members[i]) /\ Placed(members[i], head.shape)

\* Overlay: the first member is the base and covers the head, the others are corrections.
BaseFirst ==
  head.rule = "Overlay" =>
    \A i \in 1 .. Len(members) :
       IF i = 1
       THEN /\ members[1].role = "Base" /\ Placed(members[1], head.shape)
            /\ members[1].shape = head.shape
            /\ \A k \in DOMAIN members[1].shard[1].offset : members[1].shard[1].offset[k] = 0
       ELSE members[i].role = "Correction"

\* An accepted validator passed the close-time checks, and an open one has a good head.
Closed == /\ verdict = "Accepted" => FinishAccepted(v)
          /\ verdict = "Open" => HeadAccepted(head)

IInv == Recorded /\ BoxesMatch /\ BaseFirst /\ Closed

-----------------------------------------------------------------------------
\* The inductive invariant holds of a fresh validator.
LEMMA RecordInit == Init => IInv
<1> SUFFICES ASSUME Init PROVE IInv
  OBVIOUS
<1>1. /\ members \in Seq(Members) /\ Len(members) = 0
  BY DEF Init
<1>2. Recorded
  BY <1>1 DEF Init, Recorded, NewValidator
<1>3. BoxesMatch
  BY <1>1 DEF Init, BoxesMatch, NewValidator
<1>4. BaseFirst /\ Closed
  BY <1>1 DEF Init, BaseFirst, Closed
<1> QED
  BY <1>2, <1>3, <1>4 DEF IInv

\* An accepted push keeps the record exact and in order.
LEMMA RecordPush == ASSUME IInv, NEW m \in Members, Push(m) PROVE IInv'
<1> USE DEF IInv
<1>1. CASE UNCHANGED <<head, members, v>> /\ verdict' = "Rejected"
  BY <1>1 DEF Recorded, BoxesMatch, BaseFirst, Closed
<1>2. CASE /\ MemberAccepted(v, m) /\ v' = push_member(v, m)
           /\ members' = Append(members, m) /\ UNCHANGED <<head, verdict>>
           /\ verdict = "Open"
  <2>1. /\ members \in Seq(Members) /\ Len(members) \in Nat /\ v.rule = head.rule
        /\ v.seen = Len(members) /\ v.shape = head.shape
    BY DEF Recorded
  <2>2. /\ members' \in Seq(Members) /\ Len(members') = Len(members) + 1
        /\ \A i \in 1 .. Len(members) : members'[i] = members[i]
        /\ members'[Len(members) + 1] = m
    BY <1>2, <2>1
  <2>3. Recorded'
    BY <1>2, <2>1, <2>2 DEF Recorded, push_member
  <2>4. BoxesMatch'
    <3>1. SUFFICES ASSUME head.rule = "Partition" PROVE BoxesMatch'
      BY <1>2 DEF BoxesMatch
    <3>2. v'.boxes = Append(v.boxes, Box(m))
      BY <1>2, <2>1, <3>1 DEF push_member, Box
    <3>3. Placed(m, head.shape)
      BY <1>2, <2>1, <3>1 DEF MemberAccepted, shard_box, Placed
    <3>4. /\ Len(v.boxes) = Len(members) /\ v.boxes \in Seq({Box(x) : x \in Members})
          /\ \A i \in 1 .. Len(members) : v.boxes[i] = Box(members[i]) /\ Placed(members[i], head.shape)
      BY <3>1 DEF BoxesMatch
    <3>5. /\ v'.boxes \in Seq({Box(x) : x \in Members})
          /\ Len(v'.boxes) = Len(members) + 1
          /\ \A i \in 1 .. Len(members) : v'.boxes[i] = v.boxes[i]
          /\ v'.boxes[Len(members) + 1] = Box(m)
      BY <3>2, <3>4
    <3>6. ASSUME NEW i \in 1 .. Len(members')
          PROVE  v'.boxes[i] = Box(members'[i]) /\ Placed(members'[i], head.shape)
      <4>1. i \in 1 .. Len(members) \/ i = Len(members) + 1
        BY <2>1, <2>2
      <4>2. CASE i \in 1 .. Len(members)
        BY <2>2, <3>4, <3>5, <4>2
      <4>3. CASE i = Len(members) + 1
        BY <2>2, <3>3, <3>5, <4>3
      <4> QED
        BY <4>1, <4>2, <4>3
    <3>7. head' = head
      BY <1>2
    <3> QED
      BY <2>2, <3>5, <3>6, <3>7 DEF BoxesMatch
  <2>5. BaseFirst'
    <3>1. SUFFICES ASSUME head.rule = "Overlay" PROVE BaseFirst'
      BY <1>2 DEF BaseFirst
    <3>2. shard_box(v, m) /\ check_overlay_member_role(v, m)
      BY <1>2, <2>1, <3>1 DEF MemberAccepted
    <3>3. ASSUME NEW i \in 1 .. Len(members')
          PROVE  IF i = 1
                 THEN /\ members'[1].role = "Base" /\ Placed(members'[1], head.shape)
                      /\ members'[1].shape = head.shape
                      /\ \A k \in DOMAIN members'[1].shard[1].offset :
                            members'[1].shard[1].offset[k] = 0
                 ELSE members'[i].role = "Correction"
      <4>1. i \in 1 .. Len(members) \/ i = Len(members) + 1
        BY <2>1, <2>2
      <4>2. CASE i \in 1 .. Len(members)
        <5>1. 1 \in 1 .. Len(members) /\ members'[i] = members[i] /\ members'[1] = members[1]
          BY <2>1, <2>2, <4>2
        <5> QED
          BY <3>1, <4>2, <5>1 DEF BaseFirst
      <4>3. CASE i = Len(members) + 1 /\ Len(members) = 0
        BY <2>1, <2>2, <3>2, <4>3 DEF check_overlay_member_role, shard_box, Placed
      <4>4. CASE i = Len(members) + 1 /\ Len(members) # 0
        BY <2>1, <2>2, <3>2, <4>4 DEF check_overlay_member_role
      <4> QED
        BY <4>1, <4>2, <4>3, <4>4
    <3>4. head' = head
      BY <1>2
    <3> QED
      BY <3>3, <3>4 DEF BaseFirst
  <2> QED
    BY <1>2, <2>3, <2>4, <2>5 DEF Closed
<1> QED
  BY <1>1, <1>2 DEF Push

\* Every step keeps the record.
LEMMA RecordNext == ASSUME IInv, [Next]_vars PROVE IInv'
<1> USE DEF IInv
<1>1. CASE UNCHANGED vars
  BY <1>1 DEF vars, Recorded, BoxesMatch, BaseFirst, Closed
<1>2. CASE New \/ Finish
  BY <1>2 DEF New, Finish, Recorded, BoxesMatch, BaseFirst, Closed
<1>3. ASSUME NEW m \in Members, Push(m) PROVE IInv'
  BY <1>3, RecordPush
<1> QED
  BY <1>1, <1>2, <1>3 DEF Next

-----------------------------------------------------------------------------
\* A dimension of a shape is a u64 value.
LEMMA Dimension ==
  ASSUME NEW s \in Seq(0 .. U64Max), NEW k \in 1 .. Len(s)
  PROVE  s[k] \in Nat /\ s[k] <= U64Max
<1> DEFINE D == 0 .. U64Max
<1>1. s \in Seq(D)
  OBVIOUS
<1> HIDE DEF D
<1>2. s[k] \in D
  BY <1>1
<1> QED
  BY <1>2, U64MaxAssumption DEF D

\* One dimension: spans that share a coordinate below u64::MAX pass the half-open test.
LEMMA SharedCoordinate ==
  ASSUME NEW x \in Nat, NEW y \in Nat, NEW d \in Nat, NEW z \in Int,
         z < U64Max, x <= z, z < y + d
  PROVE  x < SatAdd(y, d)
BY U64MaxAssumption DEF SatAdd

\* Two boxes of a partition that share a cell fail the pairwise test, saturation of the
\* end coordinates included: a cell of the head is below u64::MAX in every dimension.
LEMMA SharedCellOverlaps ==
  ASSUME NEW h \in Heads, NEW a \in Members, NEW b \in Members,
         Placed(a, h.shape), Placed(b, h.shape),
         NEW c \in Cells(h.shape), InBox(c, a), InBox(c, b)
  PROVE  boxes_overlap(Box(a), Box(b))
<1> DEFINE ao == a.shard[1].offset  bo == b.shard[1].offset
<1>1. /\ h.shape \in Seq(0 .. U64Max)
      /\ a.shape \in Seq(0 .. U64Max) /\ ao \in Seq(0 .. U64Max)
      /\ b.shape \in Seq(0 .. U64Max) /\ bo \in Seq(0 .. U64Max)
  BY HeadsAssumption, MembersAssumption DEF IsShape, IsShard, Placed
<1>2. /\ Len(a.shape) = Len(h.shape) /\ Len(ao) = Len(h.shape)
      /\ Len(b.shape) = Len(h.shape) /\ Len(bo) = Len(h.shape)
  BY MembersAssumption DEF IsShard, Placed
<1>3. ASSUME NEW k \in 1 .. Len(h.shape)
      PROVE  ao[k] < SatAdd(bo[k], b.shape[k]) /\ bo[k] < SatAdd(ao[k], a.shape[k])
  <2>1. /\ h.shape[k] \in Nat /\ h.shape[k] <= U64Max
        /\ a.shape[k] \in Nat /\ ao[k] \in Nat /\ b.shape[k] \in Nat /\ bo[k] \in Nat
    BY <1>1, <1>2, Dimension
  <2>2. c[k] < h.shape[k] /\ c[k] \in Int
    BY <1>1, <1>3, <2>1 DEF Cells
  <2>3. /\ ao[k] <= c[k] /\ c[k] < ao[k] + a.shape[k]
        /\ bo[k] <= c[k] /\ c[k] < bo[k] + b.shape[k]
    BY <1>1, <1>2 DEF InBox
  <2>4. c[k] < U64Max
    BY <2>1, <2>2, U64MaxAssumption
  <2> HIDE DEF ao, bo
  <2> QED
    BY <2>1, <2>2, <2>3, <2>4, SharedCoordinate
<1>4. DOMAIN Box(a).offset = 1 .. Len(h.shape)
  BY <1>1, <1>2 DEF Box
<1> QED
  BY <1>3, <1>4 DEF boxes_overlap, Box

\* The pairwise test leaves no cell with two owners.
LEMMA NoTwoOwners == ASSUME IInv PROVE NoCellHasTwoOwners
<1> SUFFICES ASSUME IInv, verdict = "Accepted", head.rule = "Partition",
                    NEW c \in Cells(head.shape),
                    NEW i \in DOMAIN members, NEW j \in DOMAIN members,
                    InBox(c, members[i]), InBox(c, members[j])
             PROVE  i = j
  BY DEF NoCellHasTwoOwners
<1>1. /\ head \in Heads /\ members \in Seq(Members) /\ Len(members) \in Nat
      /\ v.rule = "Partition"
  BY DEF IInv, Recorded
<1>2. /\ Len(v.boxes) = Len(members) /\ v.boxes \in Seq({Box(m) : m \in Members})
      /\ \A l \in 1 .. Len(members) :
            v.boxes[l] = Box(members[l]) /\ Placed(members[l], head.shape)
  BY DEF IInv, BoxesMatch
<1>3. \A p, q \in 1 .. Len(members) : p < q => ~ boxes_overlap(v.boxes[p], v.boxes[q])
  BY <1>1, <1>2 DEF IInv, Closed, FinishAccepted, validate_partition_coverage
<1>4. i \in 1 .. Len(members) /\ j \in 1 .. Len(members)
  BY <1>1
<1>5. /\ boxes_overlap(v.boxes[i], v.boxes[j])
      /\ boxes_overlap(v.boxes[j], v.boxes[i])
  BY <1>1, <1>2, <1>4, SharedCellOverlaps
<1> QED
  BY <1>1, <1>3, <1>4, <1>5

\* No cell of an accepted partition has two owners.
THEOREM PartitionIsDisjoint == Spec => []NoCellHasTwoOwners
<1>1. IInv => NoCellHasTwoOwners
  BY NoTwoOwners
<1> QED
  BY <1>1, RecordInit, RecordNext, PTL DEF Spec

\* An accepted overlay has exactly one base, first, under every cell.
THEOREM OverlayHasABase == Spec => []OverlayBaseShowsThrough
<1>1. IInv => OverlayBaseShowsThrough
  <2> SUFFICES ASSUME IInv, verdict = "Accepted", head.rule = "Overlay"
               PROVE  /\ {i \in DOMAIN members : members[i].role = "Base"} = {1}
                      /\ \A c \in Cells(head.shape) : InBox(c, members[1])
    BY DEF OverlayBaseShowsThrough
  <2>1. /\ head \in Heads /\ members \in Seq(Members) /\ Len(members) \in Nat
        /\ v.rule = "Overlay" /\ v.seen = Len(members)
    BY DEF IInv, Recorded
  <2>2. 1 \in 1 .. Len(members) /\ DOMAIN members = 1 .. Len(members)
    BY <2>1 DEF IInv, Closed, FinishAccepted
  <2>3. /\ members[1].role = "Base" /\ Placed(members[1], head.shape)
        /\ members[1].shape = head.shape
        /\ \A k \in DOMAIN members[1].shard[1].offset : members[1].shard[1].offset[k] = 0
    BY <2>2 DEF IInv, BaseFirst
  <2>4. \A i \in 1 .. Len(members) : i # 1 => members[i].role = "Correction"
    BY DEF IInv, BaseFirst
  <2>5. ASSUME NEW c \in Cells(head.shape) PROVE InBox(c, members[1])
    <3>1. /\ head.shape \in Seq(0 .. U64Max)
          /\ members[1].shard[1].offset \in Seq(0 .. U64Max)
          /\ Len(members[1].shard[1].offset) = Len(head.shape)
      BY <2>1, <2>2, <2>3, HeadsAssumption, MembersAssumption DEF IsShape, IsShard, Placed
    <3>2. ASSUME NEW k \in DOMAIN head.shape
          PROVE  /\ members[1].shard[1].offset[k] = 0
                 /\ 0 <= c[k] /\ c[k] < head.shape[k] /\ head.shape[k] \in Nat
      <4>1. k \in 1 .. Len(head.shape) /\ head.shape[k] \in Nat
        BY <3>1, Dimension
      <4>2. members[1].shard[1].offset[k] = 0
        BY <2>3, <3>1, <4>1
      <4>3. c[k] \in UNION {0 .. head.shape[l] - 1 : l \in DOMAIN head.shape}
        BY DEF Cells
      <4>4. c[k] < head.shape[k]
        BY DEF Cells
      <4>5. 0 <= c[k]
        BY <4>3
      <4> QED
        BY <4>1, <4>2, <4>4, <4>5
    <3> QED
      BY <2>3, <3>2 DEF InBox
  <2> QED
    BY <2>2, <2>3, <2>4, <2>5
<1> QED
  BY <1>1, RecordInit, RecordNext, PTL DEF Spec

\* The validator's record agrees with what was pushed: the count it compares with
\* member_count, and one box per member of a partition and none otherwise, are never
\* behind or ahead of the members.
THEOREM RecordMatchesPushes == Spec => []TypeOK
<1>1. Init => TypeOK
  BY MaxMembersAssumption DEF Init, TypeOK, NewValidator
<1>2. ASSUME IInv, TypeOK, [Next]_vars PROVE TypeOK'
  <2>1. CASE New
    BY <1>2, <2>1 DEF New, TypeOK
  <2>2. CASE Finish
    BY <1>2, <2>2 DEF Finish, TypeOK
  <2>3. ASSUME NEW m \in Members, Push(m) PROVE TypeOK'
    <3>1. CASE UNCHANGED <<head, members, v>> /\ verdict' = "Rejected"
      BY <1>2, <3>1 DEF TypeOK
    <3>2. CASE /\ v' = push_member(v, m) /\ members' = Append(members, m)
               /\ UNCHANGED <<head, verdict>>
      <4>1. /\ members' \in Seq(Members) /\ Len(members') = Len(members) + 1
            /\ Len(members) \in Nat /\ Len(members') <= MaxMembers
        BY <1>2, <2>3, <3>2, MaxMembersAssumption DEF Push, TypeOK
      <4>2. /\ v'.rule = v.rule /\ v'.shape = v.shape /\ v'.declared = v.declared
            /\ v'.seen = v.seen + 1
        BY <3>2 DEF push_member
      <4>3. Len(v'.boxes) = IF v'.rule = "Partition" THEN Len(members') ELSE 0
        <5>1. CASE v.rule = "Partition"
          <6>1. v.boxes \in Seq({Box(x) : x \in Members}) /\ Len(v.boxes) = Len(members)
            BY <1>2, <5>1 DEF IInv, BoxesMatch, TypeOK
          <6>2. v'.boxes = Append(v.boxes, Box(m))
            BY <3>2, <5>1 DEF push_member, Box
          <6>3. Len(v'.boxes) = Len(v.boxes) + 1
            BY <6>1, <6>2
          <6> QED
            BY <4>1, <4>2, <5>1, <6>1, <6>3
        <5>2. CASE v.rule # "Partition"
          BY <1>2, <3>2, <4>2, <5>2 DEF push_member, TypeOK
        <5> QED
          BY <5>1, <5>2
      <4> QED
        BY <1>2, <3>2, <4>1, <4>2, <4>3 DEF TypeOK
    <3> QED
      BY <2>3, <3>1, <3>2 DEF Push
  <2>4. CASE UNCHANGED vars
    BY <1>2, <2>4 DEF vars, TypeOK
  <2> QED
    BY <1>2, <2>1, <2>2, <2>3, <2>4 DEF Next
<1> QED
  BY <1>1, <1>2, RecordInit, RecordNext, PTL DEF Spec

-----------------------------------------------------------------------------
\* The cells of a box, counted.

\* f holds the partial products of Volume, g the partial sums of Covered.
Products(f, s, n) ==
  f = [k \in 0 .. n |-> IF k = 0 THEN 1
                        ELSE IF s[k] = DYNAMIC THEN Overflow
                        ELSE CheckedMul(f[k - 1], s[k])]
Sums(g, boxes, n) ==
  g = [k \in 0 .. n |-> IF k = 0 THEN 0
                        ELSE CheckedAdd(g[k - 1], Volume(boxes[k].shape))]

\* One partial product.
LEMMA ProductStep ==
  ASSUME NEW f, NEW s, NEW n \in Nat, Products(f, s, n), NEW k \in 0 .. n
  PROVE  f[k] = IF k = 0 THEN 1 ELSE IF s[k] = DYNAMIC THEN Overflow ELSE CheckedMul(f[k - 1], s[k])
BY DEF Products

\* There are partial products of any length.
LEMMA ProductsExist == ASSUME NEW s, NEW m \in Nat PROVE \E f : Products(f, s, m)
<1> DEFINE T == {n \in Nat : ~ \E f : Products(f, s, n)}
<1> SUFFICES ASSUME T # {} PROVE FALSE
  OBVIOUS
<1>1. T \subseteq Nat
  OBVIOUS
<1>2. PICK n \in T : \A k \in T : n <= k
  BY <1>1, Least
<1>3. n \in Nat /\ ~ \E f : Products(f, s, n)
  OBVIOUS
<1>4. \A k \in Nat : k < n => \E f : Products(f, s, k)
  BY <1>2, <1>3
<1> HIDE DEF T
<1>5. CASE n = 0
  <2> DEFINE f == [k \in 0 .. 0 |-> 1]
  <2>1. Products(f, s, 0)
    BY DEF Products
  <2> QED
    BY <1>3, <1>5, <2>1
<1>6. CASE n # 0
  <2>1. n - 1 \in Nat /\ n - 1 < n
    BY <1>3, <1>6
  <2>2. PICK f : Products(f, s, n - 1)
    BY <1>4, <2>1
  <2> DEFINE x == IF s[n] = DYNAMIC THEN Overflow ELSE CheckedMul(f[n - 1], s[n])
             g == [k \in 0 .. n |-> IF k = n THEN x ELSE f[k]]
             Step(k) == IF k = 0 THEN 1 ELSE IF s[k] = DYNAMIC THEN Overflow ELSE CheckedMul(g[k - 1], s[k])
  <2>3. ASSUME NEW k \in 0 .. n PROVE g[k] = Step(k)
    <3>1. CASE k = n
      <4>1. g[k] = x /\ k # 0 /\ n - 1 \in 0 .. n /\ n - 1 # n
        BY <1>3, <1>6, <3>1
      <4>2. g[n - 1] = f[n - 1]
        BY <4>1
      <4> QED
        BY <3>1, <4>1, <4>2
    <3>2. CASE k # n
      <4>1. k \in 0 .. n - 1 /\ g[k] = f[k]
        BY <1>3, <3>2
      <4>2. f[k] = IF k = 0 THEN 1 ELSE IF s[k] = DYNAMIC THEN Overflow ELSE CheckedMul(f[k - 1], s[k])
        BY <2>1, <2>2, <4>1, ProductStep
      <4>3. k # 0 => g[k - 1] = f[k - 1]
        BY <1>3, <4>1
      <4> QED
        BY <4>1, <4>2, <4>3
    <3> QED
      BY <3>1, <3>2
  <2>4. Products(g, s, n)
    <3>1. g = [k \in 0 .. n |-> g[k]]
      OBVIOUS
    <3> HIDE DEF g
    <3> QED
      BY <2>3, <3>1 DEF Products
  <2> QED
    BY <1>3, <2>4
<1> QED
  BY <1>5, <1>6

\* Volume is the last partial product.
LEMMA VolumeIsProduct ==
  ASSUME NEW s, Len(s) \in Nat
  PROVE  \E f : Products(f, s, Len(s)) /\ Volume(s) = f[Len(s)]
<1>1. \E f : Products(f, s, Len(s))
  BY ProductsExist
<1> DEFINE f == CHOOSE f : Products(f, s, Len(s))
<1>2. Products(f, s, Len(s))
  BY <1>1
<1>3. Volume(s) = f[Len(s)]
  BY DEF Volume, Products
<1> QED
  BY <1>2, <1>3

\* One partial sum.
LEMMA SumStep ==
  ASSUME NEW g, NEW boxes, NEW n \in Nat, Sums(g, boxes, n), NEW k \in 0 .. n
  PROVE  g[k] = IF k = 0 THEN 0 ELSE CheckedAdd(g[k - 1], Volume(boxes[k].shape))
BY DEF Sums

\* There are partial sums of any length.
LEMMA SumsExist == ASSUME NEW boxes, NEW m \in Nat PROVE \E g : Sums(g, boxes, m)
<1> DEFINE T == {n \in Nat : ~ \E g : Sums(g, boxes, n)}
           V(k) == Volume(boxes[k].shape)
<1> HIDE DEF V
<1> SUFFICES ASSUME T # {} PROVE FALSE
  OBVIOUS
<1>1. T \subseteq Nat
  OBVIOUS
<1>2. PICK n \in T : \A k \in T : n <= k
  BY <1>1, Least
<1>3. n \in Nat /\ ~ \E g : Sums(g, boxes, n)
  OBVIOUS
<1>4. \A k \in Nat : k < n => \E g : Sums(g, boxes, k)
  BY <1>2, <1>3
<1> HIDE DEF T
<1>5. CASE n = 0
  <2> DEFINE g == [k \in 0 .. 0 |-> 0]
  <2>1. Sums(g, boxes, 0)
    BY DEF Sums
  <2> QED
    BY <1>3, <1>5, <2>1
<1>6. CASE n # 0
  <2>1. n - 1 \in Nat /\ n - 1 < n
    BY <1>3, <1>6
  <2>2. PICK f : Sums(f, boxes, n - 1)
    BY <1>4, <2>1
  <2> DEFINE x == CheckedAdd(f[n - 1], V(n))
             g == [k \in 0 .. n |-> IF k = n THEN x ELSE f[k]]
             Step(k) == IF k = 0 THEN 0 ELSE CheckedAdd(g[k - 1], V(k))
  <2>3. ASSUME NEW k \in 0 .. n PROVE g[k] = Step(k)
    <3>1. CASE k = n
      <4>1. g[k] = x /\ k # 0 /\ n - 1 \in 0 .. n /\ n - 1 # n
        BY <1>3, <1>6, <3>1
      <4>2. g[n - 1] = f[n - 1]
        BY <4>1
      <4> QED
        BY <3>1, <4>1, <4>2
    <3>2. CASE k # n
      <4>1. k \in 0 .. n - 1 /\ g[k] = f[k]
        BY <1>3, <3>2
      <4>2. f[k] = IF k = 0 THEN 0 ELSE CheckedAdd(f[k - 1], V(k))
        BY <2>1, <2>2, <4>1, SumStep DEF V
      <4>3. k # 0 => g[k - 1] = f[k - 1]
        BY <1>3, <4>1
      <4> QED
        BY <4>1, <4>2, <4>3
    <3> QED
      BY <3>1, <3>2
  <2>4. Sums(g, boxes, n)
    <3>1. g = [k \in 0 .. n |-> g[k]]
      OBVIOUS
    <3> HIDE DEF g
    <3> QED
      BY <2>3, <3>1 DEF Sums, V
  <2> QED
    BY <1>3, <2>4
<1> QED
  BY <1>5, <1>6

\* Covered is the last partial sum.
LEMMA CoveredIsSum ==
  ASSUME NEW boxes, Len(boxes) \in Nat
  PROVE  \E g : Sums(g, boxes, Len(boxes)) /\ Covered(boxes) = g[Len(boxes)]
<1>1. \E g : Sums(g, boxes, Len(boxes))
  BY SumsExist
<1> DEFINE g == CHOOSE g : Sums(g, boxes, Len(boxes))
<1>2. Sums(g, boxes, Len(boxes))
  BY <1>1
<1>3. Covered(boxes) = g[Len(boxes)]
  BY DEF Covered, Sums
<1> QED
  BY <1>2, <1>3

\* The cells of the first n dimensions of a box.
BoxTo(off, shp, n) ==
  {c \in [1 .. n -> Nat] : \A k \in 1 .. n : off[k] <= c[k] /\ c[k] < off[k] + shp[k]}

\* In no dimension there is one.
LEMMA NoDimension ==
  ASSUME NEW off, NEW shp
  PROVE  IsFiniteSet(BoxTo(off, shp, 0)) /\ Cardinality(BoxTo(off, shp, 0)) = 1
<1> DEFINE e == [k \in 1 .. 0 |-> 0]
<1>1. BoxTo(off, shp, 0) = {e}
  <2>1. ASSUME NEW c \in [1 .. 0 -> Nat] PROVE c = e
    <3>1. c = [k \in 1 .. 0 |-> c[k]]
      OBVIOUS
    <3>2. \A k \in 1 .. 0 : c[k] = 0
      OBVIOUS
    <3> QED
      BY <3>1, <3>2
  <2>2. e \in BoxTo(off, shp, 0)
    BY DEF BoxTo
  <2> HIDE DEF e
  <2> QED
    BY <2>1, <2>2 DEF BoxTo
<1> QED
  BY <1>1, FS_Singleton

\* A dimension multiplies their number.
LEMMA NextDimension ==
  ASSUME NEW off, NEW shp, NEW n \in Nat, n # 0,
         \A k \in 1 .. n : off[k] \in Nat /\ shp[k] \in Nat,
         IsFiniteSet(BoxTo(off, shp, n - 1))
  PROVE  /\ IsFiniteSet(BoxTo(off, shp, n))
         /\ Cardinality(BoxTo(off, shp, n)) = Cardinality(BoxTo(off, shp, n - 1)) * shp[n]
<1> DEFINE A == BoxTo(off, shp, n - 1)
           I == off[n] .. (off[n] + shp[n] - 1)
           P == A \X I
           B == BoxTo(off, shp, n)
           G(p) == [k \in 1 .. n |-> IF k = n THEN p[2] ELSE p[1][k]]
           F == [p \in P |-> G(p)]
<1>1. n \in 1 .. n /\ off[n] \in Nat /\ shp[n] \in Nat /\ n - 1 \in Nat
  OBVIOUS
<1>2. IsFiniteSet(I) /\ Cardinality(I) = shp[n]
  <2> DEFINE a == off[n]
             b == shp[n]
  <2>1. a \in Nat /\ b \in Nat
    BY <1>1
  <2> HIDE DEF a, b
  <2>2. IsFiniteSet(a .. (a + b - 1)) /\ Cardinality(a .. (a + b - 1)) = IF a > a + b - 1 THEN 0 ELSE (a + b - 1) - a + 1
    BY <2>1, FS_Interval
  <2>3. (IF a > a + b - 1 THEN 0 ELSE (a + b - 1) - a + 1) = b
    BY <2>1
  <2> QED
    BY <2>2, <2>3 DEF a, b
<1>3. IsFiniteSet(P) /\ Cardinality(P) = Cardinality(A) * shp[n]
  <2> HIDE DEF A, I
  <2> QED
    BY <1>2, FS_Product DEF A
<1>4. ASSUME NEW p \in P
      PROVE  /\ p[1] \in [1 .. n - 1 -> Nat] /\ p[2] \in Nat /\ p = <<p[1], p[2]>>
             /\ \A k \in 1 .. n - 1 : off[k] <= p[1][k] /\ p[1][k] < off[k] + shp[k]
             /\ off[n] <= p[2] /\ p[2] < off[n] + shp[n]
  BY <1>1 DEF BoxTo
<1>5. ASSUME NEW p \in P PROVE G(p) \in B
  <2>1. G(p) \in [1 .. n -> Nat]
    <3>1. \A k \in 1 .. n : k # n => k \in 1 .. n - 1
      OBVIOUS
    <3> QED
      BY <1>4, <3>1
  <2>2. ASSUME NEW k \in 1 .. n PROVE off[k] <= G(p)[k] /\ G(p)[k] < off[k] + shp[k]
    <3>1. CASE k = n
      BY <1>4, <3>1
    <3>2. CASE k # n
      <4>1. k \in 1 .. n - 1 /\ G(p)[k] = p[1][k]
        BY <3>2
      <4> QED
        BY <1>4, <4>1
    <3> QED
      BY <3>1, <3>2
  <2> HIDE DEF G
  <2> QED
    BY <2>1, <2>2 DEF BoxTo
<1>6. F \in [P -> B]
  <2> HIDE DEF G, P, B
  <2> QED
    BY <1>5
<1>7. ASSUME NEW p \in P, NEW q \in P, F[p] = F[q] PROVE p = q
  <2>1. G(p) = G(q)
    BY <1>7
  <2>2. p[2] = q[2]
    <3>1. G(p)[n] = p[2] /\ G(q)[n] = q[2]
      BY <1>1
    <3> QED
      BY <2>1, <3>1
  <2>3. \A k \in 1 .. n - 1 : p[1][k] = q[1][k]
    <3>1. ASSUME NEW k \in 1 .. n - 1 PROVE G(p)[k] = p[1][k] /\ G(q)[k] = q[1][k]
      BY <1>1
    <3> QED
      BY <2>1, <3>1
  <2>4. p[1] = [k \in 1 .. n - 1 |-> p[1][k]] /\ q[1] = [k \in 1 .. n - 1 |-> q[1][k]]
    BY <1>4
  <2>5. p[1] = q[1]
    BY <2>3, <2>4
  <2>6. p = <<p[1], p[2]>> /\ q = <<q[1], q[2]>>
    BY <1>4
  <2> QED
    BY <2>2, <2>5, <2>6
<1>8. ASSUME NEW c \in B PROVE \E p \in P : F[p] = c
  <2> DEFINE a == [k \in 1 .. n - 1 |-> c[k]]
             p == <<a, c[n]>>
  <2>1. /\ c \in [1 .. n -> Nat] /\ \A k \in 1 .. n : off[k] <= c[k] /\ c[k] < off[k] + shp[k]
    BY DEF BoxTo
  <2>2. a \in A
    <3>1. \A k \in 1 .. n - 1 : k \in 1 .. n /\ a[k] = c[k]
      BY <1>1
    <3>2. a \in [1 .. n - 1 -> Nat]
      BY <2>1, <3>1
    <3> HIDE DEF a
    <3> QED
      BY <2>1, <3>1, <3>2 DEF BoxTo
  <2>3. c[n] \in I
    BY <1>1, <2>1
  <2>4. p \in P
    BY <2>2, <2>3
  <2>5. G(p) = c
    <3>1. c = [k \in 1 .. n |-> c[k]]
      BY <2>1
    <3>2. ASSUME NEW k \in 1 .. n PROVE (IF k = n THEN p[2] ELSE p[1][k]) = c[k]
      <4>1. k # n => k \in 1 .. n - 1
        OBVIOUS
      <4> QED
        BY <4>1
    <3> HIDE DEF p
    <3> QED
      BY <3>1, <3>2
  <2>6. F[p] = G(p)
    BY <2>4
  <2> QED
    BY <2>4, <2>5, <2>6
<1> HIDE DEF F, P, B
<1>9. F \in Bijection(P, B)
  BY <1>6, <1>7, <1>8, Fun_IsBij
<1>10. IsFiniteSet(B) /\ Cardinality(B) = Cardinality(P)
  BY <1>3, <1>9, FS_Bijection DEF ExistsBijection
<1> QED
  BY <1>3, <1>10 DEF B

\* The partial products of Volume count the cells, and overflow as soon as a dimension is
\* DYNAMIC or a count is too large, whatever the dimensions after it.
TooLarge(off, s, j) == s[j] = DYNAMIC \/ Cardinality(BoxTo(off, s, j)) > U64Max
Large(off, s, k) == \E j \in 1 .. k : TooLarge(off, s, j)
Counted(x, off, s, k) ==
  /\ IsFiniteSet(BoxTo(off, s, k)) /\ Cardinality(BoxTo(off, s, k)) \in Nat
  /\ Large(off, s, k) => x = Overflow
  /\ ~ Large(off, s, k) => x = Cardinality(BoxTo(off, s, k))

LEMMA ProductCounts ==
  ASSUME NEW s \in Seq(0 .. U64Max), NEW off, \A k \in 1 .. Len(s) : off[k] \in Nat,
         NEW f, Products(f, s, Len(s))
  PROVE  \A k \in 0 .. Len(s) : Counted(f[k], off, s, k)
<1> DEFINE n == Len(s)
           Fails(k) == ~ Counted(f[k], off, s, k)
           T == {k \in Nat : k <= n /\ Fails(k)}
<1>1. n \in Nat
  OBVIOUS
<1>2. \A k \in 1 .. n : s[k] \in Nat /\ off[k] \in Nat
  BY Dimension
<1>3. \A k \in 0 .. n : f[k] = IF k = 0 THEN 1 ELSE IF s[k] = DYNAMIC THEN Overflow ELSE CheckedMul(f[k - 1], s[k])
  BY <1>1, ProductStep
<1> HIDE DEF n
<1> SUFFICES ASSUME T # {} PROVE FALSE
  BY DEF n
<1>4. T \subseteq Nat
  OBVIOUS
<1>5. PICK k \in T : \A j \in T : k <= j
  BY <1>4, Least
<1>6. k \in Nat /\ k <= n /\ Fails(k) /\ \A j \in Nat : j <= n /\ j < k => ~ Fails(j)
  BY <1>5
<1> HIDE DEF T
<1>7. CASE k = 0
  <2>1. f[k] = 1
    BY <1>1, <1>3, <1>7
  <2>2. IsFiniteSet(BoxTo(off, s, k)) /\ Cardinality(BoxTo(off, s, k)) = 1
    BY <1>7, NoDimension
  <2>3. ~ Large(off, s, k)
    BY <1>7 DEF Large
  <2> QED
    BY <1>6, <2>1, <2>2, <2>3 DEF Counted
<1>8. CASE k # 0
  <2>1. k - 1 \in Nat /\ k - 1 <= n /\ k - 1 < k /\ k \in 0 .. n /\ k \in 1 .. n
    BY <1>1, <1>6, <1>8
  <2>2. Counted(f[k - 1], off, s, k - 1)
    BY <1>6, <2>1
  <2>3. \A i \in 1 .. k : off[i] \in Nat /\ s[i] \in Nat
    BY <1>1, <1>2, <2>1
  <2> DEFINE a == Cardinality(BoxTo(off, s, k - 1))
             b == Cardinality(BoxTo(off, s, k))
             d == s[k]
  <2>4. a \in Nat /\ IsFiniteSet(BoxTo(off, s, k - 1))
    BY <2>2 DEF Counted
  <2>5. IsFiniteSet(BoxTo(off, s, k)) /\ b = a * d
    BY <1>6, <1>8, <2>3, <2>4, NextDimension
  <2>6. d \in Nat /\ b \in Nat
    <3>1. d \in Nat
      BY <2>1, <2>3
    <3> QED
      BY <2>5, <3>1, FS_CardinalityType
  <2>7. Large(off, s, k) <=> Large(off, s, k - 1) \/ TooLarge(off, s, k)
    <3>1. \A j : j \in 1 .. k <=> j \in 1 .. k - 1 \/ j = k
      BY <2>1
    <3> QED
      BY <3>1 DEF Large
  <2>8. TooLarge(off, s, k) <=> d = DYNAMIC \/ b > U64Max
    BY DEF TooLarge
  <2>9. f[k] = IF d = DYNAMIC THEN Overflow ELSE CheckedMul(f[k - 1], d)
    BY <1>3, <1>8, <2>1
  <2>10. a # Overflow /\ f[k - 1] = (IF Large(off, s, k - 1) THEN Overflow ELSE a)
    BY <2>2, <2>4 DEF Counted, Overflow
  <2> HIDE DEF a, b, d
  <2>11. f[k] = IF Large(off, s, k) THEN Overflow ELSE b
    BY <2>5, <2>7, <2>8, <2>9, <2>10 DEF CheckedMul
  <2>12. Counted(f[k], off, s, k)
    BY <2>5, <2>6, <2>11 DEF Counted, b
  <2> QED
    BY <1>6, <2>12
<1> QED
  BY <1>7, <1>8

\* Volume is the number of cells of a box, wherever it is.
LEMMA VolumeCounts ==
  ASSUME NEW s \in Seq(0 .. U64Max), NEW off, \A k \in 1 .. Len(s) : off[k] \in Nat
  PROVE  Counted(Volume(s), off, s, Len(s))
<1>1. Len(s) \in Nat /\ Len(s) \in 0 .. Len(s)
  OBVIOUS
<1>2. PICK f : Products(f, s, Len(s)) /\ Volume(s) = f[Len(s)]
  BY <1>1, VolumeIsProduct
<1> QED
  BY <1>1, <1>2, ProductCounts

-----------------------------------------------------------------------------
\* What the first k sets of a sequence hold together.
Together(D, k) == UNION {D[i] : i \in 1 .. k}

\* A partial sum is their number.
Summed(x, D, k) == IsFiniteSet(Together(D, k)) /\ x = Cardinality(Together(D, k))

\* E is the set of the cells of a box of volume x, in X.
BoxIs(x, E, X) == IsFiniteSet(E) /\ E \subseteq X /\ x = Cardinality(E)

\* Boxes that do not meet, in a set whose size fits in a u64.
Apart(boxes, m, D, X) ==
  /\ IsFiniteSet(X) /\ Cardinality(X) <= U64Max
  /\ \A i \in 1 .. m : BoxIs(Volume(boxes[i].shape), D[i], X)
  /\ \A i, j \in 1 .. m : i < j => D[i] \cap D[j] = {}

\* The partial sums of Covered count the cells of boxes that do not meet, and no sum
\* overflows.
LEMMA SumCounts ==
  ASSUME NEW boxes, NEW m \in Nat, NEW g, Sums(g, boxes, m),
         NEW X, NEW D, Apart(boxes, m, D, X)
  PROVE  \A k \in 0 .. m : Summed(g[k], D, k)
<1> DEFINE Fails(k) == ~ Summed(g[k], D, k)
           T == {k \in Nat : k <= m /\ Fails(k)}
<1> SUFFICES ASSUME T # {} PROVE FALSE
  OBVIOUS
<1>1. T \subseteq Nat
  OBVIOUS
<1>2. PICK k \in T : \A j \in T : k <= j
  BY <1>1, Least
<1>3. k \in Nat /\ k <= m /\ Fails(k) /\ \A j \in Nat : j <= m /\ j < k => ~ Fails(j)
  BY <1>2
<1> HIDE DEF T
<1>4. \A i \in 0 .. m : g[i] = IF i = 0 THEN 0 ELSE CheckedAdd(g[i - 1], Volume(boxes[i].shape))
  BY SumStep
<1>5. CASE k = 0
  <2>1. Together(D, k) = {}
    BY <1>5 DEF Together
  <2>2. IsFiniteSet(Together(D, k)) /\ Cardinality(Together(D, k)) = 0
    BY <2>1, FS_EmptySet
  <2>3. g[k] = 0
    BY <1>4, <1>5
  <2> QED
    BY <1>3, <2>2, <2>3 DEF Summed
<1>6. CASE k # 0
  <2>1. k - 1 \in Nat /\ k - 1 <= m /\ k - 1 < k /\ k \in 1 .. m /\ k \in 0 .. m
    BY <1>3, <1>6
  <2>2. Summed(g[k - 1], D, k - 1)
    BY <1>3, <2>1
  <2> DEFINE U == Together(D, k - 1)
             W == Together(D, k)
             E == D[k]
             a == Cardinality(U)
             b == Cardinality(E)
             x == g[k - 1]
             y == Volume(boxes[k].shape)
  <2>3. W = U \cup E
    <3>1. \A i : i \in 1 .. k <=> i \in 1 .. k - 1 \/ i = k
      BY <2>1
    <3> QED
      BY <3>1 DEF Together
  <2>4. U \cap E = {}
    <3>1. \A i \in 1 .. k - 1 : i \in 1 .. m /\ i < k
      BY <2>1
    <3>2. \A i \in 1 .. k - 1 : D[i] \cap D[k] = {}
      BY <2>1, <3>1 DEF Apart
    <3> QED
      BY <3>2 DEF Together
  <2>5. BoxIs(y, E, X) /\ \A i \in 1 .. k : D[i] \subseteq X
    <3>1. \A i \in 1 .. k : i \in 1 .. m
      BY <2>1
    <3>2. \A i \in 1 .. k : BoxIs(Volume(boxes[i].shape), D[i], X)
      BY <3>1 DEF Apart
    <3>3. k \in 1 .. k
      BY <2>1
    <3> QED
      BY <3>2, <3>3 DEF BoxIs
  <2>6. W \subseteq X
    BY <2>5 DEF Together
  <2> HIDE DEF E, y
  <2>7. IsFiniteSet(U) /\ IsFiniteSet(E)
    BY <2>2, <2>5 DEF Summed, BoxIs
  <2> HIDE DEF U, W
  <2>8. a \in Nat /\ b \in Nat /\ IsFiniteSet(W) /\ Cardinality(W) = a + b
    <3>1. Cardinality(U \cap E) = 0 /\ a \in Nat /\ b \in Nat
      BY <2>4, <2>7, FS_EmptySet, FS_CardinalityType
    <3>2. IsFiniteSet(U \cup E) /\ Cardinality(U \cup E) = a + b - Cardinality(U \cap E)
      BY <2>7, FS_Union
    <3> HIDE DEF a, b
    <3> QED
      BY <2>3, <3>1, <3>2
  <2>9. a + b <= U64Max
    <3>1. Cardinality(W) <= Cardinality(X) /\ Cardinality(X) \in Nat /\ Cardinality(X) <= U64Max
      BY <2>6, FS_Subset, FS_CardinalityType DEF Apart
    <3> HIDE DEF a, b
    <3> QED
      BY <2>8, <3>1, U64MaxAssumption
  <2>10. x = a /\ y = b
    BY <2>2, <2>5 DEF Summed, BoxIs, U
  <2>11. g[k] = CheckedAdd(x, y)
    BY <1>4, <1>6, <2>1 DEF y
  <2> HIDE DEF a, b, x
  <2>12. g[k] = a + b
    BY <2>8, <2>9, <2>10, <2>11, U64MaxAssumption DEF CheckedAdd, Overflow
  <2>13. Summed(g[k], D, k)
    BY <2>8, <2>12 DEF Summed, W
  <2> QED
    BY <1>3, <2>13
<1> QED
  BY <1>5, <1>6

\* Covered is the number of cells of boxes that do not meet.
LEMMA CoveredCounts ==
  ASSUME NEW boxes, Len(boxes) \in Nat, NEW X, NEW D, Apart(boxes, Len(boxes), D, X)
  PROVE  Summed(Covered(boxes), D, Len(boxes))
<1>1. PICK g : Sums(g, boxes, Len(boxes)) /\ Covered(boxes) = g[Len(boxes)]
  BY CoveredIsSum
<1>2. Len(boxes) \in 0 .. Len(boxes)
  OBVIOUS
<1>3. \A k \in 0 .. Len(boxes) : Summed(g[k], D, k)
  BY <1>1, SumCounts
<1> QED
  BY <1>1, <1>2, <1>3

-----------------------------------------------------------------------------
\* The cells of a head and of its members.
Zero(n) == [k \in 1 .. n |-> 0]

\* The index space of a shape is the box at the origin.
LEMMA CellsAreBox ==
  ASSUME NEW s \in Seq(0 .. U64Max)
  PROVE  Cells(s) = BoxTo(Zero(Len(s)), s, Len(s))
<1> DEFINE n == Len(s)
<1>1. n \in Nat /\ DOMAIN s = 1 .. n
  OBVIOUS
<1>2. \A k \in 1 .. n : s[k] \in Nat /\ Zero(n)[k] = 0
  BY Dimension DEF Zero
<1> HIDE DEF n
<1>3. ASSUME NEW c \in Cells(s) PROVE c \in BoxTo(Zero(n), s, n)
  <2> DEFINE R == UNION {0 .. s[k] - 1 : k \in 1 .. n}
  <2>1. c \in [1 .. n -> R] /\ \A k \in 1 .. n : c[k] < s[k]
    BY <1>1 DEF Cells
  <2>2. R \subseteq Nat
    BY <1>2
  <2> HIDE DEF R
  <2>3. c \in [1 .. n -> Nat]
    BY <2>1, <2>2
  <2>4. \A k \in 1 .. n : Zero(n)[k] <= c[k] /\ c[k] < Zero(n)[k] + s[k]
    BY <1>2, <2>1, <2>3
  <2> QED
    BY <2>3, <2>4 DEF BoxTo
<1>4. ASSUME NEW c \in BoxTo(Zero(n), s, n) PROVE c \in Cells(s)
  <2> DEFINE R == UNION {0 .. s[k] - 1 : k \in 1 .. n}
  <2>1. c \in [1 .. n -> Nat] /\ \A k \in 1 .. n : c[k] < Zero(n)[k] + s[k]
    BY DEF BoxTo
  <2>2. \A k \in 1 .. n : c[k] < s[k] /\ c[k] \in 0 .. s[k] - 1
    BY <1>2, <2>1
  <2>3. \A k \in 1 .. n : c[k] \in R
    BY <2>2
  <2> HIDE DEF R
  <2>4. c \in [1 .. n -> R]
    BY <2>1, <2>3
  <2> QED
    BY <1>1, <2>2, <2>4 DEF Cells, R
<1> QED
  BY <1>3, <1>4 DEF n

\* Sizes of a placed member, in the rank of the head.
LEMMA PlacedTypes ==
  ASSUME NEW h \in Heads, NEW m \in Members, Placed(m, h.shape)
  PROVE  /\ h.shape \in Seq(0 .. U64Max)
         /\ m.shape \in Seq(0 .. U64Max) /\ Len(m.shape) = Len(h.shape)
         /\ m.shard[1].offset \in Seq(0 .. U64Max)
         /\ Len(m.shard[1].offset) = Len(h.shape)
         /\ \A k \in 1 .. Len(h.shape) :
               /\ h.shape[k] \in Nat /\ h.shape[k] <= U64Max
               /\ m.shape[k] \in Nat /\ m.shape[k] <= U64Max
               /\ m.shard[1].offset[k] \in Nat
               /\ SatAdd(m.shard[1].offset[k], m.shape[k]) <= h.shape[k]
<1>1. /\ h.shape \in Seq(0 .. U64Max)
      /\ m.shape \in Seq(0 .. U64Max) /\ m.shard[1].offset \in Seq(0 .. U64Max)
  BY HeadsAssumption, MembersAssumption DEF IsShape, IsShard, Placed
<1>2. /\ Len(m.shape) = Len(h.shape) /\ Len(m.shard[1].offset) = Len(h.shape)
  BY MembersAssumption DEF IsShard, Placed
<1>3. \A k \in 1 .. Len(h.shape) :
         SatAdd(m.shard[1].offset[k], m.shape[k]) <= h.shape[k]
  BY <1>1 DEF Placed, validate_against_shape
<1> QED
  BY <1>1, <1>2, <1>3, Dimension

\* What is known of a head of a volume that fits: no dimension is DYNAMIC, and it is the
\* volume that counts its cells, as it does in the first dimensions.
LEMMA HeadIsCounted ==
  ASSUME NEW h \in Heads, Volume(h.shape) # Overflow
  PROVE  /\ IsFiniteSet(Cells(h.shape)) /\ Volume(h.shape) = Cardinality(Cells(h.shape))
         /\ Cardinality(Cells(h.shape)) <= U64Max
         /\ \A k \in 1 .. Len(h.shape) : h.shape[k] # DYNAMIC
         /\ \A k \in 0 .. Len(h.shape) :
               LET B == BoxTo(Zero(Len(h.shape)), h.shape, k)
               IN  IsFiniteSet(B) /\ Cardinality(B) <= U64Max
<1> DEFINE s == h.shape
           n == Len(s)
           off == Zero(n)
<1>1. s \in Seq(0 .. U64Max) /\ n \in Nat
  BY HeadsAssumption DEF IsShape
<1>2. \A k \in 1 .. n : off[k] \in Nat /\ s[k] \in Nat
  BY <1>1, Dimension DEF Zero
<1> HIDE DEF off
<1>3. Counted(Volume(s), off, s, n)
  BY <1>1, <1>2, VolumeCounts
<1>4. ~ Large(off, s, n) /\ IsFiniteSet(BoxTo(off, s, n)) /\ Volume(s) = Cardinality(BoxTo(off, s, n))
  BY <1>3 DEF Counted
<1>5. ASSUME NEW k \in 1 .. n PROVE s[k] # DYNAMIC /\ ~ Cardinality(BoxTo(off, s, k)) > U64Max
  BY <1>4 DEF Large, TooLarge
<1>6. PICK f : Products(f, s, n)
  BY <1>1, ProductsExist
<1>7. \A k \in 0 .. n : IsFiniteSet(BoxTo(off, s, k)) /\ Cardinality(BoxTo(off, s, k)) \in Nat
  BY <1>1, <1>2, <1>6, ProductCounts DEF Counted
<1>8. 1 <= U64Max
  BY HeadsAssumption, U64MaxAssumption
<1>9. ASSUME NEW k \in 0 .. n PROVE Cardinality(BoxTo(off, s, k)) <= U64Max
  <2>1. CASE k = 0
    <3>1. Cardinality(BoxTo(off, s, k)) = 1
      BY <2>1, NoDimension
    <3> QED
      BY <1>8, <3>1
  <2>2. CASE k # 0
    <3>1. k \in 1 .. n /\ Cardinality(BoxTo(off, s, k)) \in Nat
      BY <1>1, <1>7, <2>2
    <3> QED
      BY <1>5, <3>1, U64MaxAssumption
  <2> QED
    BY <2>1, <2>2
<1>10. Cells(s) = BoxTo(off, s, n) /\ n \in 0 .. n
  BY <1>1, CellsAreBox DEF off
<1> QED
  BY <1>4, <1>5, <1>7, <1>9, <1>10 DEF off

\* The first dimensions of the box of a placed member are inside those of the head, when
\* none of the head's is DYNAMIC: the saturated end of the member's is then exact.
LEMMA PlacedInside ==
  ASSUME NEW h \in Heads, NEW m \in Members, Placed(m, h.shape),
         \A k \in 1 .. Len(h.shape) : h.shape[k] # DYNAMIC,
         NEW j \in 0 .. Len(h.shape)
  PROVE  /\ BoxTo(m.shard[1].offset, m.shape, j) \subseteq BoxTo(Zero(Len(h.shape)), h.shape, j)
         /\ \A k \in 1 .. Len(h.shape) : m.shape[k] # DYNAMIC
<1> DEFINE n == Len(h.shape)
           off == m.shard[1].offset
           s == m.shape
           p == h.shape
           z == Zero(n)
<1>1. n \in Nat /\ \A k \in 1 .. n : /\ p[k] \in Nat /\ p[k] <= U64Max /\ p[k] # DYNAMIC
                          /\ s[k] \in Nat /\ off[k] \in Nat /\ SatAdd(off[k], s[k]) <= p[k]
  BY PlacedTypes
<1>2. \A k \in 1 .. j : k \in 1 .. n /\ z[k] = 0
  BY <1>1 DEF Zero
<1> HIDE DEF n, off, s, p, z
<1>3. ASSUME NEW k \in 1 .. n PROVE off[k] + s[k] <= p[k] /\ s[k] # DYNAMIC
  BY <1>1, U64MaxAssumption DEF SatAdd, DYNAMIC
<1>4. ASSUME NEW c \in BoxTo(off, s, j) PROVE c \in BoxTo(z, p, j)
  <2>1. c \in [1 .. j -> Nat] /\ \A k \in 1 .. j : off[k] <= c[k] /\ c[k] < off[k] + s[k]
    BY DEF BoxTo
  <2>2. ASSUME NEW k \in 1 .. j PROVE z[k] <= c[k] /\ c[k] < z[k] + p[k]
    <3>1. /\ k \in 1 .. n /\ z[k] = 0 /\ c[k] \in Nat /\ off[k] \in Nat /\ s[k] \in Nat
          /\ p[k] \in Nat /\ c[k] < off[k] + s[k] /\ off[k] + s[k] <= p[k]
      BY <1>1, <1>2, <1>3, <2>1
    <3> QED
      BY <3>1
  <2> QED
    BY <2>1, <2>2 DEF BoxTo
<1> QED
  BY <1>3, <1>4 DEF n, off, s, p, z

\* In a head of a volume that fits, the volume of a placed member does too, and counts its
\* cells.
LEMMA MemberIsCounted ==
  ASSUME NEW h \in Heads, NEW m \in Members, Placed(m, h.shape), Volume(h.shape) # Overflow
  PROVE  BoxIs(Volume(m.shape), BoxTo(m.shard[1].offset, m.shape, Len(h.shape)), Cells(h.shape))
<1> DEFINE n == Len(h.shape)
           off == m.shard[1].offset
           s == m.shape
           z == Zero(n)
<1>1. /\ n \in Nat /\ n = Len(s) /\ s \in Seq(0 .. U64Max) /\ h.shape \in Seq(0 .. U64Max)
      /\ \A k \in 1 .. n : off[k] \in Nat
  BY PlacedTypes
<1>2. /\ \A k \in 1 .. n : h.shape[k] # DYNAMIC
      /\ \A k \in 0 .. n : /\ IsFiniteSet(BoxTo(z, h.shape, k))
                           /\ Cardinality(BoxTo(z, h.shape, k)) <= U64Max
  BY HeadIsCounted
<1>3. /\ \A k \in 0 .. n : BoxTo(off, s, k) \subseteq BoxTo(z, h.shape, k)
      /\ \A k \in 1 .. n : s[k] # DYNAMIC
  <2>1. 0 \in 0 .. n
    BY <1>1
  <2> QED
    BY <1>2, <2>1, PlacedInside
<1>4. Cells(h.shape) = BoxTo(z, h.shape, n)
  BY <1>1, CellsAreBox
<1> HIDE DEF off, s, z
<1>5. ASSUME NEW k \in 0 .. n PROVE ~ Cardinality(BoxTo(off, s, k)) > U64Max
  <2> DEFINE B == BoxTo(z, h.shape, k)
             A == BoxTo(off, s, k)
  <2>1. IsFiniteSet(B) /\ Cardinality(B) <= U64Max /\ A \in SUBSET B
    BY <1>2, <1>3
  <2> HIDE DEF A, B
  <2>2. /\ IsFiniteSet(A) /\ Cardinality(A) <= Cardinality(B)
        /\ Cardinality(A) \in Nat /\ Cardinality(B) \in Nat
    BY <2>1, FS_Subset, FS_CardinalityType
  <2>3. ~ Cardinality(A) > U64Max
    BY <2>1, <2>2, U64MaxAssumption
  <2> QED
    BY <2>3 DEF A
<1> HIDE DEF n
<1>6. ~ Large(off, s, n)
  <2>1. \A k \in 1 .. n : k \in 0 .. n
    BY <1>1
  <2> QED
    BY <1>3, <1>5, <2>1 DEF Large, TooLarge
<1>7. Counted(Volume(s), off, s, n)
  BY <1>1, VolumeCounts
<1>8. n \in 0 .. n
  BY <1>1
<1>9. BoxIs(Volume(s), BoxTo(off, s, n), Cells(h.shape))
  BY <1>3, <1>4, <1>6, <1>7, <1>8 DEF BoxIs, Counted
<1> QED
  BY <1>9 DEF off, s, n

\* The cells of every member.
MemberBoxes ==
  [i \in 1 .. Len(members) |->
     BoxTo(members[i].shard[1].offset, members[i].shape, Len(head.shape))]

\* A cell of the head is in a member's box if it is among its cells.
LEMMA BoxMembership ==
  ASSUME IInv, head.rule = "Partition", NEW c \in Cells(head.shape), NEW i \in DOMAIN members
  PROVE  InBox(c, members[i]) <=> c \in MemberBoxes[i]
<1>1. /\ head \in Heads /\ i \in 1 .. Len(members) /\ members[i] \in Members
      /\ Placed(members[i], head.shape)
  BY DEF IInv, Recorded, BoxesMatch
<1>2. /\ head.shape \in Seq(0 .. U64Max) /\ members[i].shape \in Seq(0 .. U64Max)
      /\ Len(members[i].shape) = Len(head.shape)
  BY <1>1, PlacedTypes
<1>3. DOMAIN members[i].shape = 1 .. Len(head.shape)
  BY <1>2
<1>4. c \in [1 .. Len(head.shape) -> Nat]
  BY <1>2, CellsAreBox DEF BoxTo
<1>5. MemberBoxes[i] = BoxTo(members[i].shard[1].offset, members[i].shape, Len(head.shape))
  BY <1>1 DEF MemberBoxes
<1> QED
  BY <1>3, <1>4, <1>5 DEF InBox, BoxTo

\* When no two members share a cell and the head's volume fits, comparing the sum of the
\* volumes with it decides whether every cell has an owner.
LEMMA SumDecides ==
  ASSUME IInv, head.rule = "Partition", Volume(head.shape) # Overflow,
         \A c \in Cells(head.shape) : \A i, j \in DOMAIN members :
            (InBox(c, members[i]) /\ InBox(c, members[j])) => i = j
  PROVE  /\ Covered(v.boxes) # Overflow
         /\ Covered(v.boxes) = Volume(v.shape) <=> \A c \in Cells(head.shape) : Owners(c) # {}
<1> DEFINE X == Cells(head.shape)
           D == MemberBoxes
           n == Len(members)
           W == Together(D, n)
<1>1. /\ head \in Heads /\ members \in Seq(Members) /\ n \in Nat /\ DOMAIN members = 1 .. n
      /\ v.shape = head.shape
  BY DEF IInv, Recorded
<1>2. /\ Len(v.boxes) = n
      /\ \A i \in 1 .. n : v.boxes[i] = Box(members[i]) /\ Placed(members[i], head.shape)
  BY DEF IInv, BoxesMatch
<1>3. /\ IsFiniteSet(X) /\ Volume(head.shape) = Cardinality(X) /\ Cardinality(X) <= U64Max
  BY <1>1, HeadIsCounted
<1>4. ASSUME NEW i \in 1 .. n PROVE BoxIs(Volume(v.boxes[i].shape), D[i], X)
  <2>1. members[i] \in Members /\ Placed(members[i], head.shape)
    BY <1>1, <1>2
  <2>2. v.boxes[i].shape = members[i].shape
    <3>1. v.boxes[i] = Box(members[i])
      BY <1>2
    <3> QED
      BY <3>1 DEF Box
  <2>3. D[i] = BoxTo(members[i].shard[1].offset, members[i].shape, Len(head.shape))
    BY DEF MemberBoxes
  <2> HIDE DEF D
  <2> QED
    BY <1>1, <2>1, <2>2, <2>3, MemberIsCounted
<1>5. ASSUME NEW i \in 1 .. n, NEW j \in 1 .. n, i < j PROVE D[i] \cap D[j] = {}
  <2> SUFFICES ASSUME NEW c \in D[i], c \in D[j] PROVE FALSE
    OBVIOUS
  <2>1. c \in X
    BY <1>4 DEF BoxIs
  <2>2. InBox(c, members[i]) /\ InBox(c, members[j])
    BY <1>1, <2>1, BoxMembership
  <2> QED
    BY <1>1, <1>5, <2>1, <2>2
<1>6. Summed(Covered(v.boxes), D, n) /\ Cardinality(W) \in Nat
  <2>1. Apart(v.boxes, n, D, X)
    BY <1>3, <1>4, <1>5 DEF Apart
  <2> HIDE DEF D, X
  <2> QED
    BY <1>1, <1>2, <2>1, CoveredCounts, FS_CardinalityType DEF Summed
<1>7. W \subseteq X
  BY <1>4 DEF Together, BoxIs
<1>8. \A c \in X : c \in W <=> Owners(c) # {}
  <2>1. \A c \in X : \A i \in 1 .. n : i \in Owners(c) <=> c \in D[i]
    BY <1>1, BoxMembership DEF Owners
  <2>2. \A c \in X : Owners(c) \subseteq 1 .. n
    BY <1>1 DEF Owners
  <2> HIDE DEF D, X
  <2> QED
    BY <2>1, <2>2 DEF Together
<1> HIDE DEF X, W
<1>9. Cardinality(W) = Cardinality(X) <=> W = X
  BY <1>3, <1>7, FS_Subset
<1>10. Covered(v.boxes) = Cardinality(W)
  BY <1>6 DEF Summed, W
<1>11. Covered(v.boxes) # Overflow
  BY <1>6, <1>10 DEF Overflow
<1> QED
  BY <1>1, <1>3, <1>7, <1>8, <1>9, <1>10, <1>11 DEF X

\* An accepted partition of a head of a volume that fits has no gap.
LEMMA NoGap == ASSUME IInv, Volume(head.shape) # Overflow PROVE NoCellIsUncovered
<1> SUFFICES ASSUME verdict = "Accepted", head.rule = "Partition"
             PROVE  \A c \in Cells(head.shape) : Owners(c) # {}
  BY DEF NoCellIsUncovered
<1>1. \A c \in Cells(head.shape) : \A i, j \in DOMAIN members :
         (InBox(c, members[i]) /\ InBox(c, members[j])) => i = j
  BY NoTwoOwners DEF NoCellHasTwoOwners
<1>2. /\ Covered(v.boxes) # Overflow
      /\ Covered(v.boxes) = Volume(v.shape) <=> \A c \in Cells(head.shape) : Owners(c) # {}
  BY <1>1, SumDecides
<1>3. Volume(v.shape) # Overflow /\ v.rule = "Partition" /\ FinishAccepted(v)
  BY DEF IInv, Recorded, Closed
<1> QED
  BY <1>2, <1>3 DEF FinishAccepted, validate_partition_coverage

\* One owner is an owner, and no other is.
LEMMA OneOwner ==
  ASSUME members \in Seq(Members), NEW c, Cardinality(Owners(c)) = 1
  PROVE  /\ Owners(c) # {}
         /\ \A i, j \in DOMAIN members :
               (InBox(c, members[i]) /\ InBox(c, members[j])) => i = j
<1>1. Owners(c) \subseteq 1 .. Len(members)
  BY DEF Owners
<1>2. IsFiniteSet(1 .. Len(members))
  <2>1. Len(members) \in Int
    OBVIOUS
  <2> QED
    BY <2>1, FS_Interval
<1>3. IsFiniteSet(Owners(c))
  BY <1>1, <1>2, FS_Subset
<1>4. PICK x : Owners(c) = {x}
  BY <1>3, FS_Singleton
<1> QED
  BY <1>4 DEF Owners

\* Two non-empty boxes that fail the pairwise test share a cell of a head without DYNAMIC
\* dimensions: the one whose coordinates are the larger of the two offsets.
LEMMA OverlapSharesCell ==
  ASSUME NEW h \in Heads, NEW a \in Members, NEW b \in Members,
         Placed(a, h.shape), Placed(b, h.shape),
         \A k \in 1 .. Len(h.shape) : h.shape[k] # DYNAMIC,
         \A k \in DOMAIN h.shape : a.shape[k] > 0 /\ b.shape[k] > 0,
         boxes_overlap(Box(a), Box(b))
  PROVE  \E c \in Cells(h.shape) : InBox(c, a) /\ InBox(c, b)
<1> DEFINE n == Len(h.shape)
           ao == a.shard[1].offset
           bo == b.shard[1].offset
           p == a.shape
           q == b.shape
           t == h.shape
           c == [k \in 1 .. n |-> IF ao[k] > bo[k] THEN ao[k] ELSE bo[k]]
<1>1. /\ n \in Nat /\ DOMAIN p = 1 .. n /\ DOMAIN q = 1 .. n /\ DOMAIN ao = 1 .. n
      /\ DOMAIN t = 1 .. n /\ t \in Seq(0 .. U64Max)
  BY PlacedTypes
<1>2. \A k \in 1 .. n : /\ t[k] \in Nat /\ t[k] <= U64Max /\ t[k] # DYNAMIC
                        /\ p[k] \in Nat /\ q[k] \in Nat /\ ao[k] \in Nat /\ bo[k] \in Nat
                        /\ SatAdd(ao[k], p[k]) <= t[k] /\ SatAdd(bo[k], q[k]) <= t[k]
                        /\ p[k] > 0 /\ q[k] > 0
  BY <1>1, PlacedTypes
<1>3. \A k \in 1 .. n : ao[k] < SatAdd(bo[k], q[k]) /\ bo[k] < SatAdd(ao[k], p[k])
  BY <1>1 DEF boxes_overlap, Box
<1> HIDE DEF n, ao, bo, p, q, t
<1>4. ASSUME NEW k \in 1 .. n
      PROVE  /\ c[k] \in Nat /\ c[k] < t[k]
             /\ ao[k] <= c[k] /\ c[k] < ao[k] + p[k]
             /\ bo[k] <= c[k] /\ c[k] < bo[k] + q[k]
  <2>1. c[k] = IF ao[k] > bo[k] THEN ao[k] ELSE bo[k]
    OBVIOUS
  <2> HIDE DEF c
  <2>2. /\ t[k] \in Nat /\ t[k] < U64Max
        /\ p[k] \in Nat /\ q[k] \in Nat /\ ao[k] \in Nat /\ bo[k] \in Nat
        /\ p[k] > 0 /\ q[k] > 0
    BY <1>2, U64MaxAssumption DEF DYNAMIC
  <2>3. SatAdd(ao[k], p[k]) <= t[k] /\ SatAdd(bo[k], q[k]) <= t[k]
    BY <1>2
  <2>4. ao[k] + p[k] <= t[k] /\ bo[k] + q[k] <= t[k]
    BY <2>2, <2>3, U64MaxAssumption DEF SatAdd
  <2>5. ao[k] < SatAdd(bo[k], q[k]) /\ bo[k] < SatAdd(ao[k], p[k])
    BY <1>3
  <2>6. ao[k] < bo[k] + q[k] /\ bo[k] < ao[k] + p[k]
    BY <2>2, <2>4, <2>5, U64MaxAssumption DEF SatAdd
  <2> QED
    BY <2>1, <2>2, <2>4, <2>6
<1>5. c \in [1 .. n -> Nat]
  BY <1>4
<1> HIDE DEF c
<1>6. c \in BoxTo(Zero(n), t, n)
  <2>1. \A k \in 1 .. n : Zero(n)[k] = 0
    BY DEF Zero
  <2>2. \A k \in 1 .. n : Zero(n)[k] <= c[k] /\ c[k] < Zero(n)[k] + t[k]
    BY <1>2, <1>4, <1>5, <2>1
  <2> QED
    BY <1>5, <2>2 DEF BoxTo
<1>7. c \in Cells(h.shape)
  BY <1>1, <1>6, CellsAreBox DEF n, t
<1>8. InBox(c, a) /\ InBox(c, b)
  <2>1. \A k \in DOMAIN p : ao[k] <= c[k] /\ c[k] < ao[k] + p[k]
    BY <1>1, <1>4
  <2>2. \A k \in DOMAIN q : bo[k] <= c[k] /\ c[k] < bo[k] + q[k]
    BY <1>1, <1>4
  <2> QED
    BY <2>1, <2>2 DEF InBox, ao, bo, p, q
<1> QED
  BY <1>7, <1>8

\* A complete partition that is an exact cover is accepted.
LEMMA CoversAreAccepted == ASSUME IInv PROVE NoFalseAlarm
<1> SUFFICES ASSUME verdict = "Open", head.rule = "Partition", Len(members) = head.count,
                    \A i \in DOMAIN members : \A k \in DOMAIN head.shape : members[i].shape[k] > 0,
                    \A c \in Cells(head.shape) : Cardinality(Owners(c)) = 1
             PROVE  FinishAccepted(v)
  BY DEF NoFalseAlarm
<1>1. /\ head \in Heads /\ members \in Seq(Members) /\ DOMAIN members = 1 .. Len(members)
      /\ v.rule = "Partition" /\ v.shape = head.shape /\ v.seen = v.declared
  BY DEF IInv, Recorded
<1>2. /\ DOMAIN v.boxes = 1 .. Len(members)
      /\ \A i \in 1 .. Len(members) : v.boxes[i] = Box(members[i]) /\ Placed(members[i], head.shape)
  BY DEF IInv, BoxesMatch
<1>3. \A k \in 1 .. Len(head.shape) : head.shape[k] # DYNAMIC
  <2>1. DOMAIN head.shape = 1 .. Len(head.shape)
    BY <1>1, HeadsAssumption DEF IsShape
  <2>2. ~ has_dynamic(head.shape)
    BY DEF IInv, Closed, HeadAccepted
  <2> QED
    BY <2>1, <2>2 DEF has_dynamic
<1>4. /\ \A c \in Cells(head.shape) : Owners(c) # {}
      /\ \A c \in Cells(head.shape) : \A i, j \in DOMAIN members :
            (InBox(c, members[i]) /\ InBox(c, members[j])) => i = j
  BY <1>1, OneOwner
<1>5. ASSUME NEW i \in 1 .. Len(members), NEW j \in 1 .. Len(members), i < j
      PROVE  ~ boxes_overlap(v.boxes[i], v.boxes[j])
  <2> SUFFICES ASSUME boxes_overlap(v.boxes[i], v.boxes[j]) PROVE FALSE
    OBVIOUS
  <2>1. /\ members[i] \in Members /\ members[j] \in Members
        /\ Placed(members[i], head.shape) /\ Placed(members[j], head.shape)
        /\ v.boxes[i] = Box(members[i]) /\ v.boxes[j] = Box(members[j])
    BY <1>1, <1>2
  <2>2. PICK c \in Cells(head.shape) : InBox(c, members[i]) /\ InBox(c, members[j])
    BY <1>1, <1>3, <2>1, OverlapSharesCell
  <2>3. i = j
    BY <1>1, <1>4, <2>2
  <2> QED
    BY <1>1, <1>5, <2>3
<1>6. Volume(v.shape) # Overflow => Covered(v.boxes) = Volume(v.shape)
  BY <1>1, <1>4, SumDecides
<1>7. validate_partition_coverage(v)
  BY <1>2, <1>5, <1>6 DEF validate_partition_coverage
<1> QED
  BY <1>1, <1>7 DEF FinishAccepted

\* A complete partition of non-empty members is accepted exactly when it covers every cell
\* once, as long as the head's volume fits in a u64: when it does not, the code leaves the
\* comparison of the volumes out.  It never refuses an exact cover, whatever the volume.
THEOREM CoverageDecided ==
  Spec => [](NoFalseAlarm /\ (Volume(head.shape) # Overflow => CoverageIsExact))
<1>1. IInv => (NoFalseAlarm /\ (Volume(head.shape) # Overflow => CoverageIsExact))
  BY NoGap, CoversAreAccepted DEF CoverageIsExact
<1> QED
  BY <1>1, RecordInit, RecordNext, PTL DEF Spec
=============================================================================
