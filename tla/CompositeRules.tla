--------------------------- MODULE CompositeRules ---------------------------
(***************************************************************************)
(* The composite-tensor rules of hurray-core/src/composite.rs as operators *)
(* on validator values: CompositeValidator::new, push_member and finish,   *)
(* and the checks they call.  No state: the stream writer validates a      *)
(* whole tree with them at submission, the stream assembler and the file   *)
(* reader validate members one at a time as they arrive.                   *)
(*                                                                         *)
(* A descriptor is a record with the fields the checks read:               *)
(*   layout  "Composite" for a head, anything else for a dense tensor      *)
(*   rule    "Partition", "Overlay" or "Group"   (heads)                   *)
(*   count   the declared member_count           (heads)                   *)
(*   shape   a sequence of dimensions                                      *)
(*   etype   the element type tag                                          *)
(*   quant   whether a quantization section is present                     *)
(*   shard   <<>> or <<[parent, offset]>>        (the optional section)    *)
(*   role    "None", "Base" or "Correction"      (Composite Member section)*)
(***************************************************************************)
EXTENDS Integers, Sequences

CONSTANT U64Max    \* u64::MAX; kept as a parameter so that overflow is reachable

ASSUME U64MaxAssumption == U64Max \in Nat

\* shape.rs: the DYNAMIC dimension is the all-ones u64.
DYNAMIC == U64Max

\* u64::saturating_add
SatAdd(a, b) == IF a + b > U64Max THEN U64Max ELSE a + b

\* u64::checked_add and checked_mul: Overflow stands for Option::None.
Overflow == -1
CheckedAdd(a, b) == IF a = Overflow \/ b = Overflow \/ a + b > U64Max
                    THEN Overflow ELSE a + b
CheckedMul(a, b) == IF a = Overflow \/ a * b > U64Max THEN Overflow ELSE a * b

has_dynamic(shape) == \E k \in DOMAIN shape : shape[k] = DYNAMIC

\* The try_fold over dimensions: None at the first DYNAMIC dimension or overflow.
Volume(shape) ==
  LET prod[k \in 0 .. Len(shape)] ==
        IF k = 0 THEN 1
        ELSE IF shape[k] = DYNAMIC THEN Overflow
        ELSE CheckedMul(prod[k - 1], shape[k])
  IN  prod[Len(shape)]

\* Mutant: closed intervals, so that boxes that only touch count as overlapping.
boxes_overlap_closed(a, b) ==
  \A k \in DOMAIN a.offset :
     /\ a.offset[k] <= SatAdd(b.offset[k], b.shape[k])
     /\ b.offset[k] <= SatAdd(a.offset[k], a.shape[k])

\* Half-open boxes share a cell in every dimension (an empty box strictly inside
\* another one counts as overlapping it, as in the code).
boxes_overlap(a, b) ==
  \A k \in DOMAIN a.offset :
     /\ a.offset[k] < SatAdd(b.offset[k], b.shape[k])
     /\ b.offset[k] < SatAdd(a.offset[k], a.shape[k])

-----------------------------------------------------------------------------
\* CompositeValidator::new

HeadAccepted(head) ==
  /\ head.layout = "Composite"
  /\ head.rule = "Group" \/ ~ has_dynamic(head.shape)

NewValidator(head) ==
  [rule |-> head.rule, declared |-> head.count, shape |-> head.shape,
   etype |-> head.etype, seen |-> 0, boxes |-> <<>>]

-----------------------------------------------------------------------------
\* The per-member checks of push_member

validate_against_shape(shard, shape) ==
  \A k \in DOMAIN shard.parent :
     SatAdd(shard.offset[k], shape[k]) <= shard.parent[k]

shard_box(v, member) ==
  /\ member.shard # <<>>
  /\ member.shard[1].parent = v.shape
  /\ validate_against_shape(member.shard[1], member.shape)

check_member_type(v, member) == member.quant \/ member.etype = v.etype

\* Mutant: the base need not cover the head.
check_overlay_member_role_any_base(v, member) ==
  member.role = (IF v.seen = 0 THEN "Base" ELSE "Correction")

check_overlay_member_role(v, member) ==
  IF v.seen = 0
  THEN /\ member.role = "Base"
       /\ \A k \in DOMAIN member.shard[1].offset : member.shard[1].offset[k] = 0
       /\ member.shape = v.shape
  ELSE member.role = "Correction"

reject_composite_member_flag(member) == member.role = "None"

MemberAccepted(v, member) ==
  \/ /\ v.rule = "Partition"
     /\ shard_box(v, member)
     /\ check_member_type(v, member)
     /\ reject_composite_member_flag(member)
  \/ /\ v.rule = "Overlay"
     /\ shard_box(v, member)
     /\ check_member_type(v, member)
     /\ check_overlay_member_role(v, member)
  \/ /\ v.rule = "Group"
     /\ reject_composite_member_flag(member)

push_member(v, member) ==
  [rule |-> v.rule, declared |-> v.declared, shape |-> v.shape, etype |-> v.etype,
   seen  |-> v.seen + 1,
   boxes |-> IF v.rule = "Partition"
             THEN Append(v.boxes, [offset |-> member.shard[1].offset,
                                   shape  |-> member.shape])
             ELSE v.boxes]

-----------------------------------------------------------------------------
\* The close-time checks of finish

\* Sum of the member volumes; None as soon as one volume or the sum overflows.
Covered(boxes) ==
  LET sum[k \in 0 .. Len(boxes)] ==
        IF k = 0 THEN 0
        ELSE CheckedAdd(sum[k - 1], Volume(boxes[k].shape))
  IN  sum[Len(boxes)]

\* Mutant: overlaps are left to the volume comparison.
validate_partition_coverage_sum_only(v) ==
  \/ Volume(v.shape) = Overflow
  \/ Covered(v.boxes) = Overflow
  \/ Covered(v.boxes) = Volume(v.shape)

\* Mutant: a shortfall of volume is accepted.
validate_partition_coverage_gaps(v) ==
  /\ \A i, j \in DOMAIN v.boxes : i < j => ~ boxes_overlap(v.boxes[i], v.boxes[j])
  /\ \/ Volume(v.shape) = Overflow
     \/ Covered(v.boxes) <= Volume(v.shape)

\* The volume comparison is skipped when either side overflows u64.
validate_partition_coverage(v) ==
  /\ \A i, j \in DOMAIN v.boxes : i < j => ~ boxes_overlap(v.boxes[i], v.boxes[j])
  /\ \/ Volume(v.shape) = Overflow
     \/ Covered(v.boxes) = Overflow
     \/ Covered(v.boxes) = Volume(v.shape)

FinishAccepted(v) ==
  /\ v.seen = v.declared
  /\ v.rule = "Partition" => validate_partition_coverage(v)
  /\ v.rule = "Overlay" => v.seen # 0

-----------------------------------------------------------------------------
\* A whole level checked in one go, as the writers do before emitting a byte: every
\* member is pushed in order, then the validator is finished.
LevelAccepted(head, members) ==
  LET v[i \in 0 .. Len(members)] ==
        IF i = 0 THEN NewValidator(head) ELSE push_member(v[i - 1], members[i])
  IN  /\ HeadAccepted(head)
      /\ \A i \in DOMAIN members : MemberAccepted(v[i - 1], members[i])
      /\ FinishAccepted(v[Len(members)])

\* encode.rs: a head that carries a Composite Member section does not encode.
Encodable(d) == ~ (d.layout = "Composite" /\ d.role # "None")
=============================================================================
