------------------------- MODULE CompositeValidator -------------------------
(***************************************************************************)
(* CompositeValidator (hurray-core/src/composite.rs) as a state machine:   *)
(* a validator is created for a head, fed member descriptors in order and  *)
(* finished; any check that fails rejects the whole composite.  The        *)
(* properties compare the verdict of the code's pairwise-overlap and       *)
(* volume-sum test with the definition of an exact cover.                  *)
(***************************************************************************)
EXTENDS CompositeRules, FiniteSets

CONSTANTS Heads,        \* head descriptors a validator may be created for
          Members,      \* member descriptors that may be pushed
          MaxMembers    \* bound on the members pushed to one validator; beyond it, one
                        \* member more than declared is all that is ever pushed

IsShape(s)  == s \in Seq(0 .. U64Max)
IsShard(sh, rank) == /\ IsShape(sh.parent) /\ IsShape(sh.offset)
                     /\ Len(sh.parent) = rank /\ Len(sh.offset) = rank

\* What TensorDescriptor::new guarantees of the descriptors it builds: dimensions are
\* u64 values, and a shard section has the rank of the tensor's own shape.
ASSUME HeadsAssumption ==
  \A h \in Heads : /\ IsShape(h.shape) /\ h.count \in Nat /\ h.count < U64Max
                   /\ h.rule \in {"Partition", "Overlay", "Group"}
ASSUME MembersAssumption ==
  \A m \in Members : /\ IsShape(m.shape)
                     /\ m.shard = <<>> \/ IsShard(m.shard[1], Len(m.shape))
ASSUME MaxMembersAssumption == MaxMembers \in Nat

VARIABLES head,      \* the head of the validator in use
          members,   \* the members pushed and accepted so far
          v,         \* the CompositeValidator value
          verdict    \* "Fresh", "Open", "Accepted" or "Rejected"

vars == <<head, members, v, verdict>>

Init ==
  /\ head \in Heads
  /\ members = <<>>
  /\ v = NewValidator(head)
  /\ verdict = "Fresh"

\* CompositeValidator::new: a head that is not composite, or a DYNAMIC partition or
\* overlay head, is refused.
New ==
  /\ verdict = "Fresh"
  /\ verdict' = IF HeadAccepted(head) THEN "Open" ELSE "Rejected"
  /\ UNCHANGED <<head, members, v>>

\* push_member: a failed check rejects the composite and records nothing.
Push(m) ==
  /\ verdict = "Open"
  /\ Len(members) < MaxMembers /\ Len(members) <= head.count
  /\ \/ /\ MemberAccepted(v, m)
        /\ v' = push_member(v, m)
        /\ members' = Append(members, m)
        /\ UNCHANGED <<head, verdict>>
     \/ /\ ~ MemberAccepted(v, m)
        /\ verdict' = "Rejected"
        /\ UNCHANGED <<head, members, v>>

\* finish consumes the validator.
Finish ==
  /\ verdict = "Open"
  /\ verdict' = IF FinishAccepted(v) THEN "Accepted" ELSE "Rejected"
  /\ UNCHANGED <<head, members, v>>

Next == New \/ Finish \/ \E m \in Members : Push(m)

Spec == Init /\ [][Next]_vars

-----------------------------------------------------------------------------
\* The index space of a shape, and membership of a cell in a member's box.
Cells(shape) ==
  {c \in [DOMAIN shape -> UNION {0 .. shape[k] - 1 : k \in DOMAIN shape}] :
      \A k \in DOMAIN shape : c[k] < shape[k]}

InBox(c, m) ==
  \A k \in DOMAIN m.shape :
     /\ m.shard[1].offset[k] <= c[k]
     /\ c[k] < m.shard[1].offset[k] + m.shape[k]

Owners(c) == {i \in DOMAIN members : InBox(c, members[i])}

\* The validator's record of what was pushed agrees with what was pushed.
TypeOK ==
  /\ head \in Heads
  /\ members \in Seq(Members) /\ Len(members) <= MaxMembers
  /\ verdict \in {"Fresh", "Open", "Accepted", "Rejected"}
  /\ v.rule = head.rule /\ v.shape = head.shape /\ v.declared = head.count
  /\ v.seen = Len(members)
  /\ Len(v.boxes) = IF v.rule = "Partition" THEN Len(members) ELSE 0

\* No cell of an accepted partition belongs to two members: the pairwise half-open test
\* of boxes_overlap rejects every real overlap, at every rank.
NoCellHasTwoOwners ==
  (verdict = "Accepted" /\ head.rule = "Partition") =>
     \A c \in Cells(head.shape) : \A i, j \in DOMAIN members :
        (InBox(c, members[i]) /\ InBox(c, members[j])) => i = j

\* Every cell of an accepted partition has an owner: with disjoint in-bounds boxes, the
\* volume sum that validate_partition_coverage compares is an exact-cover test.
NoCellIsUncovered ==
  (verdict = "Accepted" /\ head.rule = "Partition") =>
     \A c \in Cells(head.shape) : Owners(c) # {}

\* The converse: a complete partition of non-empty boxes that finish turns down is really
\* not an exact cover, so the test has no false alarms (Finish is a function of the
\* state, so it is enough to look at what it is about to answer).
NoFalseAlarm ==
  (/\ verdict = "Open" /\ head.rule = "Partition" /\ Len(members) = head.count
   /\ \A i \in DOMAIN members : \A k \in DOMAIN head.shape : members[i].shape[k] > 0
   /\ \A c \in Cells(head.shape) : Cardinality(Owners(c)) = 1)
  => FinishAccepted(v)

\* Coverage is decided exactly: what is accepted has no gap, what is refused is no cover.
CoverageIsExact == NoCellIsUncovered /\ NoFalseAlarm

\* An accepted overlay shows a value at every cell: exactly one base, it comes first, and
\* every cell lies in it, whatever the corrections cover.
OverlayBaseShowsThrough ==
  (verdict = "Accepted" /\ head.rule = "Overlay") =>
     /\ {i \in DOMAIN members : members[i].role = "Base"} = {1}
     /\ \A c \in Cells(head.shape) : InBox(c, members[1])
=============================================================================
