------------------------ MODULE MCCompositeAssembler ------------------------
(***************************************************************************)
(* The assembler fed with every short sequence of tensors.                 *)
(***************************************************************************)
EXTENDS CompositeAssembler, SequencesExt, MCData

CONSTANTS Feed,            \* descriptor ids a stream may carry
          MaxFed,          \* bound on the tensors fed
          KeepGoing        \* whether the caller goes on after an error

AssembleDesc ==
  [a    |-> Dense(3, <<Buf(1)>>),
   p1   |-> Shard(Dense(3, <<Buf(1)>>), <<2>>, <<0>>),
   p2   |-> Shard(Dense(3, <<Buf(1)>>), <<2>>, <<1>>),
   whole |-> [Shard([Dense(3, <<Buf(1)>>) EXCEPT !.shape = <<2>>], <<2>>, <<0>>)
                EXCEPT !.role = "Base"],
   fix  |-> [Shard(Dense(3, <<Buf(1)>>), <<2>>, <<1>>) EXCEPT !.role = "Correction"],
   grp1 |-> HeadD(3, "Group", 1, <<1>>),
   grp2 |-> HeadD(3, "Group", 2, <<1>>),
   par2 |-> HeadD(3, "Partition", 2, <<2>>),
   sub2 |-> Shard([HeadD(3, "Group", 2, <<1>>) EXCEPT !.etype = "f32"], <<2>>, <<1>>),
   ovl2 |-> HeadD(3, "Overlay", 2, <<2>>),
   dyn  |-> HeadD(3, "Partition", 1, <<U64Max>>)]
AllIds == DOMAIN AssembleDesc
GroupIds == {"grp1", "grp2", "par2", "a"}

VARIABLES fed,   \* the ids pushed, in wire order
          ended  \* "No", or what finish() answered: "Clean" or "Torn"

mcvars == <<stack, out, failed, fed, ended>>

Init == AssembleInit /\ fed = <<>> /\ ended = "No"

Push(id) ==
  /\ ended = "No" /\ (failed => KeepGoing)
  /\ Len(fed) < MaxFed
  /\ push([id |-> id, buffers |-> <<>>])
  /\ fed' = Append(fed, id)
  /\ UNCHANGED ended

End ==
  /\ ended = "No" /\ ~ failed
  /\ ended' = IF FinishClean THEN "Clean" ELSE "Torn"
  /\ UNCHANGED <<stack, out, failed, fed>>

Next == End \/ \E id \in Feed : Push(id)
Spec == Init /\ [][Next]_mcvars

-----------------------------------------------------------------------------
\* The ids of an item in wire order: head first, then the members, depth first.
RECURSIVE Flatten(_)
Flatten(item) == <<item.id>> \o FlattenSeq([i \in DOMAIN item.members |->
                                              Flatten(item.members[i])])
FlattenAll(items) == FlattenSeq([i \in DOMAIN items |-> Flatten(items[i])])
FlattenStack == FlattenSeq([k \in DOMAIN stack |->
                              <<stack[k].id>> \o FlattenAll(stack[k].members)])

RECURSIVE Levels(_)
Levels(item) == {item} \cup UNION {Levels(item.members[i]) : i \in DOMAIN item.members}

TypeOK ==
  /\ Len(stack) <= MaxDepth
  /\ \A k \in DOMAIN stack : /\ IsHead(stack[k].id)
                             /\ stack[k].v.seen = Len(stack[k].members)
                             /\ Len(stack[k].members) < Desc[stack[k].id].count
  /\ failed \in BOOLEAN /\ ended \in {"No", "Clean", "Torn"}

\* Until an error, what came out and what is still open is exactly what went in, in wire
\* order: the chain of closings in deliver loses, repeats and reorders nothing.
NothingLost == ~ failed => FlattenAll(out) \o FlattenStack = fed

\* A composite that is returned satisfies, at every level, the same rules the writers
\* check on a whole tree at once: one-by-one validation on arrival is as strong as batch
\* validation before sending.
ReturnedIsValid ==
  \A i \in DOMAIN out : \A c \in Levels(out[i]) :
     c.kind = "Composite" =>
        LevelAccepted(Desc[c.id], [m \in DOMAIN c.members |-> Desc[c.members[m].id]])

\* A clean end of input means every tensor fed was returned in some item.
CleanMeansAllReturned == ended = "Clean" => FlattenAll(out) = fed

\* Grouping keeps every tensor in its place: an open head is one that is still owed members,
\* nothing is lost while heads are open, a composite that closes is a valid one, and a clean
\* end leaves none open.
GroupingIsExact == TypeOK /\ NothingLost /\ ReturnedIsValid /\ CleanMeansAllReturned

\* StreamComposite: "Membership and ordering are exactly as they appeared on the wire".
MembershipAsOnWire ==
  \A i \in DOMAIN out :
     \E s \in 0 .. Len(fed) - Len(Flatten(out[i])) :
        SubSeq(fed, s + 1, s + Len(Flatten(out[i]))) = Flatten(out[i])
=============================================================================
