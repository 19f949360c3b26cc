----------------------------- MODULE StreamWrite -----------------------------
(***************************************************************************)
(* StreamWriterCore and WriteOp, the sequential write half of the sans-io  *)
(* stream core (hurray-io/src/stream/sans_io/write.rs), with the sink the  *)
(* driver moves its bytes to.                                              *)
(*                                                                         *)
(* One action per public method.  A method that returns an error without   *)
(* changing anything (a refused submission, a zero-length write report, a  *)
(* call on a poisoned core) is the absence of a step.  The transfer of     *)
(* bytes to the sink and the report of their count are one action, as      *)
(* every driver does them; the counts that get lost are OverReport and     *)
(* MarkUnusable.  Drop is the end of an operation by any cause: completed, *)
(* failed, I/O error returned by the driver, or a cancelled future.        *)
(***************************************************************************)
EXTENDS Frames

CONSTANTS Nodes,     \* every CompositeNode that can be submitted or nested
          Items,     \* the nodes submitted as items
          MaxItems   \* bound on the number of accepted submissions

ASSUME NodesAssumption ==
  \A n \in Nodes : /\ n.id \in Ids
                   /\ n.kind \in {"Tensor", "Composite"}
                   /\ n.slices \in Seq(Nat)
                   /\ n.members \in Seq(Nodes)
\* A CompositeNode owns its members, so nodes are finite trees: every set of them has one
\* none of whose members is in the set.
ASSUME NodesAreTrees ==
  \A S \in SUBSET Nodes :
     S # {} => \E n \in S : \A i \in DOMAIN n.members : n.members[i] \notin S
ASSUME ItemsAssumption == Items \subseteq Nodes
ASSUME MaxItemsAssumption == MaxItems \in Nat
\* An encoded descriptor is never empty (its fixed header alone is 20 bytes).
ASSUME EncodedLengthAssumption == \A id \in Ids : Desc[id].len > 0

VARIABLES
  unusable,   \* core.unusable: "None", "LostWriteCount" or "IncompleteOutput"
  torn,       \* core.torn
  opState,    \* op.state, or "None" when no operation borrows the core
  index,      \* the payload being emitted, from 1, in opState "Payload"
  staging,    \* op.staging: encoded descriptor of the node being emitted
  payloads,   \* op.payloads: payload slices of that node
  written,    \* op.written: bytes of the current slice already accepted
  emitted,    \* op.emitted_bytes: bytes of the item already accepted
  stack,      \* op.stack: one [members, next] frame per open composite
  wire,       \* the bytes the sink took, each with its item and rank in the item
  submitted,  \* history: the items accepted for writing, in order
  done,       \* history: the items ItemWritten was returned for
  lost        \* history: bytes moved whose count was lost

coreVars == <<unusable, torn>>
opVars   == <<opState, index, staging, payloads, written, emitted, stack>>
vars     == <<unusable, torn, opState, index, staging, payloads, written, emitted,
              stack, wire, submitted, done, lost>>

WireByte == [item : Nat, nth : Nat, byte : Byte]
Frame == [members : Seq(Nodes), next : Nat \ {0}]

NoOp ==
  /\ opState = "None" /\ index = 0 /\ staging = <<>> /\ payloads = <<>>
  /\ written = 0 /\ emitted = 0 /\ stack = <<>>

Init ==
  /\ unusable = "None" /\ torn = FALSE
  /\ NoOp
  /\ wire = <<>> /\ submitted = <<>> /\ done = {} /\ lost = FALSE

\* retired(): `unusable` wins over `torn`.
retired == IF unusable # "None" THEN unusable
           ELSE IF torn THEN "IncompleteOutput" ELSE "None"

-----------------------------------------------------------------------------
\* Validation on submission: nothing is written

validate_tensor(n) ==
  /\ Len(n.slices) = Len(Desc[n.id].bufs)
  /\ \A i \in DOMAIN n.slices :
        /\ n.slices[i] = Desc[n.id].bufs[i].size
        /\ CrossMachine => Desc[n.id].bufs[i].synced

\* validate_composite recurses into nested composites, level by level.
Valid ==
  LET valid[n \in Nodes] ==
        IF n.kind = "Tensor" THEN validate_tensor(n)
        ELSE /\ LevelAccepted(Desc[n.id],
                              [i \in DOMAIN n.members |-> Desc[n.members[i].id]])
             /\ \A i \in DOMAIN n.members : valid[n.members[i]]
  IN  valid

\* Mutant: the state of the core is not looked at.
BeginOp_on_any_core(n) ==
  /\ opState = "None"
  /\ Len(submitted) < MaxItems
  /\ Valid[n] /\ Encodable(Desc[n.id])
  /\ opState' = "Descriptor" /\ index' = 0
  /\ staging' = encode(n.id)
  /\ written' = 0 /\ emitted' = 0
  /\ submitted' = Append(submitted, n)
  /\ UNCHANGED <<unusable, torn, wire, done, lost>>

\* Opens the operation on node n, its descriptor staged.
BeginOp(n) ==
  /\ opState = "None" /\ retired = "None"
  /\ Len(submitted) < MaxItems
  /\ Valid[n] /\ Encodable(Desc[n.id])
  /\ opState' = "Descriptor" /\ index' = 0
  /\ staging' = encode(n.id)
  /\ written' = 0 /\ emitted' = 0
  /\ submitted' = Append(submitted, n)
  /\ UNCHANGED <<unusable, torn, wire, done, lost>>

tensor(n) ==
  /\ n.kind = "Tensor"
  /\ BeginOp(n)
  /\ payloads' = payloads_of(n)
  /\ stack' = <<>>

composite(n) ==
  /\ n.kind = "Composite"
  /\ BeginOp(n)
  /\ payloads' = <<>>
  /\ stack' = <<[members |-> n.members, next |-> 1]>>

-----------------------------------------------------------------------------
\* WriteOp::step

CurrentSlice == CASE opState = "Descriptor" -> staging
                  [] opState = "Payload"    -> payloads[index]
                  [] OTHER                  -> <<>>

Offering   == opState \in {"Descriptor", "Payload"}
output_src == SubSeq(CurrentSlice, written + 1, Len(CurrentSlice))
remaining  == IF Offering THEN Len(CurrentSlice) - written ELSE 0

\* The payloads begin_payload has not skipped yet and that have a byte to offer.
LaterPayloads == {j \in index + 1 .. Len(payloads) : Len(payloads[j]) > 0}

\* Mutant: the last member of a frame is taken for its end.
OpenFrames_off_by_one == {f \in DOMAIN stack : stack[f].next < Len(stack[f].members)}

\* The frames of the stack that still have a member to emit; next_node pops the others.
OpenFrames == {f \in DOMAIN stack : stack[f].next <= Len(stack[f].members)}

\* Mutant: a written payload is not noticed.
SliceExhausted_descriptor_only ==
  /\ opState = "Descriptor"
  /\ unusable = "None"
  /\ remaining = 0

SliceExhausted ==
  /\ Offering
  /\ unusable = "None"
  /\ remaining = 0

\* begin_payload: on to the next payload that is not empty.
StepPayload ==
  /\ SliceExhausted
  /\ opState' = "Payload"
  /\ \E j \in LaterPayloads : /\ \A k \in LaterPayloads : j <= k
                             /\ index' = j
  /\ written' = 0
  /\ UNCHANGED <<unusable, torn, staging, payloads, emitted, stack, wire, submitted, done, lost>>

\* frame.next += 1
Advance(frame) == [members |-> frame.members, next |-> frame.next + 1]

\* Stages the descriptor of a node just taken off the stack, of which `kept` is left.  A
\* descriptor that does not encode ends the operation.
TakeMember(node, kept) ==
  \/ /\ Encodable(Desc[node.id])
     /\ opState' = "Descriptor" /\ index' = 0
     /\ staging' = encode(node.id)
     /\ payloads' = IF node.kind = "Tensor" THEN payloads_of(node) ELSE <<>>
     /\ stack' = IF node.kind = "Tensor" THEN kept
                 ELSE Append(kept, [members |-> node.members, next |-> 1])
  \/ /\ ~ Encodable(Desc[node.id])
     /\ opState' = "Failed"
     /\ stack' = kept
     /\ UNCHANGED <<index, staging, payloads>>

\* next_node: pop the finished frames, take the next member of the innermost open one.
StepNode ==
  /\ SliceExhausted
  /\ LaterPayloads = {}
  /\ \E f \in OpenFrames :
        /\ \A g \in OpenFrames : g <= f
        /\ TakeMember(stack[f].members[stack[f].next],
                      SubSeq([stack EXCEPT ![f] = Advance(@)], 1, f))
  /\ written' = 0
  /\ UNCHANGED <<unusable, torn, emitted, wire, submitted, done, lost>>

\* next_node with an empty stack: the item is whole, the same call returns ItemWritten
\* and clears `torn`.
StepDone ==
  /\ SliceExhausted
  /\ LaterPayloads = {} /\ OpenFrames = {}
  /\ opState' = "Done" /\ index' = 0 /\ payloads' = <<>> /\ stack' = <<>>
  /\ written' = 0
  /\ torn' = FALSE
  /\ done' = done \cup {Len(submitted)}
  /\ UNCHANGED <<unusable, staging, emitted, wire, submitted, lost>>

-----------------------------------------------------------------------------
\* Progress reports, each together with the transfer it reports

\* The first m offered bytes as they land on the wire.
Taken(m) == [k \in 1 .. m |-> [item |-> Len(submitted), nth |-> emitted + k,
                               byte |-> output_src[k]]]

\* Mutant: the core is not marked at the first byte.
report_written_never_torn(n) ==
  /\ Offering /\ unusable = "None"
  /\ n \in 1 .. remaining
  /\ wire' = wire \o Taken(n)
  /\ emitted' = emitted + n
  /\ written' = written + n
  /\ UNCHANGED <<unusable, torn, opState, index, staging, payloads, stack, submitted, done, lost>>

\* Mutant: the count of the item is overwritten instead of accumulated.
report_written_last_only(n) ==
  /\ Offering /\ unusable = "None"
  /\ n \in 1 .. remaining
  /\ wire' = wire \o Taken(n)
  /\ torn' = (emitted = 0 \/ torn)
  /\ emitted' = n
  /\ written' = written + n
  /\ UNCHANGED <<unusable, opState, index, staging, payloads, stack, submitted, done, lost>>

\* The sink took n bytes and the driver reports n.
report_written(n) ==
  /\ Offering /\ unusable = "None"
  /\ n \in 1 .. remaining
  /\ wire' = wire \o Taken(n)
  /\ torn' = (emitted = 0 \/ torn)
  /\ emitted' = emitted + n
  /\ written' = written + n
  /\ UNCHANGED <<unusable, opState, index, staging, payloads, stack, submitted, done, lost>>

\* The driver reports more than was offered: m bytes really moved, the count is lost.
OverReport(m) ==
  /\ opState \in {"Descriptor", "Payload", "Done"} /\ unusable = "None"
  /\ m \in 0 .. remaining
  /\ wire' = wire \o Taken(m)
  /\ unusable' = "LostWriteCount" /\ lost' = TRUE
  /\ opState' = "Failed"
  /\ UNCHANGED <<torn, index, staging, payloads, written, emitted, stack, submitted, done>>

\* mark_unusable: m bytes moved and nobody knows m.  Allowed in every state of the op.
MarkUnusable(m) ==
  /\ opState # "None"
  /\ m \in 0 .. remaining
  /\ wire' = wire \o Taken(m)
  /\ unusable' = "LostWriteCount" /\ lost' = TRUE
  /\ opState' = "Failed"
  /\ UNCHANGED <<torn, index, staging, payloads, written, emitted, stack, submitted, done>>

report_sink_closed ==
  /\ opState # "None"
  /\ unusable' = "IncompleteOutput"
  /\ opState' = "Failed"
  /\ UNCHANGED <<torn, index, staging, payloads, written, emitted, stack, wire,
                 submitted, done, lost>>

\* The operation goes away: the borrow of the core ends, nothing is told to the core.
Drop ==
  /\ opState # "None"
  /\ opState' = "None" /\ index' = 0 /\ staging' = <<>> /\ payloads' = <<>>
  /\ written' = 0 /\ emitted' = 0 /\ stack' = <<>>
  /\ UNCHANGED <<unusable, torn, wire, submitted, done, lost>>

step == StepPayload \/ StepNode \/ StepDone

Next ==
  \/ \E n \in Items : tensor(n) \/ composite(n)
  \/ step
  \/ \E n \in 1 .. remaining : report_written(n)
  \/ \E m \in 0 .. remaining : OverReport(m) \/ MarkUnusable(m)
  \/ report_sink_closed
  \/ Drop

Spec == Init /\ [][Next]_vars

\* What the drain loops of the drivers guarantee: as long as the operation lives they call
\* step, and hand an offered slice to a sink that takes at least one byte of it.
Fairness == WF_vars(step) /\ WF_vars(\E n \in 1 .. remaining : report_written(n))
FairSpec == Spec /\ Fairness

-----------------------------------------------------------------------------
TypeOK ==
  /\ unusable \in {"None", "LostWriteCount", "IncompleteOutput"}
  /\ torn \in BOOLEAN /\ lost \in BOOLEAN
  /\ opState \in {"None", "Descriptor", "Payload", "Done", "Failed"}
  /\ index \in Nat /\ written \in Nat /\ emitted \in Nat
  /\ staging \in Seq(Byte)
  /\ payloads \in Seq(Seq(Byte))
  /\ stack \in Seq(Frame)
  /\ wire \in Seq(WireByte)
  /\ submitted \in Seq(Items) /\ Len(submitted) <= MaxItems
  /\ done \subseteq 1 .. Len(submitted)
  /\ opState # "None" => submitted # <<>>
  /\ opState = "Payload" => index \in 1 .. Len(payloads)
  /\ Offering => written <= Len(CurrentSlice)

\* No item is ever spliced into the middle of another one: each byte on the wire is
\* followed by the next byte of its own item, or, once ItemWritten was returned for that
\* item, by the first byte of a later one.  This is what `torn` and `unusable` are for
\* (ADR-041 section 6b): a writer that lost an item half-way takes no further work,
\* whether or not its driver said anything before dropping the operation.
NoSplice ==
  /\ wire # <<>> => wire[1].nth = 1
  /\ \A i \in 1 .. Len(wire) - 1 :
        \/ /\ wire[i + 1].item = wire[i].item
           /\ wire[i + 1].nth = wire[i].nth + 1
        \/ /\ wire[i].item \in done
           /\ wire[i + 1].item > wire[i].item
           /\ wire[i + 1].nth = 1

LastByte == wire[Len(wire)]

\* Between operations a usable core has a whole number of items behind it, so that a
\* failed item of which no byte left may be submitted again.
UsableMeansWhole ==
  (opState = "None" /\ retired = "None" /\ wire # <<>>) => LastByte.item \in done

\* `torn` never condemns a writer whose last item was reported written.
TornMeansUnfinished == torn => (wire # <<>> /\ LastByte.item \notin done)

\* emitted() tells the truth: unless a count was lost, it is the rank of the wire's last
\* byte in the current item; and zero, the caller's licence to resubmit, means the wire
\* ends with an earlier item that was reported written.
EmittedIsExact ==
  (opState # "None" /\ ~ lost) =>
     IF emitted = 0
     THEN wire # <<>> => (LastByte.item \in done /\ LastByte.item < Len(submitted))
     ELSE wire # <<>> /\ LastByte.item = Len(submitted) /\ LastByte.nth = emitted

\* The wire image of a node by definition (ADR-027, Binding): the descriptor, then the
\* payloads of a tensor in buffer order, or the members of a composite, depth first.
Encoded[n \in Nodes] ==
  encode(n.id) \o Joined(IF n.kind = "Tensor" THEN payloads_of(n)
                             ELSE [i \in DOMAIN n.members |-> Encoded[n.members[i]]])

\* Every byte the sink received is the byte of its rank in the wire image of its item, and
\* of an item ItemWritten was returned for, the last one is there.  With NoSplice: what the
\* sink has of an item is a prefix of its image, and all of it once it is reported; the
\* explicit stack of next_node visits the tree depth first, skips nothing and repeats
\* nothing, whatever the short writes.
WireIsEncoding ==
  \A s \in DOMAIN submitted :
     LET image == Encoded[submitted[s]]
     IN  /\ \A i \in DOMAIN wire :
              wire[i].item = s => wire[i].nth \in DOMAIN image /\ wire[i].byte = image[wire[i].nth]
         /\ s \in done => \E i \in DOMAIN wire : wire[i].item = s /\ wire[i].nth = Len(image)

\* A retired core takes no other item, and only one thing heals it: the completion of the
\* item whose bytes are the last on the wire, the one that tore it.
RetiredIsFinal ==
  [][(retired # "None") =>
       /\ submitted' = submitted
       /\ (retired' = "None") => (LastByte.item = Len(submitted) /\ LastByte.item \in done')]_vars

\* An operation does not offer bytes for ever: driven by a drain loop it completes, unless
\* it fails or is given up.
OperationEnds == opState \in {"Descriptor", "Payload"} ~> opState \in {"Done", "Failed", "None"}

\* "Validation happens on submission, so a torn or invalid item never reaches a sink":
\* an operation that fails by itself, with a driver that did nothing wrong, has emitted
\* nothing.
FailsBeforeFirstByte == (opState = "Failed" /\ unusable = "None") => emitted = 0
=============================================================================
