----------------------------- MODULE StreamPipe -----------------------------
(***************************************************************************)
(* A StreamWriter and a StreamReader joined by a byte transport: the write *)
(* core (StreamWrite), the read core (StreamRead) and the assembler        *)
(* (CompositeAssembler), driven by the loops of hurray-io/src/stream/      *)
(* writer.rs and reader.rs.  The two ends run concurrently: any transfer,  *)
(* of any length, of one end may fall between two of the other.            *)
(***************************************************************************)
EXTENDS Frames

CONSTANTS Nodes, Items, MaxItems, MaxDescriptorBytes, MaxBufferBytes, MaxDepth

\* The assumptions of the two ends on what they are given (see StreamWrite, StreamRead).
ASSUME PipeNodesAssumption ==
  \A n \in Nodes : /\ n.id \in Ids
                   /\ n.kind \in {"Tensor", "Composite"}
                   /\ n.slices \in Seq(Nat)
                   /\ n.members \in Seq(Nodes)
ASSUME PipeNodesAreTrees ==
  \A S \in SUBSET Nodes :
     S # {} => \E n \in S : \A i \in DOMAIN n.members : n.members[i] \notin S
ASSUME PipeBoundsAssumption ==
  /\ Items \subseteq Nodes /\ MaxItems \in Nat
  /\ MaxDescriptorBytes \in Nat /\ MaxBufferBytes \in Nat /\ MaxDepth \in Nat
ASSUME PipeLengthAssumption == \A id \in Ids : Desc[id].len > 0

VARIABLES
  \* the writer
  unusable, torn, opState, index, staging, payloads, written, emitted, stack, wire,
  submitted, done, lost,
  closed,     \* the sink was given back or dropped: the transport ends after `wire`
  \* the reader
  pos, rstate, rindex, target, filled, rstaging, pending, dest, ready, delivered,
  \* its assembler
  astack, aout, afailed

\* The transport carries the bytes and nothing of their provenance.
Bytes == [i \in DOMAIN wire |-> wire[i].byte]

W == INSTANCE StreamWrite
R == INSTANCE StreamRead WITH wire <- Bytes, eof <- closed, Wires <- {}
A == INSTANCE CompositeAssembler WITH stack <- astack, out <- aout, failed <- afailed

wside == <<unusable, torn, opState, index, staging, payloads, written, emitted, stack,
           wire, submitted, done, lost>>
rside == <<pos, rstate, rindex, target, filled, rstaging, pending, dest, ready, delivered>>
aside == <<astack, aout, afailed>>
vars  == <<wside, closed, rside, aside>>

Init == W!Init /\ closed = FALSE /\ R!ReadInit /\ A!AssembleInit

-----------------------------------------------------------------------------
\* The writing application: submits, drains, gives up, submits again.
Write ==
  /\ ~ closed
  /\ W!Next
  /\ UNCHANGED <<closed, rside, aside>>

\* StreamWriter::finish, or the writer dropped between operations.
Close ==
  /\ ~ closed /\ opState = "None"
  /\ closed' = TRUE
  /\ UNCHANGED <<wside, rside, aside>>

-----------------------------------------------------------------------------
\* The reading application: next_item until an item, an error or the end.

\* One turn of next_item that moves or inspects bytes.
Read ==
  /\ ~ afailed
  /\ R!ReadStep \/ (\E n \in 1 .. R!unfilled : R!report_filled(n)) \/ R!ReportEof
  /\ UNCHANGED <<wside, closed, aside>>

\* next_item on a finished tensor: taken and pushed in one go.
TakeAndPush ==
  /\ ~ afailed
  /\ R!take_tensor
  /\ A!push(ready[1])
  /\ UNCHANGED <<wside, closed>>

\* The reader's driver loses a count.
LoseCount ==
  /\ \E m \in 0 .. R!unfilled : R!OverReport(m) \/ R!MarkUnusable(m)
  /\ UNCHANGED <<wside, closed, aside>>

Next == Write \/ Close \/ Read \/ TakeAndPush \/ LoseCount

Spec == Init /\ [][Next]_vars

\* Both drivers run their loops; nothing forces the application to close or to submit.
Fairness == WF_vars(Read) /\ WF_vars(TakeAndPush)
FairSpec == Spec /\ Fairness

-----------------------------------------------------------------------------
\* What the calls of next_item have told the reading application so far.
Outcome ==
  CASE rstate = "Unusable" -> "Lost"
    [] rstate # "Unusable" /\ afailed -> "Refused"
    [] rstate = "Failed" /\ ~ afailed -> "Torn"
    [] rstate = "Finished" /\ ~ afailed -> IF A!FinishClean THEN "Clean" ELSE "Torn"
    [] OTHER -> "Open"

\* The item a submitted node comes back as.
ItemOf ==
  LET item[n \in Nodes] ==
        [kind    |-> n.kind, id |-> n.id,
         buffers |-> IF n.kind = "Tensor" THEN payloads_of(n) ELSE <<>>,
         members |-> [i \in DOMAIN n.members |-> item[n.members[i]]]]
  IN  item

\* The submissions with a byte on the wire, in order.
Started ==
  LET upto[i \in 0 .. Len(wire)] ==
        IF i = 0 THEN <<>>
        ELSE IF wire[i].nth = 1 THEN Append(upto[i - 1], wire[i].item) ELSE upto[i - 1]
  IN  upto[Len(wire)]
Sent == [k \in DOMAIN Started |-> ItemOf[submitted[Started[k]]]]

Channel == INSTANCE ItemChannel
             WITH Item <- {ItemOf[n] : n \in Items}, sent <- Sent, got <- aout,
                  shut <- closed, outcome <- Outcome

\* What the limits of the reader ask of a node, beyond what the writer checks: the writer
\* enforces none of it.
WithinLimits(n) ==
  /\ Decodable(n.id) /\ Desc[n.id].len <= MaxDescriptorBytes
  /\ \A i \in DOMAIN Desc[n.id].bufs : /\ Desc[n.id].bufs[i].size <= MaxBufferBytes
                                       /\ Desc[n.id].bufs[i].allocatable
  /\ n.kind = "Tensor" => ~ IsHead(n.id) /\ n.members = <<>>
  /\ n.kind = "Composite" => n.members # <<>>

\* Every node is within the limits, and no path of heads is longer than max_depth.
NodesWithinLimits ==
  /\ \A n \in Nodes : WithinLimits(n)
  /\ \E height \in [Nodes -> 0 .. MaxDepth] :
        \A n \in Nodes : \A i \in DOMAIN n.members : height[n.members[i]] < height[n]

\* The byte-level stream implements the item channel: however writes and reads are cut and
\* interleaved, and wherever the writer or the reader gives up, items arrive whole, in
\* order and unaltered, a clean end means all of them arrived, and a torn end means only
\* the last one is missing.
ImplementsChannel == Channel!Spec

\* What one end completes the other end accepts: the reader reports a torn stream or a
\* refused composite only when the last item on the wire was not reported written.
CompletedItemsAreReadable ==
  Outcome \in {"Torn", "Refused"} => (wire # <<>> /\ wire[Len(wire)].item \notin done)

\* With both loops running, an item reported written is handed to the reading application,
\* without waiting for the writer to close or to send anything else.
WrittenItemsArrive ==
  \A s \in 1 .. MaxItems :
     (s \in done) ~> (\/ Outcome = "Lost"
                      \/ \E k \in DOMAIN Started : Started[k] = s /\ Len(aout) >= k)

\* Once the sink is closed the reader comes to an end.
ReaderEnds == closed ~> (Outcome # "Open")

\* Both loops get through: what was written arrives, and a closed stream is read to its end.
EverythingArrives == WrittenItemsArrive /\ ReaderEnds
=============================================================================
