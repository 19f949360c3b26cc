------------------------------ MODULE FfiStream ------------------------------
(***************************************************************************)
(* The C stream drivers (hurray-ffi/src/stream/writer.rs, reader.rs and    *)
(* transport.rs) over the sans-io cores: a C program writes tensors and    *)
(* composites through one handle, destroys it, and reads the bytes back    *)
(* through another.                                                        *)
(*                                                                         *)
(* A call blocks in the transport callbacks the C program supplied.  They  *)
(* keep their contract: they move any part of what they are offered, or    *)
(* fail having moved nothing, or say that they are at their end.  Each     *)
(* callback is one step; a call ends when its status is returned.          *)
(***************************************************************************)
EXTENDS Frames, FfiTree

CONSTANTS Arrays,       \* the node arrays passed to hurray_writer_write_composite
          Tensors,      \* the elements passed to hurray_writer_write_tensor
          Nodes,        \* every node of their trees
          MaxCalls,     \* bound on the calls of the writer
          MaxDescriptorBytes, MaxBufferBytes,
          max_composite_depth,   \* HurrayReaderOptions.max_composite_depth
          DefaultDepth           \* StreamReaderOptions::default().max_composite_depth

ASSUME CallBoundsAssumption == MaxCalls \in Nat
ASSUME DepthAssumption == max_composite_depth \in Nat /\ DefaultDepth \in Nat \ {0}

\* The node that hurray_writer_write_tensor makes of its arguments.
TensorItem(node) == [kind |-> "Tensor", id |-> node.id, slices |-> node.slices, members |-> <<>>]

\* Nodes and descriptors are as StreamWrite has them, and every call that is not refused for
\* its pointers or its shape is about such a node.
ASSUME EncodedLengthAssumption == \A id \in Ids : Desc[id].len > 0
ASSUME NodesAssumption ==
  \A n \in Nodes : /\ n.id \in Ids
                   /\ n.kind \in {"Tensor", "Composite"}
                   /\ n.slices \in Seq(Nat)
                   /\ n.members \in Seq(Nodes)
ASSUME NodesAreTrees ==
  \A S \in SUBSET Nodes :
     S # {} => \E n \in S : \A i \in DOMAIN n.members : n.members[i] \notin S
ASSUME CallsAssumption ==
  /\ \A node \in Tensors : NullPointer(node) \/ TensorItem(node) \in Nodes
  /\ \A nodes \in Arrays :
        stream_tree(nodes).status = "OK" => stream_tree(nodes).tree[1] \in Nodes

VARIABLES
  \* the write core and its wire
  unusable, torn, opState, index, staging, payloads, written, emitted, stack, wire,
  submitted, done, lost,
  \* the read core and the assembler
  pos, rstate, rindex, target, filled, rstaging, pending, dest, ready, delivered,
  astack, aout, afailed,
  \* the handles
  side,      \* "writer" or "reader" -> [handle, contexts]: its state and how many transport
             \* contexts were handed to it and not released
  wcall,     \* the array being written: <<>> or <<nodes>>
  log,       \* history: [nodes, status, nth, tree] for each write that returned; a call that
             \* opened no operation has no nodes and nth = 0
  rcall,     \* the read under way: "None", "next_tensor" or "next_item"
  rlast,     \* the status of the last read
  got        \* history: [fn, nodes] for each read that returned HURRAY_OK

Bytes == [i \in DOMAIN wire |-> wire[i].byte]
closed == side["writer"].handle = "Gone"

\* HurrayReaderOptions::to_io: zero asks for the default.
to_io == IF max_composite_depth = 0 THEN DefaultDepth ELSE max_composite_depth

W == INSTANCE StreamWrite WITH Items <- Nodes, MaxItems <- MaxCalls
R == INSTANCE StreamRead WITH wire <- Bytes, eof <- closed, Wires <- {}
A == INSTANCE CompositeAssembler
       WITH stack <- astack, out <- aout, failed <- afailed, MaxDepth <- to_io

wcore == <<unusable, torn, opState, index, staging, payloads, written, emitted, stack,
           wire, submitted, done, lost>>
rcore == <<pos, rstate, rindex, target, filled, rstaging, pending, dest, ready, delivered>>
acore == <<astack, aout, afailed>>
wvars == <<wcore, wcall, log>>
rside == <<rcore, acore, rcall, rlast, got>>
vars  == <<wvars, rside, side>>

NoHandle == [handle |-> "None", contexts |-> 0]

Init ==
  /\ W!Init /\ R!ReadInit /\ A!AssembleInit
  /\ side = [s \in {"writer", "reader"} |-> NoHandle]
  /\ wcall = <<>> /\ log = <<>>
  /\ rcall = "None" /\ rlast = "OK" /\ got = <<>>

-----------------------------------------------------------------------------
\* Handles

\* Mutant: a vtable that is not used is not dropped either.
Made_no_release(complete, contexts) ==
  [handle |-> IF complete THEN "Live" ELSE "None", contexts |-> contexts + 1]

\* hurray_writer_new and hurray_reader_new.  The copied vtable is dropped, and with it the
\* context released, when the callback the side needs is missing.
Made(complete, contexts) ==
  [handle |-> IF complete THEN "Live" ELSE "None",
   contexts |-> IF complete THEN contexts + 1 ELSE contexts]

New(s) ==
  /\ side[s].handle = "None"
  /\ s = "reader" => closed
  /\ \E complete \in BOOLEAN : side' = [side EXCEPT ![s] = Made(complete, @.contexts)]
  /\ UNCHANGED <<wvars, rside>>

\* hurray_writer_destroy and hurray_reader_destroy: Transport::drop releases the context.
Destroy(s) ==
  /\ side[s].handle = "Live"
  /\ IF s = "writer" THEN wcall = <<>> ELSE rcall = "None"
  /\ side' = [side EXCEPT ![s].handle = "Gone", ![s].contexts = @ - 1]
  /\ UNCHANGED <<wvars, rside>>

-----------------------------------------------------------------------------
\* hurray_writer_write_tensor and hurray_writer_write_composite

CanWrite ==
  /\ side["writer"].handle = "Live" /\ wcall = <<>> /\ Len(log) < MaxCalls

\* A call that returns before it has opened an operation.
RefuseWrite(nodes, status) ==
  /\ log' = Append(log, [nodes |-> <<>>, status |-> status, nth |-> 0, tree |-> IsOneTree(nodes)])
  /\ UNCHANGED <<wcore, wcall, rside, side>>

\* core.tensor or core.composite on the node: it opens the operation, or reports why not.
Submit(nodes, n) ==
  \/ /\ W!retired # "None"
     /\ RefuseWrite(nodes, "CORE_UNUSABLE")
  \/ /\ W!retired = "None" /\ ~ (W!Valid[n] /\ Encodable(Desc[n.id]))
     /\ RefuseWrite(nodes, "INVALID")
  \/ /\ W!tensor(n) \/ W!composite(n)
     /\ wcall' = <<nodes>>
     /\ UNCHANGED <<log, rside, side>>

hurray_writer_write_tensor(node) ==
  /\ CanWrite
  /\ \/ NullPointer(node) /\ RefuseWrite(<<node>>, "NULL_POINTER")
     \/ /\ ~ NullPointer(node)
        /\ Submit(<<node>>, TensorItem(node))

hurray_writer_write_composite(nodes) ==
  /\ CanWrite
  /\ LET built == stream_tree(nodes)
     IN  \/ built.status # "OK" /\ RefuseWrite(nodes, built.status)
         \/ built.status = "OK" /\ Submit(nodes, built.tree[1])

\* Mutant: the loop goes on after its operation is gone.
ReturnWrite_goes_on(status) ==
  /\ W!Drop
  /\ log' = Append(log, [nodes |-> wcall[1], status |-> status,
                          nth |-> Len(submitted), tree |-> IsOneTree(wcall[1])])
  /\ UNCHANGED <<wcall, rside, side>>

\* The call returns and its operation goes.
ReturnWrite(status) ==
  /\ W!Drop
  /\ wcall' = <<>>
  /\ log' = Append(log, [nodes |-> wcall[1], status |-> status,
                          nth |-> Len(submitted), tree |-> IsOneTree(wcall[1])])
  /\ UNCHANGED <<rside, side>>

Writing == wcall # <<>>

\* drain: step, or the callback takes part of what is offered.
DrainStep ==
  /\ Writing
  /\ W!step \/ (\E n \in 1 .. W!remaining : W!report_written(n))
  /\ UNCHANGED <<wcall, log, rside, side>>

\* The callback takes nothing: Ok(0).  report_sink_closed, and return.
DrainZero ==
  /\ Writing /\ W!remaining > 0
  /\ W!report_sink_closed
  /\ UNCHANGED <<wcall, log, rside, side>>

\* Mutant: the callback's status is returned whatever is on the wire.
DrainFails_own_status ==
  /\ Writing /\ W!remaining > 0
  /\ ReturnWrite("CALLBACK")

\* The callback fails: its own status, unless part of the item is on the wire.
DrainFails ==
  /\ Writing /\ W!remaining > 0
  /\ ReturnWrite(IF emitted > 0 THEN "SINK_CLOSED" ELSE "CALLBACK")

\* ItemWritten, or the error of an operation that failed.
DrainReturns ==
  /\ Writing
  /\ \/ opState = "Done" /\ ReturnWrite("OK")
     \/ opState = "Failed" /\ ReturnWrite("SINK_CLOSED")

-----------------------------------------------------------------------------
\* hurray_reader_next_tensor and hurray_reader_next_item

\* Mixing the two is allowed; next_tensor is not called while a group is open.
CallRead(fn) ==
  /\ side["reader"].handle = "Live" /\ rcall = "None" /\ ~ afailed
  /\ fn = "next_tensor" => astack = <<>>
  /\ rcall' = fn
  /\ UNCHANGED <<wvars, rcore, acore, rlast, got, side>>

ReturnRead(status) == rcall' = "None" /\ rlast' = status

Reading == rcall # "None"

\* A turn of the loop that moves or inspects bytes.
ReadTurn ==
  /\ Reading
  /\ R!ReadStep \/ (\E n \in 1 .. R!unfilled : R!report_filled(n)) \/ R!ReportEof
  /\ UNCHANGED <<wvars, acore, rcall, rlast, got, side>>

\* Mutant: a failed read starts the tensor over.
ReadFails_restarts ==
  /\ Reading /\ R!unfilled > 0
  /\ ReturnRead("CALLBACK")
  /\ rstate' = "Prefix" /\ target' = PrefixLen /\ filled' = 0 /\ rstaging' = <<>>
  /\ UNCHANGED <<wvars, pos, rindex, pending, dest, ready, delivered, acore, got, side>>

\* The read callback fails: its status is returned and the core stays where it is.
ReadFails ==
  /\ Reading /\ R!unfilled > 0
  /\ ReturnRead("CALLBACK")
  /\ UNCHANGED <<wvars, rcore, acore, got, side>>

TensorNode(t) == [kind |-> "Tensor", id |-> t.id, buffers |-> t.buffers, count |-> 0]

\* next_tensor on a finished tensor.
TakeTensor ==
  /\ rcall = "next_tensor"
  /\ R!take_tensor
  /\ got' = Append(got, [fn |-> rcall, nodes |-> <<TensorNode(ready[1])>>])
  /\ ReturnRead("OK")
  /\ UNCHANGED <<wvars, acore, side>>

\* next_item on a finished tensor: pushed, and the loop goes on unless it completes an item
\* or is refused.
TakeItem ==
  /\ rcall = "next_item"
  /\ R!take_tensor /\ A!push(ready[1])
  /\ \/ /\ afailed' /\ ReturnRead("FAILED") /\ UNCHANGED got
     \/ /\ Len(aout') > Len(aout)
        /\ got' = Append(got, [fn    |-> rcall,
                               nodes |-> item_handle(Last(aout'), Len(delivered'))])
        /\ ReturnRead("OK")
     \/ /\ ~ afailed' /\ aout' = aout
        /\ UNCHANGED <<rcall, rlast, got>>
  /\ UNCHANGED <<wvars, side>>

\* Mutant: next_item does not ask the assembler whether a group is open.
ReadEnds_no_finish ==
  /\ Reading
  /\ \/ rstate = "Finished" /\ ReturnRead("END_OF_STREAM")
     \/ rstate = "Failed" /\ ReturnRead("FAILED")
  /\ UNCHANGED <<wvars, rcore, acore, got, side>>

\* Mutant: an error of the core is taken for a reason to ask again.
ReadEnds_ignores_errors ==
  /\ Reading
  /\ rstate = "Finished"
  /\ ReturnRead(IF rcall = "next_item" /\ ~ A!FinishClean THEN "FAILED" ELSE "END_OF_STREAM")
  /\ UNCHANGED <<wvars, rcore, acore, got, side>>

\* The end of input, or the error of a failed core.  assembler.finish() refuses an end
\* inside a group.
ReadEnds ==
  /\ Reading
  /\ \/ /\ rstate = "Finished"
        /\ ReturnRead(IF rcall = "next_item" /\ ~ A!FinishClean THEN "FAILED"
                      ELSE "END_OF_STREAM")
     \/ rstate = "Failed" /\ ReturnRead("FAILED")
  /\ UNCHANGED <<wvars, rcore, acore, got, side>>

Driver ==
  \/ DrainStep \/ DrainZero \/ DrainFails \/ DrainReturns
  \/ ReadTurn \/ ReadFails \/ TakeTensor \/ TakeItem \/ ReadEnds

Next ==
  \/ \E s \in {"writer", "reader"} : New(s) \/ Destroy(s)
  \/ \E node \in Tensors : hurray_writer_write_tensor(node)
  \/ \E nodes \in Arrays : hurray_writer_write_composite(nodes)
  \/ \E fn \in {"next_tensor", "next_item"} : CallRead(fn)
  \/ Driver

Spec == Init /\ [][Next]_vars

\* A call runs until it returns: the loops never wait for anything but a callback, and the
\* callbacks return.
FairSpec == Spec /\ WF_vars(Driver)

-----------------------------------------------------------------------------
TypeOK ==
  /\ \A s \in {"writer", "reader"} :
        side[s] \in [handle : {"None", "Live", "Gone"}, contexts : Int]
  /\ Len(wcall) <= 1
  /\ Writing => opState # "None"
  /\ Len(log) <= MaxCalls
  /\ \A k \in DOMAIN log : log[k].status \in
        {"OK", "NULL_POINTER", "NOT_COMPOSITE", "INDEX_OUT_OF_BOUNDS", "INVALID",
         "CORE_UNUSABLE", "SINK_CLOSED", "CALLBACK"}
  /\ rcall \in {"None", "next_tensor", "next_item"}
  /\ rlast \in {"OK", "CALLBACK", "FAILED", "END_OF_STREAM"}

\* The status of a write tells its caller what it may do next.  A status other than
\* HURRAY_OK and HURRAY_ERR_SINK_CLOSED means that no byte of that item is on the wire, so
\* the call may be retried; and between calls the writer takes further work exactly when no
\* call has returned HURRAY_ERR_SINK_CLOSED.
StatusTellsTheWire ==
  /\ \A k \in DOMAIN log :
        /\ log[k].status \notin {"OK", "SINK_CLOSED"} =>
             \A i \in DOMAIN wire : wire[i].item # log[k].nth
        /\ log[k].status = "OK" => log[k].nth \in done
  /\ ~ Writing => (W!retired # "None" <=> \E k \in DOMAIN log : log[k].status = "SINK_CLOSED")

\* An array is refused for its shape, HURRAY_ERR_INDEX_OUT_OF_BOUNDS, exactly when its
\* counts do not describe one tree: a head short of members, or elements past the end.
ShapeRefusedForCause ==
  \A k \in DOMAIN log : log[k].status = "INDEX_OUT_OF_BOUNDS" <=> ~ log[k].tree

\* A status can be acted on: it tells what is on the wire.
StatusesAreTrue == TypeOK /\ StatusTellsTheWire

\* The elements on the wire, whole or begun, in order.
Written(nodes) ==
  [i \in DOMAIN nodes |-> [kind |-> nodes[i].kind, id |-> nodes[i].id,
                           buffers |-> IF nodes[i].kind = "Tensor" THEN payloads_of(nodes[i])
                                       ELSE <<>>,
                           count |-> nodes[i].count]]
Begun == SelectSeq(log, LAMBDA e : \E i \in DOMAIN wire : wire[i].item = e.nth)
Sent  == FlattenSeq([k \in DOMAIN Begun |-> Written(Begun[k].nodes)])
Taken == FlattenSeq([k \in DOMAIN got |-> got[k].nodes])
Content(nodes) == [i \in DOMAIN nodes |-> <<nodes[i].id, nodes[i].buffers>>]
TakenBefore(k) == Len(FlattenSeq([j \in 1 .. k - 1 |-> got[j].nodes]))

\* What is read back is what was written, element for element: rebuilding a tree from its
\* array, emitting it, assembling it and flattening it again is the identity, however often
\* a read callback failed on the way, and an item read with next_item has the shape of the
\* array (or the part of an array whose head next_tensor took) it was written from.
ReadsWhatWasWritten ==
  (~ Writing) =>
     /\ IsPrefix(Content(Taken), Content(Sent))
     /\ \A k \in DOMAIN got : got[k].fn = "next_item" =>
           got[k].nodes = SubSeq(Sent, TakenBefore(k) + 1, TakenBefore(k) + Len(got[k].nodes))

\* A group read flat: next_tensor took its head.
ReadFlat == \E k \in DOMAIN got : got[k].fn = "next_tensor" /\ IsHead(got[k].nodes[1].id)

\* HURRAY_END_OF_STREAM means that every byte was read, and, unless a group was read flat
\* (an end between two of its tensors is a clean one then), that everything written has
\* been read and the last write was not cut short.
EndMeansAll ==
  rlast = "END_OF_STREAM" =>
     /\ pos = Len(wire)
     /\ ReadFlat \/ (/\ Content(Taken) = Content(Sent)
                     /\ \A k \in DOMAIN Begun : Begun[k].status = "OK")

\* A read fails for good only when a write did: the drivers agree on what a stream is.
FailureHasACause ==
  rlast = "FAILED" => \E k \in DOMAIN Begun : Begun[k].status # "OK"

\* The reading side gets the stream that was written: its items, an end only after all of
\* them, and a failure only where the writer left one; and an array is a tree to the writer
\* exactly when it is one by definition.
StreamReadsBack ==
  ReadsWhatWasWritten /\ EndMeansAll /\ FailureHasACause /\ ShapeRefusedForCause

\* Every transport context handed over is released once, by the handle that owns it or by
\* the call that could not make one.
ContextReleasedOnce ==
  \A s \in {"writer", "reader"} :
     side[s].contexts = (IF side[s].handle = "Live" THEN 1 ELSE 0)

\* Every call returns.
CallsReturn == (Writing \/ Reading) ~> ~ (Writing \/ Reading)
=============================================================================
