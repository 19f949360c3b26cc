------------------------------- MODULE PyAio -------------------------------
(***************************************************************************)
(* hurray.aio (hurray-python/python/hurray/aio.py over src/aio.rs): an     *)
(* asyncio StreamWriter and StreamReader at the two ends of one pipe of    *)
(* bounded capacity, on one event loop.                                    *)
(*                                                                         *)
(* The loop is single-threaded: the running task takes its steps alone     *)
(* until it returns or suspends.  A task suspends only in _Readiness.wait, *)
(* where it can be cancelled.  A transfer and its report to the core are   *)
(* one step, as they are one call into the extension.                      *)
(***************************************************************************)
EXTENDS Frames, SequencesExt

CONSTANTS Nodes, Items,     \* as in StreamWrite
          MaxCalls,         \* bound on the calls of write()
          MaxCancels,       \* bound on task.cancel()
          MaxHiccups,       \* bound on EINTR and on wakeups without readiness
          Capacity,         \* bytes the pipe holds
          Writers, Readers, \* the tasks that call write() and next_item()
          AwaitCancelled,   \* whether the application awaits a call it cancelled before the
                            \* next one; it never makes two calls of next_item() at once
          MaxDescriptorBytes, MaxBufferBytes, MaxDepth

ASSUME AioBoundsAssumption ==
  MaxCalls \in Nat /\ MaxCancels \in Nat /\ MaxHiccups \in Nat /\ Capacity \in Nat \ {0}
ASSUME LimitsAssumption ==
  MaxDescriptorBytes \in Nat /\ MaxBufferBytes \in Nat /\ MaxDepth \in Nat
ASSUME TasksAssumption ==
  /\ Writers \cap Readers = {} /\ AwaitCancelled \in BOOLEAN
  /\ {"loop", "none"} \cap (Writers \cup Readers) = {}
ASSUME NodesAssumption ==
  \A n \in Nodes : /\ n.id \in Ids
                   /\ n.kind \in {"Tensor", "Composite"}
                   /\ n.slices \in Seq(Nat)
                   /\ n.members \in Seq(Nodes)
ASSUME NodesAreTrees ==
  \A S \in SUBSET Nodes :
     S # {} => \E n \in S : \A i \in DOMAIN n.members : n.members[i] \notin S
ASSUME ItemsAssumption == Items \subseteq Nodes
ASSUME EncodedLengthAssumption == \A id \in Ids : Desc[id].len > 0

VARIABLES
  \* the write core and the pipe
  unusable, torn, opState, index, staging, payloads, written, emitted, stack, wire,
  submitted, done, lost,
  \* the read core and the assembler
  pos, rstate, rindex, target, filled, rstaging, pending, dest, ready, delivered,
  astack, aout, afailed,
  \* the loop
  running,    \* the task that runs, or "loop"
  task,       \* task -> [at, future, cancelled]: where it is in its call
  callback,   \* "r" or "w" -> the task whose `ready` is registered for the descriptor, or "none"
  cancels, hiccups,
  \* the two objects
  wopen, ropen,  \* whether _core is still there
  pinned,        \* op's payload: <<>> or <<node>>
  log,           \* history: [result, nth] of each write() that ended; nth = 0: not submitted
  rlast          \* history: what the last next_item() that ended returned or raised

Bytes == [i \in DOMAIN wire |-> wire[i].byte]
Busy(tasks) == {t \in tasks : task[t].at # "Idle"}

\* A descriptor is closed with the last reference to its core: the object's, or a call's.
closed == ~ wopen /\ Busy(Writers) = {}
rgone  == ~ ropen /\ Busy(Readers) = {}

W == INSTANCE StreamWrite WITH MaxItems <- MaxCalls
R == INSTANCE StreamRead WITH wire <- Bytes, eof <- closed, Wires <- {}
A == INSTANCE CompositeAssembler WITH stack <- astack, out <- aout, failed <- afailed
P == INSTANCE StreamPipe WITH MaxItems <- MaxCalls

wcore == <<unusable, torn, opState, index, staging, payloads, written, emitted, stack,
           wire, submitted, done, lost>>
rcore == <<pos, rstate, rindex, target, filled, rstaging, pending, dest, ready, delivered>>
acore == <<astack, aout, afailed>>
wvars == <<wcore, wopen, pinned, log>>
rside == <<rcore, acore, ropen, rlast>>
bounds == <<cancels, hiccups>>
loop  == <<running, task, callback, bounds>>
vars  == <<wvars, rside, loop>>

Tasks == Writers \cup Readers
Fd(t) == IF t \in Writers THEN "w" ELSE "r"
Idle  == [at |-> "Idle", future |-> "None", cancelled |-> FALSE]

Init ==
  /\ W!Init /\ R!ReadInit /\ A!AssembleInit
  /\ running = "loop" /\ task = [t \in Tasks |-> Idle]
  /\ callback = [fd \in {"r", "w"} |-> "none"]
  /\ cancels = 0 /\ hiccups = 0
  /\ wopen = TRUE /\ ropen = TRUE /\ pinned = <<>> /\ log = <<>> /\ rlast = "None"

-----------------------------------------------------------------------------
\* The loop and _Readiness.wait

\* The task t is at `place` and still runs.
Goes(t, place) == task' = [task EXCEPT ![t].at = place]

\* The call of t ends.
Ends(t) == running' = "loop" /\ task' = [task EXCEPT ![t] = Idle]

\* wait(): a future, the callback that resolves it, and the await.  Registering replaces
\* the callback the descriptor had.
Suspends(t) ==
  /\ running' = "loop"
  /\ task' = [task EXCEPT ![t] = [at |-> "Wait", future |-> "Pending", cancelled |-> FALSE]]
  /\ callback' = [callback EXCEPT ![Fd(t)] = t]

Space     == Capacity - (Len(wire) - pos)
Available == Len(wire) - pos
IsReady(fd) == IF fd = "w" THEN Space > 0 \/ rgone ELSE Available > 0 \/ closed

\* The selector reports the descriptor, rightly or not, and `ready` runs.
Fire(fd) ==
  /\ running = "loop"
  /\ callback[fd] # "none"
  /\ task[callback[fd]].future = "Pending" /\ ~ task[callback[fd]].cancelled
  /\ \/ IsReady(fd) /\ UNCHANGED hiccups
     \/ ~ IsReady(fd) /\ hiccups < MaxHiccups /\ hiccups' = hiccups + 1
  /\ task' = [task EXCEPT ![callback[fd]].future = "Ready"]
  /\ UNCHANGED <<wvars, rside, running, callback, cancels>>

\* task.cancel() on a suspended call.
Cancel(t) ==
  /\ running = "loop" /\ cancels < MaxCancels
  /\ task[t].at = "Wait" /\ ~ task[t].cancelled
  /\ task' = [task EXCEPT ![t].cancelled = TRUE]
  /\ cancels' = cancels + 1
  /\ UNCHANGED <<wvars, rside, running, callback, hiccups>>

\* The finally of wait(): whatever callback the descriptor has is removed.
Unregisters(t) == callback' = [callback EXCEPT ![Fd(t)] = "none"]

\* The await returns: the call takes up where it was.
Resume(t) ==
  /\ running = "loop"
  /\ task[t].at = "Wait" /\ task[t].future = "Ready" /\ ~ task[t].cancelled
  /\ Unregisters(t)
  /\ running' = t
  /\ task' = [task EXCEPT ![t] = [at |-> IF t \in Writers THEN "Pump" ELSE "Fill",
                                 future |-> "None", cancelled |-> FALSE]]
  /\ UNCHANGED <<wvars, rside, bounds>>

-----------------------------------------------------------------------------
\* StreamWriter

\* The call returns or raises, having submitted item number nth (0: none).
Returns(t, result, nth) ==
  /\ Ends(t)
  /\ log' = Append(log, [result |-> result, nth |-> nth])

guard_idle == opState = "None"

\* begin_tensor and begin_composite through submit: an item is taken up and pinned, or
\* refused for what it is, for the state of the core, or because another is in flight.
Begins(t, n) ==
  \/ /\ guard_idle
     /\ W!tensor(n) \/ W!composite(n)
     /\ pinned' = <<n>>
     /\ Goes(t, "Pump")
     /\ running' = t
     /\ UNCHANGED log
  \/ /\ guard_idle /\ W!retired = "None"
     /\ ~ (W!Valid[n] /\ Encodable(Desc[n.id]))
     /\ Returns(t, "Invalid", 0)
     /\ pinned' = <<>>
     /\ UNCHANGED wcore
  \/ /\ ~ guard_idle
     /\ Returns(t, "Busy", 0)
     /\ UNCHANGED <<wcore, pinned>>

\* Mutant: a torn core counts as poisoned while its item is still in flight.
poisoned_in_flight == W!retired # "None"

\* The core is asked only when no operation borrows it.
poisoned == opState = "None" /\ W!retired # "None"

\* write(item) up to its first pump.
write(t, n) ==
  /\ running = "loop" /\ task[t].at = "Idle"
  /\ Len(log) + Cardinality(Busy(Writers)) < MaxCalls
  /\ \/ /\ ~ wopen
        /\ Returns(t, "Finished", 0)
        /\ UNCHANGED <<wcore, pinned>>
     \/ /\ wopen /\ poisoned
        /\ Returns(t, "Poisoned", 0)
        /\ UNCHANGED <<wcore, pinned>>
     \/ /\ wopen /\ ~ poisoned
        /\ Begins(t, n)
  /\ UNCHANGED <<wopen, rside, callback, bounds>>

\* Mutant: an error leaves the operation where it is.
release_forgotten == UNCHANGED <<wcore, pinned>>

\* Mutant: the payload stays pinned.
release_keeps_pins == W!Drop /\ UNCHANGED pinned

\* The operation goes, then what it borrowed.
release == W!Drop /\ pinned' = <<>>

Pumping(t) == running = t /\ task[t].at = "Pump"

\* pump_inner: step, or a write(2) that takes as much as it likes of what fits.
PumpMoves(t) ==
  /\ Pumping(t)
  /\ W!step \/ (~ rgone /\ \E n \in 1 .. W!remaining : n <= Space /\ W!report_written(n))
  /\ UNCHANGED <<wopen, pinned, log, rside, loop>>

\* EAGAIN from a full pipe, or EINTR: BLOCKED, and the call waits for writability.
PumpBlocks(t) ==
  /\ Pumping(t) /\ W!remaining > 0 /\ ~ rgone
  /\ \/ Space = 0 /\ UNCHANGED hiccups
     \/ Space > 0 /\ hiccups < MaxHiccups /\ hiccups' = hiccups + 1
  /\ Suspends(t)
  /\ UNCHANGED <<wvars, rside, cancels>>

\* A write(2) that takes nothing.
PumpZero(t) ==
  /\ Pumping(t) /\ W!remaining > 0 /\ ~ rgone /\ hiccups < MaxHiccups
  /\ hiccups' = hiccups + 1
  /\ W!report_sink_closed
  /\ UNCHANGED <<wopen, pinned, log, rside, running, task, callback, cancels>>

\* ItemWritten; or an error, of the operation or of a write(2) on a pipe nobody reads.
PumpReturns(t) ==
  /\ Pumping(t)
  /\ release
  /\ \/ opState = "Done" /\ Returns(t, "OK", Len(submitted))
     \/ opState = "Failed" /\ Returns(t, "SinkClosed", Len(submitted))
     \/ W!remaining > 0 /\ rgone /\ Returns(t, "Io", Len(submitted))
  /\ UNCHANGED <<wopen, rside, callback, bounds>>

\* Mutant: the operation of a cancelled call stays.
abandon_forgotten == UNCHANGED <<wcore, pinned>>

abandon == release

\* CancelledError out of wait(): its callback goes, then abandon.
CancelledWrite(t) ==
  /\ running = "loop" /\ task[t].at = "Wait" /\ task[t].cancelled
  /\ Unregisters(t)
  /\ abandon
  /\ Returns(t, "Cancelled", Len(submitted))
  /\ UNCHANGED <<wopen, rside, bounds>>

\* finish(): the object lets go of the core.
finish ==
  /\ running = "loop" /\ wopen
  /\ wopen' = FALSE
  /\ UNCHANGED <<wcore, pinned, log, rside, loop>>

-----------------------------------------------------------------------------
\* StreamReader

Answers(t, result) == Ends(t) /\ rlast' = result

\* Mutant: the assembler belongs to the call.
Enters_with_new_assembler == astack' = <<>> /\ UNCHANGED <<rcore, aout, afailed, ropen, rlast>>

\* A call begins with the reader as the last one left it.
Enters == UNCHANGED <<rcore, acore, ropen, rlast>>

\* next_item().  The application stops at the end of the stream and at an error.
next_item(t) ==
  /\ running = "loop" /\ task[t].at = "Idle" /\ ropen
  /\ rlast \notin {"End", "Failed"}
  /\ \A u \in Busy(Readers) : task[u].cancelled /\ ~ AwaitCancelled
  /\ Goes(t, "Step")
  /\ running' = t
  /\ Enters
  /\ UNCHANGED <<wvars, callback, bounds>>

Stepping(t) == running = t /\ task[t].at = "Step"

\* step() on bytes the core has: READY and take_item return the item.
StepMoves(t) ==
  /\ Stepping(t)
  /\ \/ R!ReadStep /\ UNCHANGED <<acore, rlast, running, task>>
     \/ /\ R!take_tensor /\ A!push(ready[1])
        /\ \/ afailed' /\ Answers(t, "Failed")
           \/ Len(aout') > Len(aout) /\ Answers(t, "Item")
           \/ ~ afailed' /\ aout' = aout /\ UNCHANGED <<rlast, running, task>>
  /\ UNCHANGED <<wvars, ropen, callback, bounds>>

\* BLOCKED: wait for readability.
StepBlocks(t) ==
  /\ Stepping(t) /\ R!unfilled > 0
  /\ Suspends(t)
  /\ UNCHANGED <<wvars, rside, bounds>>

\* FINISHED, refused by the assembler inside a group; or the error of a failed core.
StepEnds(t) ==
  /\ Stepping(t)
  /\ \/ rstate = "Finished" /\ Answers(t, IF A!FinishClean THEN "End" ELSE "Failed")
     \/ rstate = "Failed" /\ Answers(t, "Failed")
  /\ UNCHANGED <<wvars, rcore, acore, ropen, callback, bounds>>

Filling(t) == running = t /\ task[t].at = "Fill"

\* fill(): a read(2), reported at once.
FillMoves(t) ==
  /\ Filling(t)
  /\ (\E n \in 1 .. R!unfilled : R!report_filled(n)) \/ R!ReportEof
  /\ Goes(t, "Step")
  /\ UNCHANGED <<wvars, acore, ropen, rlast, running, callback, bounds>>

\* Mutant: a read(2) with nothing to read is reported as zero bytes.
FillBlocks_reports_zero(t) ==
  /\ Filling(t) /\ R!unfilled > 0 /\ Available = 0 /\ ~ closed
  /\ rstate' = IF rstate = "Prefix" /\ filled = 0 THEN "Finished" ELSE "Failed"
  /\ Goes(t, "Step")
  /\ UNCHANGED <<wvars, pos, rindex, target, filled, rstaging, pending, dest, ready,
                 delivered, acore, ropen, rlast, running, callback, bounds>>

\* Mutant: fill() is called again without waiting.
FillBlocks_spins(t) ==
  /\ Filling(t) /\ R!unfilled > 0
  /\ (Available > 0 \/ closed) /\ hiccups < MaxHiccups /\ hiccups' = hiccups + 1
  /\ UNCHANGED <<wvars, rside, running, task, callback, cancels>>

\* EAGAIN or EINTR: nothing is reported, and the call waits again.
FillBlocks(t) ==
  /\ Filling(t) /\ R!unfilled > 0
  /\ \/ Available = 0 /\ ~ closed /\ UNCHANGED hiccups
     \/ (Available > 0 \/ closed) /\ hiccups < MaxHiccups /\ hiccups' = hiccups + 1
  /\ Suspends(t)
  /\ UNCHANGED <<wvars, rside, cancels>>

\* CancelledError out of wait(): nothing but the callback goes.
CancelledRead(t) ==
  /\ running = "loop" /\ task[t].at = "Wait" /\ task[t].cancelled
  /\ Unregisters(t)
  /\ Answers(t, "Cancelled")
  /\ UNCHANGED <<wvars, rcore, acore, ropen, bounds>>

\* close(): the object lets go of the core.
close ==
  /\ running = "loop" /\ ropen
  /\ ropen' = FALSE
  /\ UNCHANGED <<wvars, rcore, acore, rlast, loop>>

-----------------------------------------------------------------------------
Write(t) == PumpMoves(t) \/ PumpBlocks(t) \/ PumpReturns(t) \/ CancelledWrite(t)
Read(t)  == StepMoves(t) \/ StepBlocks(t) \/ StepEnds(t) \/ FillMoves(t) \/ FillBlocks(t)
              \/ CancelledRead(t)

Next ==
  \/ \E t \in Writers : (\E n \in Items : write(t, n)) \/ Write(t) \/ PumpZero(t)
  \/ \E t \in Readers : next_item(t) \/ Read(t)
  \/ \E t \in Tasks : Cancel(t) \/ Resume(t)
  \/ \E fd \in {"r", "w"} : Fire(fd)
  \/ finish \/ close

Spec == Init /\ [][Next]_vars

(***************************************************************************)
(* The loop runs every task that is ready and polls every descriptor.  The *)
(* two applications do their part: the reading one calls next_item() until *)
(* it has the end, an error, or closes, and the writing one finishes.      *)
(***************************************************************************)
Fairness ==
  /\ \A t \in Writers : WF_vars(Write(t))
  /\ \A t \in Readers : WF_vars(Read(t))
  /\ \A t \in Tasks : WF_vars(Resume(t))
  /\ \A fd \in {"r", "w"} : WF_vars(Fire(fd))
  /\ WF_vars(\E t \in Readers : next_item(t))
  /\ WF_vars(finish)
FairSpec == Spec /\ Fairness

-----------------------------------------------------------------------------
TypeOK ==
  /\ running \in Tasks \cup {"loop"}
  /\ task \in [Tasks -> [at : {"Idle", "Pump", "Step", "Fill", "Wait"},
                         future : {"None", "Pending", "Ready"}, cancelled : BOOLEAN]]
  /\ callback \in [{"r", "w"} -> Tasks \cup {"none"}]
  /\ \A t \in Tasks : running = t <=> task[t].at \in {"Pump", "Step", "Fill"}
  /\ Len(log) <= MaxCalls

\* An operation is in flight exactly while the one call of write() that submitted it is,
\* and its payload is pinned exactly as long.  So a second write() is refused as "already
\* being written" only while that is true, the operation a cancelled call abandons is its
\* own, and nothing the operation reads can be collected under it.
OneOperationPerWrite ==
  /\ opState = "None" <=> Busy(Writers) = {}
  /\ \A t, u \in Busy(Writers) : t = u
  /\ pinned = IF opState = "None" THEN <<>> ELSE <<Last(submitted)>>

\* A write() that returned put its whole item on the pipe, and between calls the writer
\* refuses further items exactly when an item is cut short on the wire or a write(2) took
\* nothing: a call cancelled before its first byte leaves the writer usable.  An item that
\* is merely in flight never passes for a torn one: a call raises "poisoned" only after
\* another has raised or was cancelled.
PoisonedForCause ==
  /\ \A k \in DOMAIN log : log[k].nth > 0 => (log[k].result = "OK" <=> log[k].nth \in done)
  /\ \A k \in DOMAIN log : log[k].result = "Poisoned" =>
        \E j \in 1 .. k - 1 : log[j].nth > 0 /\ log[j].result # "OK"
  /\ opState = "None" =>
        (W!retired # "None" <=> \/ wire # <<>> /\ Last(wire).item \notin done
                                \/ \E k \in DOMAIN log : log[k].result = "SinkClosed")

\* A suspended read has moved no byte it has not accounted for: whichever calls were
\* cancelled, the items that next_item() returns are the items written, in order; it
\* returns None only after the last of them, and fails only where the writer left a torn
\* item.
ReadsResume ==
  /\ IsPrefix(aout, P!Sent)
  /\ rlast = "End" => closed /\ aout = P!Sent /\ \A k \in DOMAIN P!Started : P!Started[k] \in done
  /\ rlast = "Failed" => closed /\ Last(wire).item \notin done

\* What awaiting and cancelling leave behind on the writing side.
AwaitsAreSafe == TypeOK /\ OneOperationPerWrite /\ PoisonedForCause

\* Every call ends: no task is left waiting for a callback that is not there, whatever is
\* cancelled, interrupted or woken for nothing.
EveryCallEnds == \A t \in Tasks : task[t].at # "Idle" ~> task[t].at = "Idle"
=============================================================================
