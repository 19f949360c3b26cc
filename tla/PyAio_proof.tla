----------------------------- MODULE PyAio_proof -----------------------------
(***************************************************************************)
(* The asyncio writer holds one operation for one call, and what the       *)
(* operation borrows stays pinned for as long; the reader resumes where it *)
(* was cancelled: proof, for any number of tasks, items, cancellations and *)
(* interruptions.                                                          *)
(***************************************************************************)
EXTENDS PyAio, FiniteSetTheorems, TLAPS

\* What the proof needs of the tasks: a state for each of them.
Places == {"Idle", "Pump", "Step", "Fill", "Wait"}
TaskType == task \in [Tasks -> [at : Places, future : {"None", "Pending", "Ready"},
                                cancelled : BOOLEAN]]

IInv == TaskType /\ OneOperationPerWrite

\* What a step may do to the writing side when no call of write() begins or ends: the same
\* calls are under way, and the operation goes on with the same item.
GoesOn ==
  /\ Busy(Writers)' = Busy(Writers)
  /\ opState' = "None" <=> opState = "None"
  /\ submitted' = submitted /\ pinned' = pinned

-----------------------------------------------------------------------------
LEMMA GoesOnSafe == ASSUME OneOperationPerWrite, GoesOn PROVE OneOperationPerWrite'
BY DEF OneOperationPerWrite, GoesOn, Last

\* A task set to a new state keeps the type.
LEMMA SetTask ==
  ASSUME TaskType, NEW t \in Tasks,
         NEW r \in [at : Places, future : {"None", "Pending", "Ready"}, cancelled : BOOLEAN],
         task' = [task EXCEPT ![t] = r]
  PROVE  TaskType' /\ task'[t] = r /\ \A u \in Tasks \ {t} : task'[u] = task[u]
BY DEF TaskType

\* A change to a reading task is none to the writing ones.
LEMMA ReaderMoves ==
  ASSUME NEW t \in Readers, \A u \in Tasks \ {t} : task'[u] = task[u]
  PROVE  Busy(Writers)' = Busy(Writers)
BY TasksAssumption DEF Busy, Tasks

\* A writing task that stays in its call.
LEMMA WriterStays ==
  ASSUME NEW t \in Writers, \A u \in Tasks \ {t} : task'[u] = task[u],
         task[t].at # "Idle", task'[t].at # "Idle"
  PROVE  Busy(Writers)' = Busy(Writers)
BY DEF Busy, Tasks

\* The only call of write() ends with its operation.
LEMMA CallEnds ==
  ASSUME OneOperationPerWrite, NEW t \in Writers, task[t].at # "Idle",
         \A u \in Tasks \ {t} : task'[u] = task[u], task'[t].at = "Idle",
         opState' = "None", pinned' = <<>>
  PROVE  OneOperationPerWrite'
<1>1. Busy(Writers) = {t}
  BY DEF OneOperationPerWrite, Busy
<1>2. Busy(Writers)' = {}
  BY <1>1 DEF Busy, Tasks
<1> QED
  BY <1>2 DEF OneOperationPerWrite

-----------------------------------------------------------------------------
LEMMA InitSafe == Init => IInv
<1> SUFFICES ASSUME Init PROVE IInv
  OBVIOUS
<1>1. TaskType
  BY DEF Init, TaskType, Idle, Places
<1>2. Busy(Writers) = {}
  BY DEF Init, Busy, Tasks, Idle
<1>3. opState = "None" /\ pinned = <<>>
  BY DEF Init, W!Init, W!NoOp
<1> QED
  BY <1>1, <1>2, <1>3 DEF IInv, OneOperationPerWrite

\* write(): a call is refused and leaves things as they are, or it is the only one.
LEMMA WriteSafe ==
  ASSUME IInv, NEW t \in Writers, NEW n \in Items, write(t, n) PROVE IInv'
<1> t \in Tasks
  BY DEF Tasks
<1> TaskType /\ OneOperationPerWrite /\ task[t].at = "Idle"
  BY DEF IInv, write
<1>1. ASSUME NEW result, Returns(t, result, 0), UNCHANGED <<opState, submitted>>,
             pinned' = pinned
      PROVE  IInv'
  <2>1. task' = [task EXCEPT ![t] = Idle] /\ Idle \in [at : Places,
             future : {"None", "Pending", "Ready"}, cancelled : BOOLEAN]
    BY <1>1 DEF Returns, Ends, Idle, Places
  <2>2. TaskType' /\ task'[t] = Idle /\ \A u \in Tasks \ {t} : task'[u] = task[u]
    BY <2>1, SetTask
  <2>3. Busy(Writers)' = Busy(Writers)
    BY <2>2 DEF Busy, Tasks, Idle
  <2> QED
    BY <1>1, <2>2, <2>3, GoesOnSafe DEF IInv, GoesOn
<1>2. CASE /\ opState = "None"
           /\ W!tensor(n) \/ W!composite(n)
           /\ pinned' = <<n>> /\ Goes(t, "Pump")
  <2>1. opState' = "Descriptor" /\ submitted' = Append(submitted, n)
    BY <1>2 DEF W!tensor, W!composite, W!BeginOp
  <2>2. task' = [task EXCEPT ![t].at = "Pump"]
    BY <1>2 DEF Goes
  <2>3. TaskType' /\ task'[t].at = "Pump" /\ \A u \in Tasks \ {t} : task'[u] = task[u]
    BY <2>2 DEF TaskType, Places
  <2>4. Busy(Writers) = {}
    BY <1>2 DEF OneOperationPerWrite
  <2>5. Busy(Writers)' = {t}
    BY <2>3, <2>4 DEF Busy, Tasks
  <2> QED
    BY <1>2, <2>1, <2>3, <2>5 DEF IInv, OneOperationPerWrite, Last
<1>3. opState = "None" => pinned = <<>>
  BY DEF OneOperationPerWrite
<1>4. CASE wopen /\ ~ poisoned
  <2> Begins(t, n)
    BY <1>4 DEF write
  <2> QED
    BY <1>1, <1>2, <1>3 DEF Begins, guard_idle, wcore
<1> QED
  BY <1>1, <1>4 DEF write, wcore

\* pump, in its several turns, and the end of a cancelled call.
LEMMA PumpSafe ==
  ASSUME IInv, NEW t \in Writers, Write(t) \/ PumpZero(t) PROVE IInv'
<1> t \in Tasks
  BY DEF Tasks
<1> TaskType /\ OneOperationPerWrite
  BY DEF IInv
<1>1. task[t].at # "Idle" => opState # "None"
  BY DEF OneOperationPerWrite, Busy
<1>2. CASE PumpMoves(t)
  <2>1. opState # "None"
    BY <1>1, <1>2 DEF PumpMoves, Pumping
  <2>2. opState' # "None" /\ submitted' = submitted
    BY <1>2, <2>1 DEF PumpMoves, W!step, W!StepPayload, W!StepNode, W!TakeMember, W!StepDone,
                      W!report_written
  <2>3. task' = task /\ pinned' = pinned
    BY <1>2 DEF PumpMoves, loop
  <2> QED
    BY <2>1, <2>2, <2>3, GoesOnSafe DEF IInv, GoesOn, TaskType, Busy
<1>3. CASE PumpBlocks(t)
  <2> DEFINE waits == [at |-> "Wait", future |-> "Pending", cancelled |-> FALSE]
  <2>1. task' = [task EXCEPT ![t] = waits] /\ task[t].at # "Idle"
    BY <1>3 DEF PumpBlocks, Suspends, Pumping
  <2>2. waits \in [at : Places, future : {"None", "Pending", "Ready"}, cancelled : BOOLEAN]
    BY DEF Places
  <2>3. TaskType' /\ task'[t] = waits /\ \A u \in Tasks \ {t} : task'[u] = task[u]
    BY <2>1, <2>2, SetTask
  <2>4. Busy(Writers)' = Busy(Writers)
    BY <2>1, <2>3, WriterStays
  <2> QED
    BY <1>3, <2>3, <2>4, GoesOnSafe DEF IInv, GoesOn, PumpBlocks, wvars, wcore
<1>4. CASE PumpReturns(t)
  <2>1. task[t].at # "Idle" /\ opState' = "None" /\ pinned' = <<>>
    BY <1>4 DEF PumpReturns, Pumping, release, W!Drop
  <2>2. task' = [task EXCEPT ![t] = Idle]
    BY <1>4 DEF PumpReturns, Returns, Ends
  <2>3. TaskType' /\ task'[t] = Idle /\ \A u \in Tasks \ {t} : task'[u] = task[u]
    BY <2>2, SetTask DEF Idle, Places
  <2> QED
    BY <2>1, <2>3, CallEnds DEF IInv, Idle
<1>5. CASE CancelledWrite(t)
  <2>1. task[t].at # "Idle" /\ opState' = "None" /\ pinned' = <<>>
    BY <1>5 DEF CancelledWrite, abandon, release, W!Drop
  <2>2. task' = [task EXCEPT ![t] = Idle]
    BY <1>5 DEF CancelledWrite, Returns, Ends
  <2>3. TaskType' /\ task'[t] = Idle /\ \A u \in Tasks \ {t} : task'[u] = task[u]
    BY <2>2, SetTask DEF Idle, Places
  <2> QED
    BY <2>1, <2>3, CallEnds DEF IInv, Idle
<1>6. CASE PumpZero(t)
  <2>1. opState # "None" /\ opState' # "None" /\ submitted' = submitted
    BY <1>6 DEF PumpZero, W!report_sink_closed
  <2>2. task' = task /\ pinned' = pinned
    BY <1>6 DEF PumpZero
  <2> QED
    BY <2>1, <2>2, GoesOnSafe DEF IInv, GoesOn, TaskType, Busy
<1> QED
  BY <1>2, <1>3, <1>4, <1>5, <1>6 DEF Write

\* A step that leaves the writer alone and moves one reading task.
LEMMA ReaderStepSafe ==
  ASSUME IInv, NEW t \in Readers, UNCHANGED wvars,
         NEW r \in [at : Places, future : {"None", "Pending", "Ready"}, cancelled : BOOLEAN],
         task' = task \/ task' = [task EXCEPT ![t] = r]
  PROVE  IInv'
<1> t \in Tasks
  BY DEF Tasks
<1> TaskType /\ OneOperationPerWrite
  BY DEF IInv
<1>1. opState' = opState /\ submitted' = submitted /\ pinned' = pinned
  BY DEF wvars, wcore
<1>2. CASE task' = task
  BY <1>1, <1>2, GoesOnSafe DEF IInv, GoesOn, TaskType, Busy
<1>3. CASE task' = [task EXCEPT ![t] = r]
  <2>1. TaskType' /\ \A u \in Tasks \ {t} : task'[u] = task[u]
    BY <1>3, SetTask
  <2>2. Busy(Writers)' = Busy(Writers)
    BY <2>1, ReaderMoves
  <2> QED
    BY <1>1, <2>1, <2>2, GoesOnSafe DEF IInv, GoesOn
<1> QED
  BY <1>2, <1>3

LEMMA ReadSafe == ASSUME IInv, NEW t \in Readers, next_item(t) \/ Read(t) PROVE IInv'
<1> DEFINE State == [at : Places, future : {"None", "Pending", "Ready"}, cancelled : BOOLEAN]
<1> t \in Tasks
  BY DEF Tasks
<1> task \in [Tasks -> State]
  BY DEF IInv, TaskType
<1>1. ASSUME NEW place \in Places, Goes(t, place)
      PROVE  \E r \in State : task' = [task EXCEPT ![t] = r]
  <2>1. task' = [task EXCEPT ![t] = [task[t] EXCEPT !.at = place]]
    BY <1>1 DEF Goes
  <2>2. [task[t] EXCEPT !.at = place] \in State
    OBVIOUS
  <2> QED
    BY <2>1, <2>2
<1>2. ASSUME Ends(t) \/ Suspends(t) PROVE \E r \in State : task' = [task EXCEPT ![t] = r]
  <2>1. Idle \in State
    BY DEF Idle, Places
  <2>2. [at |-> "Wait", future |-> "Pending", cancelled |-> FALSE] \in State
    BY DEF Places
  <2> QED
    BY <1>2, <2>1, <2>2 DEF Ends, Suspends
<1>3. UNCHANGED wvars
  BY DEF next_item, Read, StepMoves, StepBlocks, StepEnds, FillMoves, FillBlocks, CancelledRead
<1>4. \/ task' = task
      \/ \E r \in State : task' = [task EXCEPT ![t] = r]
  <2>1. {"Step", "Fill"} \subseteq Places
    BY DEF Places
  <2> QED
    BY <1>1, <1>2, <2>1 DEF next_item, Read, StepMoves, StepBlocks, StepEnds, FillMoves,
                            FillBlocks, CancelledRead, Answers
<1>5. Idle \in State
  BY DEF Idle, Places
<1> QED
  BY <1>3, <1>4, <1>5, ReaderStepSafe

\* The loop: a future resolves, a task is cancelled or goes on.
LEMMA LoopSafe ==
  ASSUME IInv, \/ \E t \in Tasks : Cancel(t) \/ Resume(t)
               \/ \E fd \in {"r", "w"} : Fire(fd)
               \/ finish \/ close
  PROVE  IInv'
<1> DEFINE State == [at : Places, future : {"None", "Pending", "Ready"}, cancelled : BOOLEAN]
<1> task \in [Tasks -> State] /\ OneOperationPerWrite
  BY DEF IInv, TaskType
<1>1. opState' = opState /\ submitted' = submitted /\ pinned' = pinned
  BY DEF Cancel, Resume, Fire, finish, close, wvars, wcore
<1>2. task' \in [Tasks -> State] /\ \A u \in Tasks : task'[u].at = "Idle" <=> task[u].at = "Idle"
  <2>1. CASE finish \/ close
    BY <2>1 DEF finish, close, loop
  <2>2. ASSUME NEW t \in Tasks, Cancel(t) PROVE <1>2
    <3>1. task' = [task EXCEPT ![t] = [task[t] EXCEPT !.cancelled = TRUE]]
      BY <2>2 DEF Cancel
    <3>2. [task[t] EXCEPT !.cancelled = TRUE] \in State
      OBVIOUS
    <3> QED
      BY <3>1, <3>2
  <2>3. ASSUME NEW t \in Tasks, Resume(t) PROVE <1>2
    <3> DEFINE r == [at |-> IF t \in Writers THEN "Pump" ELSE "Fill", future |-> "None",
                     cancelled |-> FALSE]
    <3>1. task' = [task EXCEPT ![t] = r]
      BY <2>3 DEF Resume
    <3>2. r \in State /\ r.at # "Idle" /\ task[t].at # "Idle"
      BY <2>3 DEF Resume, Places
    <3> QED
      BY <3>1, <3>2
  <2>4. ASSUME NEW fd \in {"r", "w"}, Fire(fd) PROVE <1>2
    <3> DEFINE t == callback[fd]
    <3>1. task' = [task EXCEPT ![t].future = "Ready"]
      BY <2>4 DEF Fire
    <3>2. CASE t \in Tasks
      <4>1. task' = [task EXCEPT ![t] = [task[t] EXCEPT !.future = "Ready"]]
        BY <3>1
      <4>2. [task[t] EXCEPT !.future = "Ready"] \in State
        BY <3>2
      <4> QED
        BY <3>2, <4>1, <4>2
    <3>3. CASE t \notin Tasks
      BY <3>1, <3>3
    <3> QED
      BY <3>2, <3>3
  <2> QED
    BY <2>1, <2>2, <2>3, <2>4
<1>3. Busy(Writers)' = Busy(Writers)
  BY <1>2 DEF Busy, Tasks
<1> QED
  BY <1>1, <1>2, <1>3, GoesOnSafe DEF IInv, GoesOn, TaskType

\* Every step preserves the inductive invariant.
LEMMA NextSafe == ASSUME IInv, [Next]_vars PROVE IInv'
<1>1. CASE UNCHANGED vars
  <2>1. task' = task /\ opState' = opState /\ submitted' = submitted /\ pinned' = pinned
    BY <1>1 DEF vars, wvars, wcore, loop
  <2> QED
    BY <2>1, GoesOnSafe DEF IInv, GoesOn, TaskType, Busy
<1>2. CASE Next
  BY <1>2, WriteSafe, PumpSafe, ReadSafe, LoopSafe DEF Next
<1> QED
  BY <1>1, <1>2

\* An operation of the asyncio writer is in flight exactly while the call of write() that
\* submitted it is, there is at most one, and the payload it reads through erased lifetimes
\* is pinned exactly as long: for any number of tasks, cancelled at any await.
THEOREM OperationsBelongToTheirCalls == Spec => []OneOperationPerWrite
<1>1. IInv => OneOperationPerWrite
  BY DEF IInv
<1> QED
  BY <1>1, InitSafe, NextSafe, PTL DEF Spec

-----------------------------------------------------------------------------
(***************************************************************************)
(* What the calls report: the write core under the loop, through the       *)
(* lemmas about a driver that always knows what its sink took.             *)
(***************************************************************************)

WP == INSTANCE StreamWrite_proof WITH MaxItems <- MaxCalls

Active == {"Pump", "Step", "Fill"}

\* The loop runs the one task that is not waiting, and a waiting writer has bytes to offer.
Loop ==
  /\ running \in Tasks \cup {"loop"}
  /\ callback \in [{"r", "w"} -> Tasks \cup {"none"}]
  /\ \A t \in Tasks : running = t <=> task[t].at \in Active
Waiting == \A t \in Writers : task[t].at = "Wait" => W!remaining > 0

\* The call under way is about the last submission, and those that ended about earlier ones.
Entry == [result : {"OK", "Io", "SinkClosed", "Cancelled", "Invalid", "Busy", "Finished",
                    "Poisoned"}, nth : Nat]
Calls ==
  /\ log \in Seq(Entry) /\ Len(log) <= MaxCalls
  /\ opState # "None" => Len(log) < MaxCalls
  /\ \A k \in DOMAIN log : /\ log[k].nth <= Len(submitted)
                           /\ opState # "None" => log[k].nth < Len(submitted)

\* What the results say, while a later call is under way too.
ToldOK == \A k \in DOMAIN log : log[k].nth > 0 => (log[k].result = "OK" <=> log[k].nth \in done)
ToldPoisoned ==
  \A k \in DOMAIN log : log[k].result = "Poisoned" =>
     \E j \in 1 .. k - 1 : log[j].nth > 0 /\ log[j].result # "OK"
ToldClosed ==
  \A k \in DOMAIN log : log[k].result = "SinkClosed" => opState = "None" /\ WP!retired # "None"
Cause ==
  opState = "None" =>
    /\ WP!retired # "None" => \E k \in DOMAIN log : log[k].nth > 0 /\ log[k].result # "OK"
    /\ unusable # "None" => \E k \in DOMAIN log : log[k].result = "SinkClosed"
FailedNotDone == opState = "Failed" => Len(submitted) \notin done
Told == ToldOK /\ ToldPoisoned /\ ToldClosed /\ Cause /\ FailedNotDone

AInv == IInv /\ WP!Driven /\ Loop /\ Waiting /\ Calls /\ Told

\* What the lemmas of StreamWrite_proof assume holds here.
LEMMA Instance ==
  /\ U64Max \in Nat /\ PrefixLen \in Nat \ {0}
  /\ MinDescriptorLen \in Nat /\ MinDescriptorLen > PrefixLen /\ CrossMachine \in BOOLEAN
  /\ \A id \in DOMAIN Desc :
       /\ Desc[id].len \in Nat
       /\ Desc[id].bufs \in Seq([size : Nat, synced : BOOLEAN, allocatable : BOOLEAN])
       /\ Desc[id].count \in Nat
  /\ \A n \in Nodes : /\ n.id \in WP!Ids /\ n.kind \in {"Tensor", "Composite"}
                      /\ n.slices \in Seq(Nat) /\ n.members \in Seq(Nodes)
  /\ \A S \in SUBSET Nodes :
       S # {} => \E n \in S : \A i \in DOMAIN n.members : n.members[i] \notin S
  /\ Items \subseteq Nodes /\ MaxCalls \in Nat
  /\ \A id \in WP!Ids : Desc[id].len > 0
BY U64MaxAssumption, PrefixLenAssumption, MinDescriptorLenAssumption, CrossMachineAssumption,
   DescAssumption, NodesAssumption, NodesAreTrees, ItemsAssumption, AioBoundsAssumption, EncodedLengthAssumption
   DEF Ids, WP!Ids

-----------------------------------------------------------------------------
\* The loop.

\* What the ways to move a task do to it.
LEMMA Moved ==
  ASSUME TaskType, NEW t \in Tasks
  PROVE  /\ \A place \in Places : Goes(t, place) =>
              task'[t].at = place /\ \A u \in Tasks \ {t} : task'[u] = task[u]
         /\ Ends(t) => /\ running' = "loop" /\ task'[t].at = "Idle"
                       /\ \A u \in Tasks \ {t} : task'[u] = task[u]
         /\ Suspends(t) => /\ running' = "loop" /\ task'[t].at = "Wait"
                           /\ \A u \in Tasks \ {t} : task'[u] = task[u]
BY DEF TaskType, Goes, Ends, Suspends, Idle

\* The running task goes on, stops, or one starts while none runs.
LEMMA OneRuns ==
  ASSUME Loop, NEW t \in Tasks, running \in {"loop", t},
         \A u \in Tasks \ {t} : task'[u] = task[u],
         \/ running' = t /\ task'[t].at \in Active
         \/ running' = "loop" /\ task'[t].at \notin Active,
         callback' \in [{"r", "w"} -> Tasks \cup {"none"}]
  PROVE  Loop'
<1>1. \A u \in Tasks \ {t} : running # u /\ running' # u /\ task'[u].at \notin Active
  BY TasksAssumption DEF Loop, Tasks
<1>2. running' = t <=> task'[t].at \in Active
  BY TasksAssumption DEF Tasks
<1> QED
  BY <1>1, <1>2 DEF Loop

LEMMA CallbackStays ==
  ASSUME Loop, NEW t \in Tasks,
         callback' = callback \/ Unregisters(t) \/ Suspends(t)
  PROVE  callback' \in [{"r", "w"} -> Tasks \cup {"none"}]
BY DEF Loop, Unregisters, Suspends, Fd

\* No step leaves two tasks running.
LEMMA LoopWriter ==
  ASSUME TaskType, Loop, NEW t \in Writers,
         (\E n \in Items : write(t, n)) \/ Write(t) \/ PumpZero(t)
  PROVE  Loop'
<1> t \in Tasks
  BY DEF Tasks
<1>1. ASSUME NEW n \in Items, write(t, n) PROVE Loop'
  <2>1. running = "loop" /\ callback' = callback
    BY <1>1 DEF write
  <2>2. Ends(t) \/ (Goes(t, "Pump") /\ running' = t)
    BY <1>1 DEF write, Begins, Returns
  <2> QED
    BY <2>1, <2>2, Moved, OneRuns, CallbackStays DEF Places, Active
<1>2. CASE PumpMoves(t) \/ PumpZero(t)
  BY <1>2 DEF PumpMoves, PumpZero, loop, Loop
<1>3. CASE PumpBlocks(t)
  BY <1>3, Moved, OneRuns, CallbackStays DEF PumpBlocks, Pumping, Active
<1>4. CASE PumpReturns(t)
  <2>1. running = t /\ Ends(t) /\ callback' = callback
    BY <1>4 DEF PumpReturns, Pumping, Returns
  <2> QED
    BY <2>1, Moved, OneRuns, CallbackStays DEF Active
<1>5. CASE CancelledWrite(t)
  <2>1. running = "loop" /\ Ends(t) /\ Unregisters(t)
    BY <1>5 DEF CancelledWrite, Returns
  <2> QED
    BY <2>1, Moved, OneRuns, CallbackStays DEF Active
<1> QED
  BY <1>1, <1>2, <1>3, <1>4, <1>5 DEF Write

LEMMA LoopReader ==
  ASSUME TaskType, Loop, NEW t \in Readers, next_item(t) \/ Read(t)
  PROVE  Loop'
<1> t \in Tasks
  BY DEF Tasks
<1>1. running \in {"loop", t}
  BY DEF next_item, Read, StepMoves, StepBlocks, StepEnds, FillMoves, FillBlocks, CancelledRead,
         Stepping, Filling
<1>2. \/ UNCHANGED <<running, task>>
      \/ Goes(t, "Step") /\ running' = t
      \/ Ends(t)
      \/ Suspends(t)
  BY DEF next_item, Read, StepMoves, StepBlocks, StepEnds, FillMoves, FillBlocks, CancelledRead,
         Stepping, Filling, Answers
<1>3. callback' = callback \/ Unregisters(t) \/ Suspends(t)
  BY DEF next_item, Read, StepMoves, StepBlocks, StepEnds, FillMoves, FillBlocks, CancelledRead
<1>4. callback' \in [{"r", "w"} -> Tasks \cup {"none"}]
  BY <1>3, CallbackStays
<1>5. CASE UNCHANGED <<running, task>>
  BY <1>4, <1>5 DEF Loop
<1> QED
  BY <1>1, <1>2, <1>4, <1>5, Moved, OneRuns DEF Places, Active

LEMMA LoopLoop ==
  ASSUME TaskType, Loop, \/ \E t \in Tasks : Cancel(t) \/ Resume(t)
                         \/ \E fd \in {"r", "w"} : Fire(fd)
                         \/ finish \/ close
  PROVE  Loop'
<1>1. ASSUME NEW t \in Tasks, Cancel(t) PROVE Loop'
  <2>1. \A u \in Tasks : task'[u].at = task[u].at
    BY <1>1 DEF Cancel, TaskType
  <2> QED
    BY <1>1, <2>1 DEF Cancel, Loop
<1>2. ASSUME NEW t \in Tasks, Resume(t) PROVE Loop'
  <2>1. \A u \in Tasks \ {t} : task'[u] = task[u]
    BY <1>2 DEF Resume, TaskType
  <2>2. task'[t].at \in Active
    BY <1>2 DEF Resume, TaskType, Active
  <2> QED
    BY <1>2, <2>1, <2>2, OneRuns, CallbackStays DEF Resume
<1>3. ASSUME NEW fd \in {"r", "w"}, Fire(fd) PROVE Loop'
  <2>1. callback[fd] \in Tasks
    BY <1>3 DEF Fire, Loop
  <2>2. \A u \in Tasks : task'[u].at = task[u].at
    BY <1>3, <2>1 DEF Fire, TaskType
  <2> QED
    BY <1>3, <2>2 DEF Fire, Loop
<1>4. CASE finish \/ close
  BY <1>4 DEF finish, close, loop, Loop
<1> QED
  BY <1>1, <1>2, <1>3, <1>4

-----------------------------------------------------------------------------
\* The core under the calls.

\* The call goes on, or none is under way: the core ends no operation, and nothing becomes
\* done but the last submission.
CoreGoesOn ==
  /\ WP!Driven'
  /\ UNCHANGED <<log, submitted>>
  /\ opState' = "None" <=> opState = "None"
  /\ opState = "None" => UNCHANGED <<unusable, torn, done>>
  /\ done' = done \/ done' = done \cup {Len(submitted)}
  /\ opState' = "Failed" => Len(submitted) \notin done'

\* Then what was told stays true.
LEMMA CoreGoesOnSafe == ASSUME Calls, Told, CoreGoesOn PROVE Calls' /\ Told'
<1>1. Calls'
  BY DEF Calls, CoreGoesOn
<1>2. ToldOK'
  <2> SUFFICES ASSUME NEW k \in DOMAIN log, log[k].nth > 0
               PROVE  log[k].result = "OK" <=> log[k].nth \in done'
    BY DEF ToldOK, CoreGoesOn
  <2>1. log[k].result = "OK" <=> log[k].nth \in done
    BY DEF Told, ToldOK
  <2>2. CASE opState = "None"
    BY <2>1, <2>2 DEF CoreGoesOn
  <2>3. CASE opState # "None"
    <3>1. log[k] \in Entry
      BY DEF Calls
    <3>2. log[k].nth \in Nat /\ log[k].nth < Len(submitted)
      BY <2>3, <3>1 DEF Entry, Calls
    <3>3. log[k].nth # Len(submitted)
      BY <3>2
    <3> QED
      BY <2>1, <3>3 DEF CoreGoesOn
  <2> QED
    BY <2>2, <2>3
<1>3. opState = "None" => WP!retired' = WP!retired /\ unusable' = unusable
  BY DEF CoreGoesOn, WP!retired
<1>4. ToldPoisoned' /\ ToldClosed' /\ Cause'
  BY <1>3 DEF Told, ToldPoisoned, ToldClosed, Cause, CoreGoesOn
<1> QED
  BY <1>1, <1>2, <1>4 DEF Told, FailedNotDone, CoreGoesOn

\* The core is left alone.
LEMMA CoreRests == ASSUME WP!Driven, Told, UNCHANGED <<wcore, log>> PROVE CoreGoesOn
<1>1. UNCHANGED WP!vars
  BY DEF wcore, WP!vars
<1>2. WP!Driven'
  BY <1>1, Instance, WP!DrivenStutter
<1> QED
  BY <1>2 DEF CoreGoesOn, wcore, Told, FailedNotDone

\* A turn of pump: a step, or a write(2) that takes some bytes.
LEMMA CoreSteps ==
  ASSUME WP!Driven, Told, W!step \/ (\E n \in 1 .. W!remaining : W!report_written(n)),
         UNCHANGED log
  PROVE  CoreGoesOn
<1>1. CASE W!step
  <2>1. WP!step
    BY <1>1 DEF W!step, WP!step, W!StepPayload, WP!StepPayload, W!StepNode, WP!StepNode,
       W!StepDone, WP!StepDone, W!SliceExhausted, WP!SliceExhausted, W!remaining, WP!remaining,
       W!CurrentSlice, WP!CurrentSlice, W!Offering, WP!Offering, W!LaterPayloads,
       WP!LaterPayloads, W!OpenFrames, WP!OpenFrames, W!TakeMember, WP!TakeMember, W!Advance,
       WP!Advance, W!Encodable, WP!Encodable, W!encode, WP!encode, W!payloads_of,
       WP!payloads_of, W!Payload, WP!Payload
  <2>2. /\ WP!Driven' /\ UNCHANGED submitted /\ opState # "None" /\ opState' # "None"
        /\ Len(submitted) \notin done
        /\ done' = done \/ (opState' = "Done" /\ done' = done \cup {Len(submitted)})
    BY <2>1, Instance, WP!DrivenStep
  <2> QED
    BY <2>2 DEF CoreGoesOn
<1>2. ASSUME NEW n \in 1 .. W!remaining, W!report_written(n) PROVE CoreGoesOn
  <2>1. n \in 1 .. WP!remaining /\ WP!report_written(n)
    BY <1>2 DEF W!report_written, WP!report_written, W!Taken, WP!Taken, W!output_src,
       WP!output_src, W!remaining, WP!remaining, W!CurrentSlice, WP!CurrentSlice, W!Offering,
       WP!Offering
  <2>2. WP!Driven' /\ UNCHANGED <<submitted, done, opState>> /\ opState # "None"
    BY <2>1, Instance, WP!DrivenWritten
  <2> QED
    BY <2>2 DEF CoreGoesOn, Told, FailedNotDone
<1> QED
  BY <1>1, <1>2

\* An item of which there is more to offer is not done.
LEMMA OfferingNotDone ==
  ASSUME WP!Driven, WP!Offering PROVE Len(submitted) \notin done /\ unusable = "None"
BY DEF WP!Driven, WP!IInv, WP!Bookkeeping

\* A write(2) that takes nothing.
LEMMA CoreCloses ==
  ASSUME WP!Driven, W!remaining > 0, W!report_sink_closed, UNCHANGED log PROVE CoreGoesOn
<1>1. WP!report_sink_closed
  BY DEF W!report_sink_closed, WP!report_sink_closed
<1>2. /\ WP!Driven' /\ UNCHANGED <<submitted, done>> /\ opState # "None" /\ opState' = "Failed"
  BY <1>1, Instance, WP!DrivenEnd
<1>3. WP!Offering
  BY DEF W!remaining, W!Offering, WP!Offering
<1> QED
  BY <1>2, <1>3, OfferingNotDone DEF CoreGoesOn

\* A submission that is accepted.
LEMMA CoreBegins ==
  ASSUME WP!Driven, NEW n \in Items, W!tensor(n) \/ W!composite(n)
  PROVE  /\ WP!Driven' /\ Len(submitted) \in Nat /\ Len(submitted') = Len(submitted) + 1
         /\ opState = "None" /\ opState' = "Descriptor" /\ UNCHANGED done
         /\ WP!retired = "None"
<1>1. WP!Begins(n)
  BY DEF W!tensor, W!composite, W!BeginOp, W!retired, WP!Begins, WP!retired, W!encode, WP!encode,
         W!payloads_of, WP!payloads_of, W!Payload, WP!Payload
<1>2. WP!Driven' /\ Len(submitted) \in Nat /\ Len(submitted') = Len(submitted) + 1
  BY <1>1, Instance, WP!DrivenSubmit
<1> QED
  BY <1>1, <1>2 DEF WP!Begins

\* The operation of a call that ends.
LEMMA CoreDrops ==
  ASSUME WP!Driven, W!Drop
  PROVE  /\ WP!Driven' /\ UNCHANGED <<submitted, done>> /\ opState # "None" /\ opState' = "None"
         /\ WP!retired' = WP!retired /\ unusable' = unusable
         /\ opState = "Done" => Len(submitted) \in done /\ WP!retired = "None"
         /\ opState = "Failed" => WP!retired # "None"
         /\ Len(submitted) \in Nat /\ Len(submitted) > 0
<1>1. WP!Drop
  BY DEF W!Drop, WP!Drop
<1>2. /\ WP!Driven' /\ UNCHANGED <<submitted, done>> /\ opState # "None" /\ opState' = "None"
      /\ WP!retired' = WP!retired /\ (opState = "Done" => Len(submitted) \in done)
  BY <1>1, Instance, WP!DrivenEnd
<1>3. Len(submitted) \in Nat /\ Len(submitted) > 0
  BY <1>2 DEF WP!Driven, WP!IInv, WP!TypeOK
<1> QED
  BY <1>1, <1>2, <1>3 DEF WP!Driven, WP!Drop

-----------------------------------------------------------------------------
\* The calls of write().

LEMMA LogGrows ==
  ASSUME log \in Seq(Entry), NEW e \in Entry, log' = Append(log, e)
  PROVE  /\ log' \in Seq(Entry) /\ Len(log) \in Nat /\ Len(log') = Len(log) + 1
         /\ DOMAIN log = 1 .. Len(log) /\ DOMAIN log' = 1 .. Len(log) + 1
         /\ \A k \in DOMAIN log : log'[k] = log[k]
         /\ log'[Len(log) + 1] = e
OBVIOUS

\* The calls under way are as many as there are operations.
LEMMA CallsUnderWay ==
  ASSUME OneOperationPerWrite
  PROVE  Cardinality(Busy(Writers)) = IF opState = "None" THEN 0 ELSE 1
<1>1. CASE opState = "None"
  <2>1. Busy(Writers) = {}
    BY <1>1 DEF OneOperationPerWrite
  <2> QED
    BY <1>1, <2>1, FS_EmptySet
<1>2. CASE opState # "None"
  <2>1. PICK t \in Busy(Writers) : TRUE
    BY <1>2 DEF OneOperationPerWrite
  <2>2. Busy(Writers) = {t}
    BY DEF OneOperationPerWrite
  <2> QED
    BY <1>2, <2>2, FS_Singleton
<1> QED
  BY <1>1, <1>2

\* A new last entry, when the operation of the call, if it had one, is no more.
LEMMA ToldGrows ==
  ASSUME Calls, Told, NEW e \in Entry, log' = Append(log, e), done' = done,
         e.nth > 0 => (e.result = "OK" <=> e.nth \in done),
         e.result = "Poisoned" => \E k \in DOMAIN log : log[k].nth > 0 /\ log[k].result # "OK"
  PROVE  ToldOK' /\ ToldPoisoned'
<1>1. /\ Len(log) \in Nat
      /\ DOMAIN log = 1 .. Len(log) /\ DOMAIN log' = 1 .. Len(log) + 1
      /\ \A k \in DOMAIN log : log'[k] = log[k]
      /\ log'[Len(log) + 1] = e
  BY LogGrows DEF Calls
<1>2. ToldOK'
  BY <1>1 DEF Told, ToldOK
<1>3. ASSUME NEW k \in DOMAIN log', log'[k].result = "Poisoned"
      PROVE  \E j \in 1 .. k - 1 : log'[j].nth > 0 /\ log'[j].result # "OK"
  <2>1. CASE k \in DOMAIN log
    <3>1. PICK j \in 1 .. k - 1 : log[j].nth > 0 /\ log[j].result # "OK"
      BY <1>1, <1>3, <2>1 DEF Told, ToldPoisoned
    <3>2. j \in DOMAIN log
      BY <1>1, <2>1
    <3> QED
      BY <1>1, <3>1, <3>2
  <2>2. CASE k = Len(log) + 1
    <3>1. PICK j \in DOMAIN log : log[j].nth > 0 /\ log[j].result # "OK"
      BY <1>1, <1>3, <2>2
    <3>2. j \in 1 .. k - 1
      BY <1>1, <2>2
    <3> QED
      BY <1>1, <3>1, <3>2
  <2> QED
    BY <1>1, <2>1, <2>2
<1> QED
  BY <1>2, <1>3 DEF ToldPoisoned

\* A call that submits nothing.
LEMMA RefuseStep ==
  ASSUME AInv, NEW t \in Writers, NEW result \in {"Invalid", "Busy", "Finished", "Poisoned"},
         Returns(t, result, 0), UNCHANGED wcore,
         Len(log) + Cardinality(Busy(Writers)) < MaxCalls,
         result = "Poisoned" => opState = "None" /\ WP!retired # "None"
  PROVE  WP!Driven' /\ Calls' /\ Told'
<1> DEFINE e == [result |-> result, nth |-> 0]
<1>1. e \in Entry /\ e.result = result /\ e.nth = 0 /\ log' = Append(log, e)
  BY DEF Entry, Returns
<1> HIDE DEF e
<1>2. /\ log' \in Seq(Entry) /\ Len(log) \in Nat /\ Len(log') = Len(log) + 1
      /\ DOMAIN log = 1 .. Len(log) /\ DOMAIN log' = 1 .. Len(log) + 1
      /\ \A k \in DOMAIN log : log'[k] = log[k]
      /\ log'[Len(log) + 1] = e
  BY <1>1, LogGrows DEF AInv, Calls
<1>3. UNCHANGED <<opState, unusable, torn, submitted, done>>
  BY DEF wcore
<1>4. WP!Driven'
  <2>1. UNCHANGED WP!vars
    BY DEF wcore, WP!vars
  <2> QED
    BY <2>1, Instance, WP!DrivenStutter DEF AInv
<1>5. Len(submitted) \in Nat /\ (opState # "None" => Len(submitted) > 0)
  BY DEF AInv, WP!Driven, WP!IInv, WP!TypeOK
<1>6. Calls'
  <2>1. Len(log') <= MaxCalls /\ (opState' # "None" => Len(log') < MaxCalls)
    BY <1>2, <1>3, CallsUnderWay, AioBoundsAssumption DEF AInv, IInv
  <2>2. \A k \in DOMAIN log' : /\ log'[k].nth <= Len(submitted')
                               /\ opState' # "None" => log'[k].nth < Len(submitted')
    BY <1>1, <1>2, <1>3, <1>5 DEF AInv, Calls
  <2> QED
    BY <1>2, <2>1, <2>2 DEF Calls
<1>7. ToldOK' /\ ToldPoisoned'
  <2>1. e.result = "Poisoned" => \E k \in DOMAIN log : log[k].nth > 0 /\ log[k].result # "OK"
    BY <1>1 DEF AInv, Told, Cause
  <2> QED
    BY <1>1, <1>3, <2>1, ToldGrows DEF AInv
<1>8. WP!retired' = WP!retired
  BY <1>3 DEF WP!retired
<1>9. ToldClosed' /\ Cause' /\ FailedNotDone'
  BY <1>1, <1>2, <1>3, <1>8 DEF AInv, Told, ToldClosed, Cause, FailedNotDone
<1> QED
  BY <1>4, <1>6, <1>7, <1>9 DEF Told

\* A submission: no call has found the sink closed.
LEMMA SubmitStep ==
  ASSUME AInv, NEW n \in Items, W!tensor(n) \/ W!composite(n), UNCHANGED log,
         Len(log) + Cardinality(Busy(Writers)) < MaxCalls
  PROVE  WP!Driven' /\ Calls' /\ Told'
<1>1. /\ WP!Driven' /\ Len(submitted) \in Nat /\ Len(submitted') = Len(submitted) + 1
      /\ opState = "None" /\ opState' = "Descriptor" /\ done' = done
      /\ WP!retired = "None"
  BY CoreBegins DEF AInv
<1>2. Len(log) \in Nat /\ \A k \in DOMAIN log : log[k].nth \in Nat
  <2>1. \A k \in DOMAIN log : log[k] \in Entry
    BY DEF AInv, Calls
  <2> QED
    BY <2>1 DEF AInv, Calls, Entry
<1>3. Len(log) < MaxCalls
  BY <1>1, <1>2, CallsUnderWay, AioBoundsAssumption DEF AInv, IInv
<1>4. Calls'
  BY <1>1, <1>2, <1>3 DEF AInv, Calls
<1>5. \A k \in DOMAIN log : log[k].result # "SinkClosed"
  BY <1>1 DEF AInv, Told, ToldClosed
<1> QED
  BY <1>1, <1>4, <1>5 DEF AInv, Told, ToldOK, ToldPoisoned, ToldClosed, Cause, FailedNotDone

\* The end of a call that submitted an item: its operation is done, failed, or was still
\* offering bytes.
LEMMA ReturnStep ==
  ASSUME AInv, NEW t \in Writers, release,
         \/ opState = "Done" /\ Returns(t, "OK", Len(submitted))
         \/ opState = "Failed" /\ Returns(t, "SinkClosed", Len(submitted))
         \/ /\ WP!Offering
            /\ Returns(t, "Io", Len(submitted)) \/ Returns(t, "Cancelled", Len(submitted))
  PROVE  WP!Driven' /\ Calls' /\ Told'
<1>1. /\ WP!Driven' /\ UNCHANGED <<submitted, done>> /\ opState # "None" /\ opState' = "None"
      /\ WP!retired' = WP!retired /\ unusable' = unusable
      /\ opState = "Done" => Len(submitted) \in done /\ WP!retired = "None"
      /\ opState = "Failed" => WP!retired # "None"
      /\ Len(submitted) \in Nat /\ Len(submitted) > 0
  BY CoreDrops DEF AInv, release
<1>2. PICK result \in {"OK", "SinkClosed", "Io", "Cancelled"} :
        /\ log' = Append(log, [result |-> result, nth |-> Len(submitted)])
        /\ result = "OK" <=> opState = "Done"
        /\ result = "SinkClosed" <=> opState = "Failed"
        /\ result \in {"Io", "Cancelled"} => WP!Offering
  BY DEF Returns, WP!Offering
<1> DEFINE e == [result |-> result, nth |-> Len(submitted)]
<1>3. e \in Entry /\ e.result = result /\ e.nth = Len(submitted) /\ log' = Append(log, e)
  BY <1>1, <1>2 DEF Entry
<1> HIDE DEF e
<1>4. /\ log' \in Seq(Entry) /\ Len(log) \in Nat /\ Len(log') = Len(log) + 1
      /\ DOMAIN log = 1 .. Len(log) /\ DOMAIN log' = 1 .. Len(log) + 1
      /\ \A k \in DOMAIN log : log'[k] = log[k]
      /\ log'[Len(log) + 1] = e
  BY <1>3, LogGrows DEF AInv, Calls
<1>5. Calls'
  <2>1. Len(log') <= MaxCalls
    BY <1>1, <1>4, AioBoundsAssumption DEF AInv, Calls
  <2>2. \A k \in DOMAIN log' : log'[k].nth <= Len(submitted')
    BY <1>1, <1>3, <1>4 DEF AInv, Calls
  <2> QED
    BY <1>1, <1>4, <2>1, <2>2 DEF Calls
<1>6. result = "OK" <=> Len(submitted) \in done
  <2>1. CASE opState = "Done"
    BY <1>1, <1>2, <2>1
  <2>2. CASE opState = "Failed"
    BY <1>1, <1>2, <2>2 DEF AInv, Told, FailedNotDone
  <2>3. CASE WP!Offering
    BY <1>2, <2>3, OfferingNotDone DEF AInv, WP!Offering
  <2> QED
    BY <2>1, <2>2, <2>3
<1>7. ToldOK' /\ ToldPoisoned'
  <2>1. e.result # "Poisoned"
    BY <1>2, <1>3
  <2> QED
    BY <1>1, <1>3, <1>6, <2>1, ToldGrows DEF AInv
<1>8. \A k \in DOMAIN log : log[k].result # "SinkClosed"
  BY <1>1 DEF AInv, Told, ToldClosed
<1>9. ToldClosed'
  BY <1>1, <1>2, <1>3, <1>4, <1>8 DEF ToldClosed
<1>10. WP!retired' # "None" => result # "OK"
  BY <1>1, <1>2
<1>11. unusable' # "None" => result = "SinkClosed"
  <2>1. CASE result = "OK"
    BY <1>1, <1>2, <2>1 DEF WP!retired
  <2>2. CASE WP!Offering
    BY <1>1, <2>2, OfferingNotDone DEF AInv
  <2> QED
    BY <1>2, <2>1, <2>2
<1>12. Cause'
  <2>1. Len(log) + 1 \in DOMAIN log'
    BY <1>4
  <2> QED
    BY <1>1, <1>3, <1>4, <1>10, <1>11, <2>1 DEF Cause
<1> QED
  BY <1>1, <1>5, <1>7, <1>9, <1>12 DEF Told, FailedNotDone

-----------------------------------------------------------------------------
\* Every step preserves the invariant.

LEMMA AInvInit == Init => AInv
<1> SUFFICES ASSUME Init PROVE AInv
  OBVIOUS
<1>1. WP!Init
  BY DEF Init, W!Init, WP!Init, W!NoOp, WP!NoOp
<1>2. WP!Driven
  BY <1>1, Instance, WP!DrivenInit
<1>3. opState = "None" /\ submitted = <<>> /\ unusable = "None" /\ torn = FALSE
  BY <1>1 DEF WP!Init, WP!NoOp
<1>4. log = <<>> /\ MaxCalls \in Nat
  BY AioBoundsAssumption DEF Init
<1>5. Calls
  BY <1>3, <1>4 DEF Calls
<1>6. Told
  BY <1>3, <1>4 DEF Told, ToldOK, ToldPoisoned, ToldClosed, Cause, FailedNotDone, WP!retired
<1>7. Loop /\ Waiting
  BY TasksAssumption DEF Init, Loop, Waiting, Idle, Active, Tasks
<1> QED
  BY <1>2, <1>5, <1>6, <1>7, InitSafe DEF AInv

\* A step that leaves the writer alone, and no writer waiting that was not.
LEMMA WriterRests ==
  ASSUME AInv, UNCHANGED <<wcore, log>>,
         \A t \in Writers : task'[t].at = "Wait" => task[t].at = "Wait" \/ W!remaining > 0
  PROVE  WP!Driven' /\ Waiting' /\ Calls' /\ Told'
<1>1. CoreGoesOn
  BY CoreRests DEF AInv
<1>2. Calls' /\ Told' /\ WP!Driven'
  BY <1>1, CoreGoesOnSafe DEF AInv, CoreGoesOn
<1>3. W!remaining' = W!remaining
  BY DEF wcore, W!remaining, W!Offering, W!CurrentSlice
<1> QED
  BY <1>2, <1>3 DEF AInv, Waiting

\* The writing side, for a step of a writer that is not a submission: no other writer is in a
\* call.
LEMMA OthersIdle ==
  ASSUME OneOperationPerWrite, NEW t \in Writers, task[t].at # "Idle", NEW u \in Writers \ {t}
  PROVE  task[u].at = "Idle"
BY DEF OneOperationPerWrite, Busy

LEMMA WriteStep ==
  ASSUME AInv, NEW t \in Writers, NEW n \in Items, write(t, n)
  PROVE  WP!Driven' /\ Waiting' /\ Calls' /\ Told'
<1> t \in Tasks /\ TaskType /\ OneOperationPerWrite
  BY DEF Tasks, AInv, IInv
<1>1. Len(log) + Cardinality(Busy(Writers)) < MaxCalls /\ task[t].at = "Idle"
  BY DEF write
<1>2. WP!retired = W!retired
  BY DEF WP!retired, W!retired
<1>3. ASSUME NEW result \in {"Invalid", "Busy", "Finished", "Poisoned"},
             Returns(t, result, 0), UNCHANGED wcore,
             result = "Poisoned" => opState = "None" /\ WP!retired # "None"
      PROVE  WP!Driven' /\ Waiting' /\ Calls' /\ Told'
  <2>1. WP!Driven' /\ Calls' /\ Told'
    BY <1>1, <1>3, RefuseStep
  <2>2. task'[t].at = "Idle" /\ \A u \in Tasks \ {t} : task'[u] = task[u]
    BY <1>3, Moved DEF Returns
  <2>3. Waiting'
    BY <1>3, <2>2 DEF AInv, Waiting, wcore, W!remaining, W!Offering, W!CurrentSlice, Tasks
  <2> QED
    BY <2>1, <2>3
<1>4. CASE (W!tensor(n) \/ W!composite(n)) /\ Goes(t, "Pump") /\ UNCHANGED log
  <2>1. WP!Driven' /\ Calls' /\ Told'
    BY <1>1, <1>4, SubmitStep
  <2>2. Busy(Writers) = {}
    BY <1>4 DEF W!tensor, W!composite, W!BeginOp, OneOperationPerWrite
  <2>3. task'[t].at = "Pump" /\ \A u \in Tasks \ {t} : task'[u] = task[u]
    BY <1>4, Moved DEF Places
  <2>4. Waiting'
    BY <2>2, <2>3 DEF Waiting, Busy, Tasks
  <2> QED
    BY <2>1, <2>4
<1> QED
  BY <1>2, <1>3, <1>4 DEF write, Begins, poisoned

LEMMA PumpStep ==
  ASSUME AInv, NEW t \in Writers, Write(t) \/ PumpZero(t)
  PROVE  WP!Driven' /\ Waiting' /\ Calls' /\ Told'
<1> t \in Tasks /\ TaskType /\ OneOperationPerWrite
  BY DEF Tasks, AInv, IInv
<1>1. W!remaining > 0 => WP!Offering
  BY DEF W!remaining, W!Offering, WP!Offering
<1>2. CASE PumpMoves(t) \/ PumpZero(t)
  <2>1. CoreGoesOn
    <3>1. UNCHANGED log
      BY <1>2 DEF PumpMoves, PumpZero
    <3>2. CASE PumpMoves(t)
      BY <3>1, <3>2, CoreSteps DEF PumpMoves, AInv
    <3>3. CASE PumpZero(t)
      BY <3>1, <3>3, CoreCloses DEF PumpZero, AInv
    <3> QED
      BY <1>2, <3>2, <3>3
  <2>2. task[t].at = "Pump" /\ task' = task
    BY <1>2 DEF PumpMoves, PumpZero, Pumping, loop
  <2>3. Waiting'
    BY <2>2, OthersIdle DEF Waiting
  <2> QED
    BY <2>1, <2>3, CoreGoesOnSafe DEF AInv, CoreGoesOn
<1>3. CASE PumpBlocks(t)
  <2>1. UNCHANGED <<wcore, log>> /\ W!remaining > 0
    BY <1>3 DEF PumpBlocks, wvars
  <2> QED
    BY <2>1, WriterRests
<1>4. CASE PumpReturns(t) \/ CancelledWrite(t)
  <2>1. task[t].at # "Idle" /\ Ends(t) /\ release
    BY <1>4 DEF PumpReturns, CancelledWrite, Pumping, Returns, abandon
  <2>2. task'[t].at = "Idle" /\ \A u \in Tasks \ {t} : task'[u] = task[u]
    BY <2>1, Moved
  <2>3. Waiting'
    BY <2>1, <2>2, OthersIdle DEF Waiting, Tasks
  <2>4. \/ opState = "Done" /\ Returns(t, "OK", Len(submitted))
        \/ opState = "Failed" /\ Returns(t, "SinkClosed", Len(submitted))
        \/ /\ WP!Offering
           /\ Returns(t, "Io", Len(submitted)) \/ Returns(t, "Cancelled", Len(submitted))
    BY <1>1, <1>4 DEF PumpReturns, CancelledWrite, AInv, Waiting
  <2> QED
    BY <2>1, <2>3, <2>4, ReturnStep
<1> QED
  BY <1>2, <1>3, <1>4 DEF Write

\* A step of a reader or of the loop leaves the calls of write() where they are.
LEMMA WritersStay ==
  ASSUME AInv, \/ \E t \in Readers : next_item(t) \/ Read(t)
               \/ \E t \in Tasks : Cancel(t) \/ Resume(t)
               \/ \E fd \in {"r", "w"} : Fire(fd)
               \/ finish \/ close
  PROVE  \A u \in Writers : /\ task'[u].at = "Idle" <=> task[u].at = "Idle"
                            /\ task'[u].at = "Wait" => task[u].at = "Wait"
<1> TaskType
  BY DEF AInv, IInv
<1>1. ASSUME NEW t \in Readers, next_item(t) \/ Read(t), NEW u \in Writers
      PROVE  task'[u] = task[u]
  <2>1. t \in Tasks /\ u \in Tasks \ {t}
    BY TasksAssumption DEF Tasks
  <2>2. task' = task \/ Goes(t, "Step") \/ Ends(t) \/ Suspends(t)
    BY <1>1 DEF next_item, Read, StepMoves, StepBlocks, StepEnds, FillMoves, FillBlocks,
                CancelledRead, Answers
  <2> QED
    BY <2>1, <2>2, Moved DEF Places
<1>2. ASSUME NEW t \in Tasks, Cancel(t) \/ Resume(t), NEW u \in Writers
      PROVE  /\ task'[u].at = "Idle" <=> task[u].at = "Idle"
             /\ task'[u].at = "Wait" => task[u].at = "Wait"
  BY <1>2 DEF Cancel, Resume, TaskType, Tasks
<1>3. ASSUME NEW fd \in {"r", "w"}, Fire(fd), NEW u \in Writers
      PROVE  task'[u].at = task[u].at
  <2>1. callback[fd] \in Tasks
    BY <1>3 DEF Fire, AInv, Loop
  <2> QED
    BY <1>3, <2>1 DEF Fire, TaskType, Tasks
<1>4. CASE finish \/ close
  BY <1>4 DEF finish, close, loop
<1> QED
  BY <1>1, <1>2, <1>3, <1>4

LEMMA OtherStep ==
  ASSUME AInv, \/ \E t \in Readers : next_item(t) \/ Read(t)
               \/ \E t \in Tasks : Cancel(t) \/ Resume(t)
               \/ \E fd \in {"r", "w"} : Fire(fd)
               \/ finish \/ close
  PROVE  WP!Driven' /\ Waiting' /\ Calls' /\ Told'
<1>1. UNCHANGED <<wcore, log>>
  BY DEF next_item, Read, StepMoves, StepBlocks, StepEnds, FillMoves, FillBlocks, CancelledRead,
         Cancel, Resume, Fire, finish, close, wvars
<1> QED
  BY <1>1, WritersStay, WriterRests

LEMMA AInvNext == ASSUME AInv, [Next]_vars PROVE AInv'
<1>1. IInv'
  BY NextSafe DEF AInv
<1>2. TaskType /\ Loop
  BY DEF AInv, IInv
<1>3. CASE UNCHANGED vars
  <2>1. UNCHANGED <<wcore, log, task, running, callback>>
    BY <1>3 DEF vars, wvars, loop
  <2>2. WP!Driven' /\ Waiting' /\ Calls' /\ Told'
    BY <2>1, WriterRests
  <2> QED
    BY <1>1, <1>2, <2>1, <2>2 DEF AInv, Loop
<1>4. CASE Next
  <2>1. Loop'
    BY <1>2, <1>4, LoopWriter, LoopReader, LoopLoop DEF Next
  <2>2. WP!Driven' /\ Waiting' /\ Calls' /\ Told'
    BY <1>4, WriteStep, PumpStep, OtherStep DEF Next
  <2> QED
    BY <1>1, <2>1, <2>2 DEF AInv
<1> QED
  BY <1>3, <1>4

\* For any number of tasks, cancelled at any await, and however the pipe takes the bytes: the
\* loop runs one task at a time, an operation is its call's, a write() that returned has put
\* the whole item on the pipe and one that raised has not, and the writer refuses further
\* items exactly when one is cut short on the wire or a write(2) took nothing; a call raises
\* "poisoned" only after another raised or was cancelled.
THEOREM AwaitedWritesAreHonest == Spec => []AwaitsAreSafe
<1>1. AInv => AwaitsAreSafe
  <2> SUFFICES ASSUME AInv PROVE AwaitsAreSafe
    OBVIOUS
  <2>1. TypeOK
    BY DEF AInv, IInv, Loop, Calls, TypeOK, TaskType, Places, Active
  <2>2. OneOperationPerWrite
    BY DEF AInv, IInv
  <2>3. ASSUME opState = "None"
        PROVE  W!retired # "None" <=> \/ wire # <<>> /\ Last(wire).item \notin done
                                      \/ \E k \in DOMAIN log : log[k].result = "SinkClosed"
    <3>1. WP!retired = W!retired
      BY DEF WP!retired, W!retired
    <3>2. WP!LastByte = Last(wire)
      BY DEF WP!LastByte, Last
    <3>3. WP!UsableMeansWhole /\ WP!TornMeansUnfinished
      BY DEF AInv, WP!Driven, WP!IInv
    <3>4. ASSUME W!retired # "None", \A k \in DOMAIN log : log[k].result # "SinkClosed"
          PROVE  wire # <<>> /\ Last(wire).item \notin done
      <4>1. unusable = "None"
        BY <2>3, <3>4 DEF AInv, Told, Cause
      <4>2. torn
        BY <3>4, <4>1 DEF W!retired
      <4> QED
        BY <3>2, <3>3, <4>2 DEF WP!TornMeansUnfinished
    <3>5. wire # <<>> /\ Last(wire).item \notin done => W!retired # "None"
      BY <2>3, <3>1, <3>2, <3>3 DEF WP!UsableMeansWhole
    <3>6. (\E k \in DOMAIN log : log[k].result = "SinkClosed") => W!retired # "None"
      BY <3>1 DEF AInv, Told, ToldClosed
    <3> QED
      BY <3>4, <3>5, <3>6
  <2>4. PoisonedForCause
    BY <2>3 DEF AInv, Told, ToldOK, ToldPoisoned, PoisonedForCause
  <2> QED
    BY <2>1, <2>2, <2>4 DEF AwaitsAreSafe
<1> QED
  BY <1>1, AInvInit, AInvNext, PTL DEF Spec

-----------------------------------------------------------------------------
\* The pipe between the two ends, without its event loop.
PP == INSTANCE StreamPipe_proof WITH MaxItems <- MaxCalls

\* What the lemmas of StreamPipe_proof assume holds here.
LEMMA PipeInstance ==
  /\ U64Max \in Nat /\ PrefixLen \in Nat \ {0}
  /\ MinDescriptorLen \in Nat /\ MinDescriptorLen > PrefixLen /\ CrossMachine \in BOOLEAN
  /\ \A id \in DOMAIN Desc :
       /\ Desc[id].len \in Nat
       /\ Desc[id].bufs \in Seq([size : Nat, synced : BOOLEAN, allocatable : BOOLEAN])
       /\ Desc[id].count \in Nat
  /\ \A n \in Nodes : /\ n.id \in PP!Ids /\ n.kind \in {"Tensor", "Composite"}
                      /\ n.slices \in Seq(Nat) /\ n.members \in Seq(Nodes)
  /\ \A S \in SUBSET Nodes :
       S # {} => \E n \in S : \A i \in DOMAIN n.members : n.members[i] \notin S
  /\ Items \subseteq Nodes /\ MaxCalls \in Nat
  /\ MaxDescriptorBytes \in Nat /\ MaxBufferBytes \in Nat /\ MaxDepth \in Nat
  /\ \A id \in PP!Ids : Desc[id].len > 0
BY ZenonT(30), U64MaxAssumption, PrefixLenAssumption, MinDescriptorLenAssumption, CrossMachineAssumption,
   DescAssumption, NodesAssumption, NodesAreTrees, ItemsAssumption, AioBoundsAssumption, LimitsAssumption,
   EncodedLengthAssumption
   DEF Ids, PP!Ids


-----------------------------------------------------------------------------
(***************************************************************************)
(* The two ends here are those of the pipe.                                *)
(***************************************************************************)
LEMMA SamePipe ==
  /\ P!NodesWithinLimits => PP!NodesWithinLimits
  /\ P!Sent = PP!Sent /\ P!Started = PP!Started
  /\ PP!wside = wcore /\ PP!rside = rcore /\ PP!aside = acore
BY DEF P!NodesWithinLimits, P!WithinLimits, P!Decodable, P!IsHead, P!Encodable, P!validate_against_shape, P!SatAdd,
       PP!NodesWithinLimits, PP!WithinLimits, PP!Decodable, PP!IsHead, PP!Encodable,
       PP!validate_against_shape, PP!SatAdd,
       P!Sent, P!Started, P!ItemOf, P!payloads_of, P!Payload,
       PP!Sent, PP!Started, PP!ItemOf, PP!payloads_of, PP!Payload,
       PP!wside, PP!rside, PP!aside, wcore, rcore, acore

LEMMA SameLevels ==
  \A h, ms : W!LevelAccepted(h, ms) = PP!W!LevelAccepted(h, ms)
BY DEF W!SatAdd, PP!W!SatAdd, W!DYNAMIC, PP!W!DYNAMIC, W!has_dynamic, PP!W!has_dynamic,
       W!HeadAccepted, PP!W!HeadAccepted, W!NewValidator, PP!W!NewValidator,
       W!validate_against_shape, PP!W!validate_against_shape, W!shard_box, PP!W!shard_box,
       W!check_member_type, PP!W!check_member_type, W!check_overlay_member_role,
       PP!W!check_overlay_member_role, W!reject_composite_member_flag,
       PP!W!reject_composite_member_flag, W!MemberAccepted, PP!W!MemberAccepted, W!push_member,
       PP!W!push_member, W!CheckedAdd, PP!W!CheckedAdd, W!CheckedMul, PP!W!CheckedMul, W!Overflow,
       PP!W!Overflow, W!Volume, PP!W!Volume, W!Covered, PP!W!Covered, W!boxes_overlap,
       PP!W!boxes_overlap, W!validate_partition_coverage, PP!W!validate_partition_coverage,
       W!FinishAccepted, PP!W!FinishAccepted, W!LevelAccepted, PP!W!LevelAccepted

LEMMA SameWriter ==
  /\ W!Init => PP!W!Init
  /\ \A n : (W!tensor(n) => PP!W!tensor(n)) /\ (W!composite(n) => PP!W!composite(n))
  /\ W!step => PP!W!step
  /\ W!remaining = PP!W!remaining
  /\ \A n : W!report_written(n) => PP!W!report_written(n)
  /\ W!report_sink_closed => PP!W!report_sink_closed
  /\ W!Drop => PP!W!Drop
<1>1. W!Valid = PP!W!Valid
  BY ZenonT(30), SameLevels DEF W!Valid, PP!W!Valid, W!validate_tensor, PP!W!validate_tensor
<1> QED
  BY ZenonT(30), <1>1
     DEF W!Init, PP!W!Init, W!NoOp, PP!W!NoOp, W!tensor, PP!W!tensor, W!composite, PP!W!composite,
         W!BeginOp, PP!W!BeginOp, W!Encodable, PP!W!Encodable, W!encode, PP!W!encode,
         W!payloads_of, PP!W!payloads_of, W!Payload, PP!W!Payload, W!retired, PP!W!retired, W!step,
         PP!W!step, W!StepPayload, PP!W!StepPayload, W!StepNode, PP!W!StepNode, W!StepDone,
         PP!W!StepDone, W!SliceExhausted, PP!W!SliceExhausted, W!Offering, PP!W!Offering,
         W!remaining, PP!W!remaining, W!CurrentSlice, PP!W!CurrentSlice, W!LaterPayloads,
         PP!W!LaterPayloads, W!OpenFrames, PP!W!OpenFrames, W!Advance, PP!W!Advance, W!TakeMember,
         PP!W!TakeMember, W!Taken, PP!W!Taken, W!output_src, PP!W!output_src, W!report_written,
         PP!W!report_written, W!report_sink_closed, PP!W!report_sink_closed, W!Drop, PP!W!Drop

LEMMA SameReader ==
  /\ R!ReadInit => PP!R!ReadInit
  /\ R!ReadStep => PP!R!ReadStep
  /\ R!unfilled = PP!R!unfilled
  /\ \A n : R!report_filled(n) => PP!R!report_filled(n)
  /\ R!ReportEof => PP!R!ReportEof
  /\ R!take_tensor => PP!R!take_tensor
BY ZenonT(30)
   DEF Bytes, PP!Bytes, R!ReadInit, PP!R!ReadInit, R!ReadStep, PP!R!ReadStep, R!StepPrefix, PP!R!StepPrefix,
       R!StepDescriptor, PP!R!StepDescriptor, R!StepBuffer, PP!R!StepBuffer, R!Filling,
       PP!R!Filling, R!unfilled, PP!R!unfilled, R!Aligned, PP!R!Aligned, R!descriptor_length,
       PP!R!descriptor_length, R!Refused, PP!R!Refused, R!Stops, PP!R!Stops, R!PassedTo,
       PP!R!PassedTo, R!BeginBuffers, PP!R!BeginBuffers, R!Decodable, PP!R!Decodable, R!IsHead,
       PP!R!IsHead, R!Encodable, PP!R!Encodable, R!validate_against_shape,
       PP!R!validate_against_shape, R!SatAdd, PP!R!SatAdd, R!report_filled, PP!R!report_filled,
       R!ReportEof, PP!R!ReportEof, R!take_tensor, PP!R!take_tensor

LEMMA SameAssembler ==
  /\ A!AssembleInit => PP!A!AssembleInit
  /\ \A t : A!push(t) => PP!A!push(t)
  /\ A!FinishClean <=> astack = <<>>
<1>1. /\ \A v, d : /\ A!MemberAccepted(v, d) = PP!A!MemberAccepted(v, d)
                   /\ A!push_member(v, d) = PP!A!push_member(v, d)
      /\ \A v : A!FinishAccepted(v) = PP!A!FinishAccepted(v)
      /\ \A d : A!HeadAccepted(d) = PP!A!HeadAccepted(d) /\ A!NewValidator(d) = PP!A!NewValidator(d)
  BY DEF A!SatAdd, PP!A!SatAdd, A!DYNAMIC, PP!A!DYNAMIC, A!has_dynamic, PP!A!has_dynamic,
         A!HeadAccepted, PP!A!HeadAccepted, A!NewValidator, PP!A!NewValidator,
         A!validate_against_shape, PP!A!validate_against_shape, A!shard_box, PP!A!shard_box,
         A!check_member_type, PP!A!check_member_type, A!check_overlay_member_role,
         PP!A!check_overlay_member_role, A!reject_composite_member_flag,
         PP!A!reject_composite_member_flag, A!MemberAccepted, PP!A!MemberAccepted, A!push_member,
         PP!A!push_member, A!CheckedAdd, PP!A!CheckedAdd, A!CheckedMul, PP!A!CheckedMul,
         A!Overflow, PP!A!Overflow, A!Volume, PP!A!Volume, A!Covered, PP!A!Covered,
         A!boxes_overlap, PP!A!boxes_overlap, A!validate_partition_coverage,
         PP!A!validate_partition_coverage, A!FinishAccepted, PP!A!FinishAccepted
<1>2. A!depth = PP!A!depth /\ \A t : A!IsHead(t) = PP!A!IsHead(t) /\ A!TensorItem(t) = PP!A!TensorItem(t)
  BY DEF A!depth, PP!A!depth, A!IsHead, PP!A!IsHead, A!TensorItem, PP!A!TensorItem
<1>3. \A k : A!Fills(k) = PP!A!Fills(k) /\ \A t : A!OfferedTo(k, t) = PP!A!OfferedTo(k, t)
  BY <1>2 DEF A!Fills, PP!A!Fills, A!OfferedTo, PP!A!OfferedTo
<1>4. A!StopLevel = PP!A!StopLevel
  BY DEF A!StopLevel, PP!A!StopLevel, A!Fills, PP!A!Fills, A!depth, PP!A!depth
<1>5. \A t : A!BadLevels(t) = PP!A!BadLevels(t)
  <2> SUFFICES ASSUME NEW t PROVE A!BadLevels(t) = PP!A!BadLevels(t)
    OBVIOUS
  <2> DEFINE B(k) == /\ k >= A!StopLevel
                     /\ \/ ~ A!MemberAccepted(astack[k].v, A!OfferedTo(k, t))
                        \/ A!Fills(k) /\ ~ A!FinishAccepted(A!push_member(astack[k].v, A!OfferedTo(k, t)))
             C(k) == /\ k >= PP!A!StopLevel
                     /\ \/ ~ PP!A!MemberAccepted(astack[k].v, PP!A!OfferedTo(k, t))
                        \/ /\ PP!A!Fills(k)
                           /\ ~ PP!A!FinishAccepted(PP!A!push_member(astack[k].v, PP!A!OfferedTo(k, t)))
  <2>1. \A k : B(k) <=> C(k)
    BY <1>1, <1>3, <1>4
  <2>2. A!BadLevels(t) = {k \in 1 .. A!depth : B(k)} /\ PP!A!BadLevels(t) = {k \in 1 .. PP!A!depth : C(k)}
    BY DEF A!BadLevels, PP!A!BadLevels
  <2> HIDE DEF B, C
  <2> QED
    BY <1>2, <2>1, <2>2
<1>6. \A t : A!Carried(t) = PP!A!Carried(t)
  BY DEF A!Carried, PP!A!Carried, A!depth, PP!A!depth, A!TensorItem, PP!A!TensorItem
<1>7. \A t : A!PushHead(t) => PP!A!PushHead(t)
  BY <1>1, <1>2 DEF A!PushHead, PP!A!PushHead
<1>8. \A t : A!PushTensor(t) => PP!A!PushTensor(t)
  BY <1>1, <1>2, <1>3, <1>4, <1>5, <1>6, ZenonT(30) DEF A!PushTensor, PP!A!PushTensor
<1> QED
  BY <1>7, <1>8 DEF A!push, PP!A!push, A!AssembleInit, PP!A!AssembleInit, A!FinishClean

-----------------------------------------------------------------------------
(***************************************************************************)
(* What the reading calls report: the invariant of the pipe holds here, as *)
(* a call of write() ends only with its item done, with a write(2) that    *)
(* took nothing, or with bytes still to offer.                             *)
(***************************************************************************)
CleanlyEnded == rstate = "Finished" /\ astack = <<>>

\* The last answer is about the end of the stream.
Heard ==
  /\ rlast = "End" => CleanlyEnded
  /\ rlast = "Failed" => rstate \in {"Finished", "Failed"} /\ ~ CleanlyEnded

RInv == AInv /\ PP!PInv /\ PP!Fed /\ Heard

LEMMA ClosedStays ==
  ASSUME wopen' = wopen, \A u \in Writers : task'[u].at = "Idle" <=> task[u].at = "Idle"
  PROVE  closed' = closed
<1>1. Busy(Writers)' = Busy(Writers)
  BY DEF Busy
<1> QED
  BY <1>1 DEF closed

\* Steps that leave the pipe alone.
LEMMA PipeRests ==
  ASSUME RInv, UNCHANGED <<wcore, rcore, acore>>, closed' = closed
  PROVE  PP!PInv' /\ PP!Fed' /\ (rlast' = rlast => Heard')
<1>1. UNCHANGED PP!wside /\ UNCHANGED PP!rside /\ UNCHANGED PP!aside
  BY DEF PP!wside, PP!rside, PP!aside, wcore, rcore, acore
<1>2. UNCHANGED PP!vars
  BY <1>1 DEF PP!vars
<1>3. PP!PInv'
  BY ZenonT(30), <1>2, PipeInstance, PP!PipeStutter DEF RInv
<1>4. PP!Fed'
  BY ZenonT(30), <1>1, PipeInstance, PP!FedStays DEF RInv
<1>5. rlast' = rlast => Heard'
  BY DEF RInv, Heard, CleanlyEnded, rcore, acore
<1> QED
  BY <1>3, <1>4, <1>5

\* Steps of the writing side.
LEMMA PipeTakes ==
  ASSUME PP!NodesWithinLimits, RInv, ~ closed, PP!DrivenStep \/ UNCHANGED wcore, UNCHANGED <<rcore, acore, rlast>>
  PROVE  PP!PInv' /\ PP!Fed' /\ Heard'
<1>1. UNCHANGED PP!rside /\ UNCHANGED PP!aside /\ (UNCHANGED wcore => UNCHANGED PP!wside)
  BY DEF PP!wside, PP!rside, PP!aside, wcore, rcore, acore
<1>2. PP!DrivenStep => PP!W!Next
  BY DEF PP!DrivenStep, PP!W!Next
<1>3. closed' \in BOOLEAN
  BY DEF closed
<1>4. PP!PInv'
  BY ZenonT(30), <1>1, <1>2, <1>3, PipeInstance, PP!WriterActs DEF RInv
<1>5. PP!Fed'
  <2>1. PP!WInv /\ PP!Fed
    BY DEF RInv, PP!PInv
  <2> QED
    BY ZenonT(30), <1>1, <2>1, PipeInstance, PP!FedNext, PP!FedStays
<1>6. Heard'
  BY DEF RInv, Heard, CleanlyEnded, rcore, acore
<1> QED
  BY <1>4, <1>5, <1>6

LEMMA WriterKeepsPipe ==
  ASSUME PP!NodesWithinLimits, RInv, NEW t \in Writers,
         (\E n \in Items : write(t, n)) \/ Write(t) \/ PumpZero(t)
  PROVE  PP!PInv' /\ PP!Fed' /\ Heard'
<1> t \in Tasks /\ TaskType /\ OneOperationPerWrite /\ Waiting
  BY DEF Tasks, RInv, AInv, IInv
<1>1. UNCHANGED <<rcore, acore, rlast, wopen>>
  BY DEF write, Write, PumpMoves, PumpBlocks, PumpReturns, CancelledWrite, PumpZero, wvars, rside
<1>2. ASSUME NEW n \in Items, write(t, n), wopen PROVE PP!PInv' /\ PP!Fed' /\ Heard'
  <2>1. W!tensor(n) \/ W!composite(n) \/ UNCHANGED wcore
    BY <1>2 DEF write, Begins
  <2>2. PP!DrivenStep \/ UNCHANGED wcore
    BY <2>1, SameWriter DEF PP!DrivenStep
  <2>3. ~ closed
    BY <1>2 DEF closed
  <2> QED
    BY <1>1, <2>2, <2>3, PipeTakes
<1>3. ASSUME NEW n \in Items, write(t, n), ~ wopen PROVE PP!PInv' /\ PP!Fed' /\ Heard'
  <2>1. Ends(t) /\ UNCHANGED wcore /\ task[t].at = "Idle"
    BY <1>3 DEF write, Returns
  <2>2. task'[t].at = "Idle" /\ \A u \in Tasks \ {t} : task'[u] = task[u]
    BY <2>1, Moved
  <2>3. closed' = closed
    <3>1. \A u \in Writers : task'[u].at = "Idle" <=> task[u].at = "Idle"
      BY <2>1, <2>2 DEF Tasks
    <3> QED
      BY <1>1, <3>1, ClosedStays
  <2> QED
    BY <1>1, <2>1, <2>3, PipeRests
<1>4. CASE Write(t) \/ PumpZero(t)
  <2>1. task[t].at # "Idle"
    BY <1>4 DEF Write, PumpMoves, PumpBlocks, PumpReturns, CancelledWrite, PumpZero, Pumping
  <2>2. ~ closed
    BY <2>1 DEF closed, Busy
  <2>3. \/ W!step \/ \E n \in 1 .. W!remaining : W!report_written(n)
        \/ W!remaining > 0 /\ W!report_sink_closed
        \/ (opState \in {"Done", "Failed"} \/ W!remaining > 0) /\ W!Drop
        \/ UNCHANGED wcore
    BY <1>4 DEF Write, PumpMoves, PumpBlocks, PumpReturns, CancelledWrite, PumpZero, Waiting, wvars,
                abandon, release
  <2>4. PP!DrivenStep \/ UNCHANGED wcore
    BY ZenonT(30), <2>3, SameWriter DEF PP!DrivenStep
  <2> QED
    BY <1>1, <2>2, <2>4, PipeTakes
<1> QED
  BY <1>2, <1>3, <1>4

\* A turn of the reading side.
LEMMA ReaderKeepsPipe ==
  ASSUME PP!NodesWithinLimits, RInv, NEW t \in Readers, next_item(t) \/ Read(t)
  PROVE  PP!PInv' /\ PP!Fed' /\ Heard'
<1>1. UNCHANGED wcore /\ wopen' = wopen
  BY DEF next_item, Read, StepMoves, StepBlocks, StepEnds, FillMoves, FillBlocks, CancelledRead, wvars
<1>2. closed' = closed
  <2>1. \A u \in Writers : task'[u].at = "Idle" <=> task[u].at = "Idle"
    BY WritersStay DEF RInv
  <2> QED
    BY <1>1, <2>1, ClosedStays
<1>3. UNCHANGED PP!wside /\ PP!Fed' /\ ~ afailed
  <2>1. UNCHANGED PP!wside /\ ~ afailed
    BY <1>1 DEF RInv, PP!PInv, PP!LInv, PP!wside, wcore
  <2> QED
    BY ZenonT(30), <2>1, PipeInstance, PP!FedStays DEF RInv
<1>4. ASSUME R!ReadStep \/ (\E n \in 1 .. R!unfilled : R!report_filled(n)) \/ R!ReportEof,
             UNCHANGED <<acore, rlast>>
      PROVE  PP!PInv' /\ PP!Fed' /\ Heard'
  <2>1. PP!R!ReadStep \/ (\E n \in 1 .. PP!R!unfilled : PP!R!report_filled(n)) \/ PP!R!ReportEof
    BY ZenonT(30), <1>4, SameReader
  <2>2. PP!Read
    BY <1>2, <1>3, <1>4, <2>1 DEF PP!Read, PP!aside, acore
  <2>3. PP!PInv' /\ rstate \in {"Prefix", "Descriptor", "Buffer"}
    BY ZenonT(30), <2>2, PipeInstance, PP!ReadKeeps DEF RInv
  <2>4. Heard'
    BY <1>4, <2>3 DEF RInv, Heard, CleanlyEnded
  <2> QED
    BY <1>3, <2>3, <2>4
<1>5. ASSUME R!take_tensor, A!push(ready[1]),
             \/ afailed' /\ Answers(t, "Failed")
             \/ Answers(t, "Item")
             \/ UNCHANGED rlast
      PROVE  PP!PInv' /\ PP!Fed' /\ Heard'
  <2>1. PP!TakeAndPush
    BY <1>2, <1>3, <1>5, SameReader, SameAssembler DEF PP!TakeAndPush
  <2>2. PP!PInv' /\ UNCHANGED afailed /\ rstate = "TensorReady"
    BY ZenonT(30), <2>1, PipeInstance, PP!TakeKeeps DEF RInv
  <2>3. Heard'
    BY <1>3, <1>5, <2>2 DEF RInv, Heard, CleanlyEnded, Answers
  <2> QED
    BY <1>3, <2>2, <2>3
<1>6. ASSUME UNCHANGED <<rcore, acore>>,
             \/ UNCHANGED rlast
             \/ rlast' = "Cancelled"
             \/ rstate = "Finished" /\ rlast' = (IF A!FinishClean THEN "End" ELSE "Failed")
             \/ rstate = "Failed" /\ rlast' = "Failed"
      PROVE  PP!PInv' /\ PP!Fed' /\ Heard'
  <2>1. PP!PInv' /\ PP!Fed' /\ (rlast' = rlast => Heard')
    BY <1>1, <1>2, <1>6, PipeRests
  <2>2. rstate' = rstate /\ astack' = astack
    BY <1>6 DEF rcore, acore
  <2>3. rlast' # rlast => Heard'
    BY <1>6, <2>2, SameAssembler DEF Heard, CleanlyEnded
  <2> QED
    BY <2>1, <2>3
<1>7. CASE next_item(t)
  BY <1>6, <1>7 DEF next_item, Enters
<1>8. CASE StepMoves(t)
  BY <1>4, <1>5, <1>8 DEF StepMoves
<1>9. CASE StepBlocks(t) \/ FillBlocks(t) \/ CancelledRead(t)
  BY <1>6, <1>9 DEF StepBlocks, FillBlocks, CancelledRead, Answers, rside
<1>10. CASE StepEnds(t)
  BY <1>6, <1>10 DEF StepEnds, Answers
<1>11. CASE FillMoves(t)
  BY <1>4, <1>11 DEF FillMoves
<1> QED
  BY <1>7, <1>8, <1>9, <1>10, <1>11 DEF Read

LEMMA LoopKeepsPipe ==
  ASSUME PP!NodesWithinLimits, RInv, \/ \E t \in Tasks : Cancel(t) \/ Resume(t)
                                     \/ \E fd \in {"r", "w"} : Fire(fd)
                                     \/ finish \/ close
  PROVE  PP!PInv' /\ PP!Fed' /\ Heard'
<1>1. UNCHANGED <<wcore, rcore, acore, rlast>>
  BY DEF Cancel, Resume, Fire, finish, close, wvars, rside
<1>2. CASE finish
  <2>1. ~ closed
    BY <1>2 DEF finish, closed
  <2> QED
    BY <1>1, <2>1, PipeTakes
<1>3. CASE ~ finish
  <2>1. wopen' = wopen
    BY <1>3 DEF Cancel, Resume, Fire, close, wvars
  <2>2. \A u \in Writers : task'[u].at = "Idle" <=> task[u].at = "Idle"
    BY WritersStay DEF RInv
  <2>3. closed' = closed
    BY <2>1, <2>2, ClosedStays
  <2> QED
    BY <1>1, <2>3, PipeRests
<1> QED
  BY <1>2, <1>3

LEMMA RInvInit == Init => RInv
<1> SUFFICES ASSUME Init PROVE RInv
  OBVIOUS
<1>1. AInv
  BY AInvInit
<1>2. ~ closed
  BY DEF Init, closed
<1>3. PP!Init
  <2>1. PP!W!Init /\ PP!R!ReadInit /\ PP!A!AssembleInit
    BY SameWriter, SameReader, SameAssembler DEF Init
  <2> QED
    BY <1>2, <2>1 DEF PP!Init, closed
<1>4. PP!PInv
  BY ZenonT(30), <1>3, PipeInstance, PP!PipeInit
<1>5. PP!Fed
  BY DEF Init, W!Init, PP!Fed, PP!Short
<1>6. Heard
  BY DEF Init, Heard
<1> QED
  BY <1>1, <1>4, <1>5, <1>6 DEF RInv

LEMMA RInvNext == ASSUME P!NodesWithinLimits, RInv, [Next]_vars PROVE RInv'
<1>1. AInv' /\ PP!NodesWithinLimits
  BY AInvNext, SamePipe DEF RInv
<1>2. PP!PInv' /\ PP!Fed' /\ Heard'
  <2>1. CASE UNCHANGED vars
    <3>1. UNCHANGED <<wcore, rcore, acore, rlast, wopen, task>>
      BY <2>1 DEF vars, wvars, rside, loop
    <3>2. closed' = closed
      BY <3>1, ClosedStays
    <3> QED
      BY <3>1, <3>2, PipeRests
  <2>2. CASE Next
    BY <1>1, <2>2, WriterKeepsPipe, ReaderKeepsPipe, LoopKeepsPipe DEF Next
  <2> QED
    BY <2>1, <2>2
<1> QED
  BY <1>1, <1>2 DEF RInv

LEMMA RInvResumes == ASSUME RInv PROVE ReadsResume
<1>1. PP!PInv /\ PP!Fed /\ Heard /\ PP!EndInv /\ OneOperationPerWrite
  BY DEF RInv, PP!PInv, AInv, IInv
<1>2. P!Sent = PP!Sent /\ P!Started = PP!Started
  BY SamePipe
<1>3. IsPrefix(aout, P!Sent)
  BY ZenonT(30), <1>1, <1>2, PipeInstance, PP!GotIsPrefix DEF IsPrefix
<1>4. ASSUME rlast = "End"
      PROVE  closed /\ aout = P!Sent /\ \A k \in DOMAIN P!Started : P!Started[k] \in done
  <2>1. PP!CleanEnd /\ rstate = "Finished"
    BY <1>1, <1>4 DEF Heard, CleanlyEnded, PP!CleanEnd
  <2>2. closed /\ PP!Complete
    BY <1>1, <2>1 DEF PP!EndInv
  <2>3. aout = PP!Sent
    BY ZenonT(30), <1>1, <2>2, PipeInstance, PP!AllGot
  <2>4. PP!Short
    BY <1>1, <2>2 DEF closed, OneOperationPerWrite, PP!Fed
  <2>5. \A k \in DOMAIN PP!Started : PP!Started[k] \in done
    BY ZenonT(30), <1>1, <2>1, <2>4, PipeInstance, PP!CleanMeansDone
  <2> QED
    BY <1>2, <2>2, <2>3, <2>5
<1>5. ASSUME rlast = "Failed" PROVE closed /\ Last(wire).item \notin done
  <2>1. ~ PP!CleanEnd /\ rstate \in {"Finished", "Failed"}
    BY <1>1, <1>5 DEF Heard, CleanlyEnded, PP!CleanEnd
  <2> QED
    BY <1>1, <2>1 DEF PP!EndInv, PP!Missing, Last
<1> QED
  BY <1>3, <1>4, <1>5 DEF ReadsResume

\* For any number of tasks, cancelled at any await, and nodes within the limits of the reader:
\* next_item() returns the items written, in order and unaltered; it returns None only once
\* the writer is closed, every item it sent was returned, and each was reported written; and
\* it raises only when the writer is closed and left its last item unfinished.
THEOREM AwaitedReadsResume ==
  ASSUME P!NodesWithinLimits
  PROVE  Spec => []ReadsResume
<1>1. RInv /\ [Next]_vars => RInv'
  BY RInvNext
<1> QED
  BY <1>1, RInvInit, RInvResumes, PTL DEF Spec
=============================================================================
