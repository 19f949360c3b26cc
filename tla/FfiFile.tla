------------------------------- MODULE FfiFile -------------------------------
(***************************************************************************)
(* The C file drivers (hurray-ffi/src/file/writer.rs and reader.rs) over   *)
(* the cores of FileWrite and FileRead.                                    *)
(*                                                                         *)
(* A call blocks in the callbacks the C program supplied; they move any    *)
(* part of what they are offered, or fail having moved nothing, or say     *)
(* that they are at their end.  The program repeats, skips or gives up     *)
(* calls as it likes; it has nothing to go by but their statuses.          *)
(***************************************************************************)
EXTENDS FilePipe, FfiTree

CONSTANTS CArrays,         \* the node arrays passed to hurray_file_writer_write_composite
          CTensors,        \* the elements passed to hurray_file_writer_write_tensor
          BetweenTensors   \* may the callback fail before the first byte of a later member?

ASSUME FfiFileAssumption == BetweenTensors \in BOOLEAN

VARIABLES
  wcall,   \* the writer's call in progress: "None", "new", "tensor", "composite", "finish"
  side,    \* "writer" or "reader" -> [handle, contexts], as in FfiStream
  told     \* history, of the writer's calls that returned: [written, poisoned, finished, last]:
           \* the names of what was reported written, whether a status said that the writer
           \* is poisoned, whether hurray_file_writer_finish returned HURRAY_OK, the last status

cvars == <<wcall, side, told>>

NoHandle == [handle |-> "None", contexts |-> 0]

CInit ==
  /\ wcall = "None"
  /\ side = [s \in {"writer", "reader"} |-> NoHandle]
  /\ told = [written |-> <<>>, poisoned |-> FALSE, finished |-> FALSE, last |-> "OK"]

-----------------------------------------------------------------------------
\* What the program is told

\* A group of which a tensor is in the file and which fails is beyond repair, and so is an
\* item that stopped inside.
Poisons(status) == status = "SINK_CLOSED" \/ (index > 0 /\ status # "CALLBACK")

\* The names the call has written when it returns HURRAY_OK.
NamesOf(calls) == [i \in DOMAIN calls |-> calls[i].name]
LastNames(n) == NamesOf(SubSeq(entries, Len(entries) - n + 1, Len(entries)))

Told(status, names) ==
  told' = [written  |-> told.written \o names,
           poisoned |-> told.poisoned \/ (status # "OK" /\ Poisons(status)),
           finished |-> told.finished \/ (wcall = "finish" /\ status = "OK"),
           last     |-> status]

\* A call that returns without having opened an operation.
Refuse(status) ==
  /\ told' = [told EXCEPT !.last = status]
  /\ UNCHANGED <<wvars, stopped, wcall, side>>

\* The status of the core's refusal, in the order of its checks.
Refusal(node) ==
  CASE retired # "None" -> "CORE_UNUSABLE"
    [] retired = "None" /\ finished -> "INVALID_STREAM"
    [] node.name \in BadNames \cup seen_names -> "INVALID_FILE"
    [] OTHER -> "INVALID"

-----------------------------------------------------------------------------
\* Handles

Writable == ~ stopped /\ wcall = "None" /\ side["writer"].handle = "Live"

\* hurray_file_writer_new: without a write callback, or with a wrong alignment, the copied
\* vtable is dropped and with it its context; else the header goes out.
hurray_file_writer_new ==
  /\ ~ stopped /\ wcall = "None" /\ side["writer"].handle = "None" /\ file = <<>>
  /\ \/ Refuse("NULL_POINTER") \/ Refuse("INVALID_FILE")
     \/ /\ header
        /\ wcall' = "new" /\ side' = [side EXCEPT !["writer"].contexts = @ + 1]
        /\ UNCHANGED <<stopped, told>>

\* hurray_file_writer_destroy: the writer is gone, whatever it left in the file.
hurray_file_writer_destroy ==
  /\ \/ /\ Writable
        /\ side' = [side EXCEPT !["writer"] = [handle |-> "Gone", contexts |-> @.contexts - 1]]
     \/ /\ wcall = "None" /\ side["writer"].handle = "None"      \* there is none to destroy
        /\ UNCHANGED side
  /\ Stop
  /\ UNCHANGED <<wcall, told>>

-----------------------------------------------------------------------------
\* Writing

hurray_file_writer_write_tensor(node) ==
  LET n == [kind |-> "Tensor", name |-> node.name, id |-> node.id, slices |-> node.slices,
            members |-> <<>>]
  IN  /\ Writable
      /\ \/ NodeFault(node) # "OK" /\ Refuse(NodeFault(node))
         \/ /\ NodeFault(node) = "OK"
            /\ retired # "None" \/ finished \/ ~ Acceptable(n)
            /\ Refuse(Refusal(n))
         \/ /\ NodeFault(node) = "OK"
            /\ write_tensor(n)
            /\ wcall' = "tensor" /\ UNCHANGED <<stopped, side, told>>

\* The tree is built, validated and flattened; the loop over its tensors is FileWrite's.
hurray_file_writer_write_composite(nodes) ==
  LET built == file_tree(nodes)
  IN  /\ Writable
      /\ \/ built.status # "OK" /\ Refuse(built.status)
         \/ /\ built.status = "OK" /\ ~ ValidTree[built.tree[1]]
            /\ Refuse("INVALID_LAYOUT")
         \/ /\ built.status = "OK"
            /\ write_composite(built.tree[1])
            /\ wcall' = "composite" /\ UNCHANGED <<stopped, side, told>>

\* The key-values are copied first, a null or non-UTF-8 one refused; the core looks at their
\* keys last.
hurray_file_writer_finish(kv) ==
  /\ Writable
  /\ \/ kv /\ (Refuse("NULL_POINTER") \/ Refuse("INVALID_FILE"))
     \/ retired # "None" /\ Refuse("CORE_UNUSABLE")
     \/ retired = "None" /\ finished /\ Refuse("INVALID_STREAM")
     \/ /\ finish(kv, SortedIndex)
        /\ wcall' = "finish" /\ UNCHANGED <<stopped, side, told>>

\* A turn of drain, or the next submission of the loop over a group.
CDrainStep ==
  /\ wcall # "None"
  /\ \/ StepSegment \/ StepCommit \/ GroupSubmit
     \/ \E n \in 1 .. remaining : report_written(n)
     \/ opState = "Live" /\ remaining > 0 /\ report_sink_closed    \* the callback took nothing
  /\ UNCHANGED <<stopped, cvars>>

\* Mutant: a writer whose header failed keeps its context.
Returned_no_release(status, names) ==
  /\ wcall' = "None" /\ Told(status, names)
  /\ side' = IF wcall = "new" /\ status = "OK" THEN [side EXCEPT !["writer"].handle = "Live"]
             ELSE side
  /\ UNCHANGED stopped

\* The call returns.  A writer whose header failed is dropped, and its context released.
Returned(status, names) ==
  /\ wcall' = "None" /\ Told(status, names)
  /\ side' = IF wcall # "new" THEN side
             ELSE IF status = "OK" THEN [side EXCEPT !["writer"].handle = "Live"]
             ELSE [side EXCEPT !["writer"].contexts = @ - 1]
  /\ UNCHANGED stopped

\* Mutant: the callback's status is returned whatever is in the file.
CDrainFails_own_status ==
  /\ wcall # "None" /\ opState = "Live" /\ remaining > 0
  /\ index > 0 /\ emitted = 0 => BetweenTensors
  /\ Fail
  /\ Returned("CALLBACK", <<>>)

\* The callback fails: its own status, unless part of the item is in the file.
CDrainFails ==
  /\ wcall # "None" /\ opState = "Live" /\ remaining > 0
  /\ index > 0 /\ emitted = 0 => BetweenTensors
  /\ Fail
  /\ Returned(IF emitted > 0 THEN "SINK_CLOSED" ELSE "CALLBACK", <<>>)

\* The operation is done, or failed, or the core refuses the next tensor of the group.
CReturns ==
  \/ /\ wcall # "None" /\ opState = "Failed" /\ Fail
     /\ Returned("SINK_CLOSED", <<>>)
  \/ /\ wcall # "None" /\ GroupRefused
     /\ Returned(Refusal(group[1]), <<>>)
  \/ /\ wcall # "None" /\ Complete
     /\ IF group' # <<>> THEN UNCHANGED <<stopped, cvars>>
        ELSE Returned("OK", CASE wcall = "tensor" -> LastNames(1)
                              [] wcall = "composite" -> LastNames(index + 1)
                              [] OTHER -> <<>>)

CWriterStep == CDrainStep \/ CDrainFails \/ CReturns

CWrite ==
  /\ \/ hurray_file_writer_new
     \/ hurray_file_writer_destroy
     \/ \E node \in CTensors : hurray_file_writer_write_tensor(node)
     \/ \E nodes \in CArrays : hurray_file_writer_write_composite(nodes)
     \/ \E kv \in BOOLEAN : hurray_file_writer_finish(kv)
     \/ CWriterStep
  /\ UNCHANGED rside

-----------------------------------------------------------------------------
\* Reading: hurray_file_reader_new opens, the three reads are the jobs of FileRead, and a
\* callback that fails leaves the core where it is.

\* hurray_file_reader_new has opened the file, or could not: the reader is dropped, and with
\* it its context.
COpened ==
  side' = IF answer'.result = "Opened" THEN [side EXCEPT !["reader"].handle = "Live"]
          ELSE [side EXCEPT !["reader"].contexts = @ - 1]

\* A callback fails in hurray_file_reader_new.
COpenFails ==
  /\ driving /\ call.job = "Open" /\ Len(core.bytes) < core.target
  /\ R!Return("Dropped", R!NoItem)
  /\ UNCHANGED <<size, core, call>>

CReaderStep ==
  /\ stopped
  /\ \/ R!Step \/ R!ReportEof
     \/ \E n \in 1 .. core.target - Len(core.bytes) : R!report_filled(n)
     \/ R!Take
  /\ IF call.job = "Open" /\ ~ driving' THEN COpened ELSE UNCHANGED side
  /\ UNCHANGED <<wvars, stopped, wcall, told>>

CRead ==
  \/ CReaderStep
  \/ /\ stopped
     /\ \/ R!Open /\ side' = [side EXCEPT !["reader"].contexts = @ + 1]
        \/ COpenFails /\ COpened
        \/ /\ \/ R!Abandon
              \/ /\ side["reader"].handle = "Live"
                 /\ \E job \in {"Descriptor", "Tensor", "Walk"}, name \in Asked :
                       R!Begin(job, name)
           /\ UNCHANGED side
     /\ UNCHANGED <<wvars, stopped, wcall, told>>
  \/ /\ side["reader"].handle = "Live" /\ ~ driving        \* hurray_file_reader_destroy
     /\ side' = [side EXCEPT !["reader"] = [handle |-> "Gone", contexts |-> @.contexts - 1]]
     /\ UNCHANGED <<wvars, stopped, rside, wcall, told>>

-----------------------------------------------------------------------------
\* The statuses tell a C program what became of its file.  Between calls the writer is
\* retired exactly when a status said so: HURRAY_ERR_SINK_CLOSED, or the refusal of a member
\* after its head; every other failure may be retried.  And the index holds, in order,
\* exactly what was reported written, as long as it can be finished at all.
StatusTellsTheFile ==
  (wcall = "None" /\ side["writer"].handle = "Live") =>
     /\ retired # "None" <=> told.poisoned
     /\ finished <=> told.finished
     /\ ~ told.poisoned => NamesOf(entries) = told.written

\* The transport context handed over to side `s` is released once, by the handle that owns it
\* or by the call that could not make one.
FileContextReleasedOnce(s) ==
  side[s].contexts = (IF side[s].handle = "Live" \/ (s = "writer" /\ wcall = "new")
                         \/ (s = "reader" /\ call.job = "Open" /\ driving)
                      THEN 1 ELSE 0)
=============================================================================
