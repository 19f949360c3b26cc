------------------------------ MODULE FileWrite ------------------------------
(***************************************************************************)
(* FileWriterCore and FileWriteOp (hurray-io/src/file/sans_io/write.rs)    *)
(* with the FileWriter that drives them (hurray-io/src/file/writer.rs).    *)
(*                                                                         *)
(* Header, tensors and footer are operations of the core.  A composite is  *)
(* a loop of the driver over one operation per tensor: `group` holds what  *)
(* the loop has left to submit, and `index` its position.  A call that is  *)
(* refused without changing anything is the absence of a step, except      *)
(* inside that loop, where it ends the group.                              *)
(***************************************************************************)
EXTENDS FileFormat, TLC

CONSTANTS FileNodes,     \* every FileCompositeNode, nested ones included
          FileItems,     \* the nodes submitted with write_tensor or write_composite
          BadNames,      \* names that are empty or longer than 65535 bytes
          SortedIndex,   \* options.sorted_index
          Before(_, _),  \* byte order of names
          ZerosLen,      \* length of ZEROS, the most padding offered at once
          MaxOps,        \* bound on the number of operations
          CancelGroups   \* may the future of write_composite be dropped between tensors?

ASSUME FileWriteAssumption ==
  /\ SortedIndex \in BOOLEAN /\ CancelGroups \in BOOLEAN
  /\ ZerosLen \in Nat \ {0} /\ MaxOps \in Nat
  /\ FileItems \subseteq FileNodes

VARIABLES
  unusable, torn,     \* why the core is retired, if it is
  offset,             \* where the next byte goes, as the core counts
  entries,            \* the index so far
  seen_names,
  header_written, finished,
  opState,            \* "None", "Live", "Written" or "Failed"
  plan,               \* op.plan: the segments, each [zeros, bytes]
  cursor, written,    \* the current segment and the bytes of it already accepted
  emitted,            \* op.emitted_bytes
  submitted,          \* history: what each operation commits, those left out that ended
                      \* before their first byte; the last one is the live one
  group, index,       \* write_composite: nodes left to submit, nodes already written
  file                \* the bytes the sink took

coreVars == <<unusable, torn, offset, entries, seen_names, header_written, finished>>
opVars   == <<opState, plan, cursor, written, emitted, submitted>>
wvars    == <<unusable, torn, offset, entries, seen_names, header_written, finished,
              opState, plan, cursor, written, emitted, submitted, group, index, file>>

WriteInit ==
  /\ unusable = "None" /\ torn = FALSE /\ offset = 0 /\ entries = <<>> /\ seen_names = {}
  /\ header_written = FALSE /\ finished = FALSE
  /\ opState = "None" /\ plan = <<>> /\ cursor = 0 /\ written = 0 /\ emitted = 0
  /\ submitted = <<>> /\ group = <<>> /\ index = 0 /\ file = <<>>

\* Mutant: an item cut short does not retire the core.
retired_unusable_only == unusable

retired == IF unusable # "None" THEN unusable
           ELSE IF torn THEN "IncompleteOutput" ELSE "None"

-----------------------------------------------------------------------------
\* Submission: a plan is made, nothing is committed to the core

Op == Len(submitted) + 1     \* the number of the operation being submitted

Owned(bytes)  == [zeros |-> FALSE, bytes |-> bytes]
Zeros(op, len) == [zeros |-> TRUE, bytes |-> Bytes(op, "Zeros", 0, len)]

BeginOp(segments, commit) ==
  /\ opState = "None" /\ retired = "None" /\ ~ finished
  /\ Len(submitted) < MaxOps
  /\ opState' = "Live"
  /\ plan' = segments /\ cursor' = 1 /\ written' = 0 /\ emitted' = 0
  /\ submitted' = Append(submitted, commit)
  /\ UNCHANGED <<coreVars, file>>

header ==
  /\ ~ header_written
  /\ BeginOp(<<Owned(Bytes(Op, "Header", 0, HeaderLen))>>, HeaderCommit)
  /\ UNCHANGED <<group, index>>

\* Where each buffer of a node starts, the first one at `data_offset`.
BufferStarts(slices, data_offset) ==
  LET start[i \in DOMAIN slices] ==
        IF i = 1 THEN data_offset
        ELSE align_up(start[i - 1] + slices[i - 1], Alignment)
  IN  start

\* The offsets of a node written at `offset`: its entry, and where each buffer starts.
\* Only a composite head has no buffers, and none of the padding that goes before one.
DataOffset(node) ==
  LET descriptor_end == offset + Desc[node.id].len
  IN  IF node.slices = <<>> THEN descriptor_end ELSE align_up(descriptor_end, Alignment)

DataEnd(node) ==
  LET n == Len(node.slices)
  IN  IF n = 0 THEN DataOffset(node)
      ELSE BufferStarts(node.slices, DataOffset(node))[n] + node.slices[n]

EntryOf(node) ==
  [name              |-> node.name,
   descriptor_offset |-> offset,
   descriptor_length |-> Desc[node.id].len,
   data_offset       |-> DataOffset(node),
   data_length       |-> DataEnd(node) - DataOffset(node)]

\* Descriptor, then each buffer behind the padding that aligns it, then the padding to the
\* next descriptor.  The code leaves empty padding out of the plan; step skips it here.
TensorPlan(node) ==
  LET n      == Len(node.slices)
      starts == BufferStarts(node.slices, DataOffset(node))
      gap(i) == IF i = 1 THEN DataOffset(node) - (offset + Desc[node.id].len)
                ELSE starts[i] - (starts[i - 1] + node.slices[i - 1])
  IN  [s \in 1 .. 2 * n + 2 |->
         CASE s = 1         -> Owned(Bytes(Op, "Descriptor", 0, Desc[node.id].len))
           [] s = 2 * n + 2 -> Zeros(Op, pad_to(DataEnd(node), ItemAlign))
           [] s > 1 /\ s < 2 * n + 2 /\ s % 2 = 0 -> Zeros(Op, gap(s \div 2))
           [] OTHER -> Owned(Bytes(Op, "Payload", s \div 2, node.slices[s \div 2]))]

\* The checks of FileWriterCore::tensor on its arguments.
Acceptable(node) ==
  /\ node.name \notin BadNames
  /\ node.name \notin seen_names
  /\ Len(node.slices) = Len(Desc[node.id].bufs)
  /\ \A i \in DOMAIN node.slices : node.slices[i] = Desc[node.id].bufs[i].size
  /\ Encodable(Desc[node.id])

tensor(node) ==
  /\ header_written /\ Acceptable(node)
  /\ BeginOp(TensorPlan(node), TensorCommit(node, EntryOf(node)))

\* The whole footer is one stretch of bytes: key-values, if any, and the padding behind
\* them, the index, the trailer.
finish(kv, sorted_index) ==
  LET kv_length    == IF kv THEN KvLen ELSE 0
      kv_padding   == IF kv THEN pad_to(offset + KvLen, ItemAlign) ELSE 0
      sorted       == IF sorted_index
                      THEN SortSeq(entries, LAMBDA a, b : Before(a.name, b.name))
                      ELSE entries
      trailer      == [index_offset |-> offset + kv_length + kv_padding,
                       index_length |-> IndexLen(entries),
                       kv_offset    |-> IF kv THEN offset ELSE 0,
                       kv_length    |-> kv_length]
  IN  /\ group = <<>> /\ header_written
      /\ BeginOp(<<Owned(Bytes(Op, "Kv", 0, kv_length)
                           \o Bytes(Op, "Zeros", 0, kv_padding)
                           \o Bytes(Op, "Index", 0, IndexLen(entries))
                           \o Bytes(Op, "Trailer", 0, TrailerLen))>>,
                 FooterCommit(sorted, trailer))
      /\ UNCHANGED <<group, index>>

-----------------------------------------------------------------------------
\* FileWriteOp

Segment == plan[cursor].bytes

\* remaining_in: padding is offered ZerosLen bytes at a time.
remaining ==
  IF opState # "Live" THEN 0
  ELSE LET left == Len(Segment) - written
       IN  IF plan[cursor].zeros /\ left > ZerosLen THEN ZerosLen ELSE left

LaterSegments == {s \in cursor + 1 .. Len(plan) : plan[s].bytes # <<>>}

\* Mutant: the count of the segment that is out is carried into the next one.
StepSegment_keeps_count ==
  /\ opState = "Live" /\ unusable = "None" /\ remaining = 0
  /\ \E s \in LaterSegments : (\A t \in LaterSegments : s <= t) /\ cursor' = s
  /\ UNCHANGED <<coreVars, opState, plan, written, emitted, submitted, group, index, file>>

\* step with the current segment out: on to the next one that has bytes.
StepSegment ==
  /\ opState = "Live" /\ unusable = "None" /\ remaining = 0
  /\ \E s \in LaterSegments : (\A t \in LaterSegments : s <= t) /\ cursor' = s
  /\ written' = 0
  /\ UNCHANGED <<coreVars, opState, plan, emitted, submitted, group, index, file>>

\* step with every byte out: `torn` is cleared and the operation commits.
StepCommit ==
  LET commit == submitted[Len(submitted)]
  IN  /\ opState = "Live" /\ unusable = "None" /\ remaining = 0
      /\ LaterSegments = {}
      /\ opState' = "Written" /\ torn' = FALSE
      /\ header_written' = (header_written \/ commit.kind = "Header")
      /\ finished' = (finished \/ commit.kind = "Footer")
      /\ seen_names' = seen_names \cup {commit.entry[i].name : i \in DOMAIN commit.entry}
      /\ entries' = entries \o commit.entry
      /\ UNCHANGED <<unusable, offset, plan, cursor, written, emitted, submitted, group,
                     index, file>>

\* Mutant: padding is not counted in the offset.
report_written_uncounted_padding(n) ==
  /\ opState = "Live" /\ unusable = "None"
  /\ n \in 1 .. remaining
  /\ file' = file \o SubSeq(Segment, written + 1, written + n)
  /\ torn' = (torn \/ emitted = 0)
  /\ emitted' = emitted + n /\ written' = written + n
  /\ offset' = IF plan[cursor].zeros THEN offset ELSE offset + n
  /\ UNCHANGED <<unusable, entries, seen_names, header_written, finished, opState, plan,
                 cursor, submitted, group, index>>

\* The sink takes n bytes and the driver reports n.
report_written(n) ==
  /\ opState = "Live" /\ unusable = "None"
  /\ n \in 1 .. remaining
  /\ file' = file \o SubSeq(Segment, written + 1, written + n)
  /\ torn' = (torn \/ emitted = 0)
  /\ emitted' = emitted + n /\ offset' = offset + n /\ written' = written + n
  /\ UNCHANGED <<unusable, entries, seen_names, header_written, finished, opState, plan,
                 cursor, submitted, group, index>>

\* More is reported than was offered: m bytes moved, the position is lost.
OverReport(m) ==
  /\ opState = "Live" /\ unusable = "None"
  /\ m \in 0 .. remaining
  /\ file' = file \o SubSeq(Segment, written + 1, written + m)
  /\ unusable' = "LostWriteCount" /\ opState' = "Failed"
  /\ UNCHANGED <<torn, offset, entries, seen_names, header_written, finished, plan, cursor,
                 written, emitted, submitted, group, index>>

report_sink_closed ==
  /\ opState \in {"Live", "Failed"}
  /\ unusable' = "IncompleteOutput" /\ opState' = "Failed"
  /\ UNCHANGED <<torn, offset, entries, seen_names, header_written, finished, plan, cursor,
                 written, emitted, submitted, group, index, file>>

EndOp ==
  /\ opState' = "None" /\ plan' = <<>> /\ cursor' = 0 /\ written' = 0 /\ emitted' = 0
  /\ submitted' = IF file # <<>> /\ file[Len(file)].op = Len(submitted)
                  THEN submitted ELSE SubSeq(submitted, 1, Len(submitted) - 1)

-----------------------------------------------------------------------------
\* FileWriter

write_tensor(node) ==
  /\ group = <<>> /\ node.kind = "Tensor"
  /\ tensor(node)
  /\ UNCHANGED <<group, index>>

\* flatten_composite: every level is validated, then the tree in order, heads first.
Flattened ==
  LET flat[n \in FileNodes] ==
        LET tails[k \in 0 .. Len(n.members)] ==
              IF k = 0 THEN <<>> ELSE tails[k - 1] \o flat[n.members[k]]
        IN  <<n>> \o tails[Len(n.members)]
  IN  flat

ValidTree ==
  LET valid[n \in FileNodes] ==
        n.kind = "Composite" =>
          /\ LevelAccepted(Desc[n.id], [i \in DOMAIN n.members |-> Desc[n.members[i].id]])
          /\ \A i \in DOMAIN n.members : valid[n.members[i]]
  IN  valid

\* write_composite: the tree is validated and flattened before the first submission.
write_composite(node) ==
  /\ opState = "None" /\ group = <<>> /\ node.kind = "Composite"
  /\ ValidTree[node]
  /\ group' = Flattened[node] /\ index' = 0
  /\ UNCHANGED <<coreVars, opVars, file>>

\* The next tensor of the group is submitted.
GroupSubmit ==
  /\ group # <<>>
  /\ tensor(group[1])
  /\ UNCHANGED <<group, index>>

\* Mutant: a group that began and did not finish is only reported.
EndGroup_no_poison == group' = <<>> /\ index' = 0 /\ UNCHANGED unusable

\* The driver's error path: a group that began and did not finish poisons the core.
EndGroup ==
  /\ group' = <<>> /\ index' = 0
  /\ unusable' = IF index > 0 THEN "IncompleteOutput" ELSE unusable

\* The core refuses the next tensor of the group.
GroupRefused ==
  /\ group # <<>> /\ opState = "None"
  /\ retired # "None" \/ finished \/ ~ header_written \/ ~ Acceptable(group[1])
  /\ EndGroup
  /\ UNCHANGED <<torn, offset, entries, seen_names, header_written, finished, opVars, file>>

\* drain is done with the operation: the call returns, or the group goes on.
Complete ==
  /\ opState = "Written"
  /\ EndOp
  /\ IF Len(group) > 1 THEN group' = Tail(group) /\ index' = index + 1
     ELSE group' = <<>> /\ index' = 0
  /\ UNCHANGED <<coreVars, file>>

\* drain returns an error: a write failed, or an action above failed the operation.
Fail ==
  /\ opState = "Failed" \/ remaining > 0
  /\ EndOp /\ EndGroup
  /\ UNCHANGED <<torn, offset, entries, seen_names, header_written, finished, file>>

\* The future of the call is dropped while drain awaits the sink: no code of the driver
\* runs, the operation is only dropped.
Cancel ==
  /\ remaining > 0
  /\ index > 0 => CancelGroups
  /\ EndOp /\ group' = <<>> /\ index' = 0
  /\ UNCHANGED <<coreVars, file>>

WriteNext ==
  \/ header
  \/ \E n \in FileItems : write_tensor(n) \/ write_composite(n)
  \/ \E kv \in BOOLEAN : finish(kv, SortedIndex)
  \/ StepSegment \/ StepCommit
  \/ \E n \in 1 .. remaining : report_written(n)
  \/ \E m \in 0 .. remaining : OverReport(m)
  \/ report_sink_closed
  \/ GroupSubmit \/ GroupRefused \/ Complete \/ Fail \/ Cancel
=============================================================================
