------------------------------ MODULE FilePipe ------------------------------
(***************************************************************************)
(* A file written by a FileWriter and read back by a FileReader.  The      *)
(* writer may stop after any byte: it finishes, fails, is abandoned or     *)
(* crashes.  Whatever the sink holds by then is the file that is opened.   *)
(***************************************************************************)
EXTENDS FileWrite

CONSTANTS MaxDepth, Asked

ASSUME FilePipeAssumption == MaxDepth \in Nat /\ Asked \subseteq Names

VARIABLES
  stopped,    \* the writing process is gone
  size, core, driving, call, answer

R == INSTANCE FileRead

rside == <<size, core, driving, call, answer>>
vars  == <<wvars, stopped, rside>>

Init == WriteInit /\ stopped = FALSE /\ R!ReadInit

Write == ~ stopped /\ WriteNext /\ UNCHANGED <<stopped, rside>>

\* The writing process ends, in the middle of an operation or not: of its state only the
\* file is left, and the histories.
Stop ==
  /\ ~ stopped /\ stopped' = TRUE
  /\ unusable' = "None" /\ torn' = FALSE /\ offset' = 0 /\ header_written' = FALSE
  /\ opState' = "None" /\ plan' = <<>> /\ cursor' = 0 /\ written' = 0 /\ emitted' = 0
  /\ group' = <<>> /\ index' = 0
  /\ UNCHANGED <<entries, seen_names, finished, submitted, file, rside>>

Read == stopped /\ R!ReadNext /\ UNCHANGED <<wvars, stopped>>

Next == Write \/ Stop \/ Read

Spec == Init /\ [][Next]_vars

\* A call of the reader is driven to its end.
Drive ==
  /\ \/ R!Step
     \/ \E n \in 1 .. core.target - Len(core.bytes) : R!report_filled(n)
     \/ R!ReportEof \/ R!Take
  /\ UNCHANGED <<wvars, stopped>>

-----------------------------------------------------------------------------
TypeOK ==
  /\ unusable \in {"None", "LostWriteCount", "IncompleteOutput"}
  /\ torn \in BOOLEAN /\ header_written \in BOOLEAN /\ finished \in BOOLEAN
  /\ offset \in Nat /\ written \in Nat /\ emitted \in Nat /\ cursor \in 0 .. Len(plan)
  /\ entries \in Seq(IndexEntry) /\ seen_names \subseteq Names
  /\ opState \in {"None", "Live", "Written", "Failed"}
  /\ file \in Seq(FileByte) /\ submitted # <<>> => Len(submitted) <= MaxOps
  /\ opState = "Live" => written <= Len(Segment)
  /\ core.state \in R!Filling \cup {"Ready", "Done", "Failed"}
  /\ core.state \in R!Filling => Len(core.bytes) <= core.target
  /\ size <= Len(file) /\ driving \in BOOLEAN

\* The bytes of `file` at [at, at + len).
BytesAt(at, len) == SubSeq(file, at + 1, at + len)

\* "No offset is ever patched": every entry of the index, from the moment it is committed,
\* points at the bytes of its own tensor: the whole descriptor on an 8-byte boundary, and
\* each payload on a data boundary, the last one ending where data_length says.
IndexMatchesFile ==
  \A i \in DOMAIN entries :
     \E op \in DOMAIN submitted :
        LET e     == entries[i]
            table == Desc[submitted[op].id[1]].bufs
            starts == BufferStarts([k \in DOMAIN table |-> table[k].size], e.data_offset)
        IN  /\ submitted[op].kind = "Tensor" /\ submitted[op].entry = <<e>>
            /\ e.descriptor_offset % ItemAlign = 0
            /\ BytesAt(e.descriptor_offset, e.descriptor_length) =
                 Bytes(op, "Descriptor", 0, Desc[submitted[op].id[1]].len)
            /\ \A k \in DOMAIN table :
                 /\ starts[k] % Alignment = 0
                 /\ BytesAt(starts[k], table[k].size) = Bytes(op, "Payload", k, table[k].size)
                 /\ starts[k] + table[k].size <= e.data_offset + e.data_length

\* A file that opens is complete, wherever its writer stopped: its index lists every tensor
\* that was reported written, and each stretch of its bytes belongs to the header, to one of
\* those tensors or to the footer, so that no torn item lies between them.
OpensMeansComplete ==
  R!is_open =>
    LET listed == {core.index[i] : i \in DOMAIN core.index}
        last   == Len(submitted)
    IN  /\ listed = {entries[i] : i \in DOMAIN entries} /\ Len(core.index) = Len(entries)
        /\ submitted[1].kind = "Header" /\ submitted[last].kind = "Footer"
        /\ \A op \in 2 .. last - 1 :
             submitted[op].kind = "Tensor" /\ submitted[op].entry[1] \in listed

\* write_composite: "the writer must not go on to write a clean index over" a group that
\* began and did not finish.  In a finished file the tensors after a head are its members.
FinishedGroupsAreWhole ==
  finished =>
    \A n \in FileNodes : \A i \in DOMAIN entries :
       LET flat == Flattened[n]
       IN  (n.kind = "Composite" /\ entries[i].name = n.name) =>
             /\ i + Len(flat) - 1 <= Len(entries)
             /\ \A k \in DOMAIN flat : entries[i + k - 1].name = flat[k].name

\* The file is what its writer counted, entry by entry, and one that opens, or that was
\* finished, holds whole items only: no torn tensor is between those the index lists, and no
\* group lacks a member.
FilesHoldWholeItems ==
  TypeOK /\ IndexMatchesFile /\ OpensMeansComplete /\ FinishedGroupsAreWhole

\* The operation that wrote the tensor called `name`.
Writer(name) ==
  CHOOSE op \in DOMAIN submitted :
     /\ submitted[op].kind = "Tensor"
     /\ \E i \in DOMAIN entries : submitted[op].entry = <<entries[i]>> /\ entries[i].name = name

\* What a node reads back as on its own, a head as a tensor without buffers, and as a tree.
TensorOf(n) ==
  R!FileTensor(n.name, [id      |-> n.id,
                        buffers |-> [i \in DOMAIN n.slices |->
                                       Bytes(Writer(n.name), "Payload", i, n.slices[i])]])
ItemOf ==
  LET item[n \in FileNodes] ==
        [kind    |-> n.kind, name |-> n.name, id |-> n.id,
         buffers |-> TensorOf(n).buffers,
         members |-> [i \in DOMAIN n.members |-> item[n.members[i]]]]
  IN  item

\* Whatever was asked, abandoned or refused before, a call that returns an item returns the
\* one written under that name: descriptor, every payload and, for a composite, the tree.
AnswersAreRight ==
  answer.result = "Item" =>
     \E n \in FileNodes :
        /\ n.name = call.name
        /\ submitted[Writer(n.name)].id = <<n.id>>
        /\ \/ call.job = "Descriptor" /\ answer.item.name = n.name /\ answer.item.id = n.id
           \/ call.job = "Tensor" /\ answer.item = TensorOf(n)
           \/ call.job = "Walk" /\ answer.item = ItemOf[n]

\* What a call asks for is in the file, is what it asks for, and can be allocated.
Allocatable(n) == \A i \in DOMAIN Desc[n.id].bufs : Desc[n.id].bufs[i].allocatable

Readable(job, name) ==
  /\ name \in seen_names
  /\ \E n \in FileNodes :
       /\ n.name = name /\ submitted[Writer(name)].id = <<n.id>>
       /\ \/ job = "Descriptor"
          \/ job = "Tensor" /\ Allocatable(n)
          \/ /\ job = "Walk" /\ n.kind = "Composite"
             /\ \A k \in DOMAIN Flattened[n] : Allocatable(Flattened[n][k])

\* A call fails only for its own sake: the name is not in the file, it does not name what
\* was asked for, or one of its buffers cannot be allocated.  A job that was dropped or refused
\* earlier never makes a later one fail.
CallsFailForCause ==
  (call.job # "Open" /\ answer.result = "Error") => ~ Readable(call.job, call.name)

\* A file whose writer reported it finished opens.
FinishedFilesOpen == (finished /\ call.job = "Open") => answer.result # "Error"

\* A reader's calls answer for the file and for nothing else: what they return is what was
\* written under that name, what they refuse is not there to be read, and a finished file
\* is never refused.
CallsAnswerForTheFile == AnswersAreRight /\ CallsFailForCause /\ FinishedFilesOpen
=============================================================================
