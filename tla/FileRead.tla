------------------------------- MODULE FileRead -------------------------------
(***************************************************************************)
(* FileReaderCore (hurray-io/src/file/sans_io/read.rs) and the FileReader  *)
(* that drives it (hurray-io/src/file/reader.rs), over a file of `size`    *)
(* bytes.                                                                  *)
(*                                                                         *)
(* The methods of the core are operators from the core to the core, named  *)
(* as in the code and chained as the code chains them: one step() may      *)
(* finish a descriptor, pass empty buffers, complete a tensor, close       *)
(* composites and request the next descriptor.  A call that fails leaves   *)
(* the core in "Ready", or in "Failed" while the file is being opened.     *)
(***************************************************************************)
EXTENDS FileFormat, TLC

CONSTANTS MaxDepth,   \* max_composite_depth
          Asked       \* the names the application asks for

VARIABLES
  file, submitted,   \* the file's bytes, and what they say (FileFormat)
  size,              \* its size when it was opened
  core,              \* the FileReaderCore
  driving,           \* whether a call of the FileReader is in progress
  call,              \* history: the call in progress or, if none is, the last one
  answer             \* history: what it returned; "None" while it is in progress

\* Core fields: state, bytes (the filled part of the target), cursor and target of the
\* request, footer (the operation whose trailer was read), index, kv, job, entry (the index
\* entry being read), pending (tensor being assembled), names (of the walk, those left),
\* open (the walk's stack of heads) and out (the finished result).
NewCore ==
  [state |-> "Header", cursor |-> 0, target |-> HeaderLen, bytes |-> <<>>, footer |-> 0,
   index |-> <<>>, kv |-> FALSE, job |-> "None", entry |-> <<>>, pending |-> <<>>,
   names |-> <<>>, open |-> <<>>, out |-> <<>>]

Opening == {"Header", "Trailer", "Index", "Kv"}
Filling == Opening \cup {"Descriptor", "Buffer"}
is_open == core.state \notin Opening \cup {"Failed"}

A == INSTANCE CompositeAssembler WITH stack <- core.open, out <- <<>>, failed <- FALSE

-----------------------------------------------------------------------------
fail_open(c) == [c EXCEPT !.state = "Failed"]

fail(c) ==
  IF c.state \in Opening THEN fail_open(c)
  ELSE [c EXCEPT !.state = "Ready", !.job = "None", !.pending = <<>>,
                 !.names = <<>>, !.open = <<>>]

request(c, offset, len, state) ==
  [c EXCEPT !.cursor = offset, !.target = len, !.bytes = <<>>, !.state = state]

\* The bytes are a whole section, from its first byte on.
IsSection(bytes, sec, len) == bytes # <<>> /\ bytes = Bytes(bytes[1].op, sec, 0, len)
Source(bytes) == submitted[bytes[1].op]

\* Opening

finish_header(c) ==
  IF size >= HeaderLen + TrailerLen /\ IsSection(c.bytes, "Header", HeaderLen)
  THEN request(c, size - TrailerLen, TrailerLen, "Trailer")
  ELSE fail_open(c)

\* Mutant: the index may not reach up to the trailer.
finish_trailer_strict(c) ==
  IF IsSection(c.bytes, "Trailer", TrailerLen)
  THEN LET t == Source(c.bytes).trailer[1]
       IN  IF t.index_offset + t.index_length < size - TrailerLen
           THEN request([c EXCEPT !.footer = c.bytes[1].op],
                        t.index_offset, t.index_length, "Index")
           ELSE fail_open(c)
  ELSE fail_open(c)

finish_trailer(c) ==
  IF IsSection(c.bytes, "Trailer", TrailerLen)
  THEN LET t == Source(c.bytes).trailer[1]
       IN  IF t.index_offset + t.index_length <= size - TrailerLen
           THEN request([c EXCEPT !.footer = c.bytes[1].op],
                        t.index_offset, t.index_length, "Index")
           ELSE fail_open(c)
  ELSE fail_open(c)

\* The checksum of the trailer tells the bytes of its own index from any others.
finish_index(c) ==
  LET commit == submitted[c.footer]
      t      == commit.trailer[1]
      opened == [c EXCEPT !.index = commit.index]
  IN  IF c.bytes # Bytes(c.footer, "Index", 0, IndexLen(commit.index)) THEN fail_open(c)
      ELSE IF t.kv_offset # 0 /\ t.kv_length # 0
      THEN request(opened, t.kv_offset, t.kv_length, "Kv")
      ELSE [opened EXCEPT !.state = "Ready"]

finish_kv(c) ==
  IF IsSection(c.bytes, "Kv", KvLen) THEN [c EXCEPT !.kv = TRUE, !.state = "Ready"]
  ELSE fail_open(c)

-----------------------------------------------------------------------------
\* Jobs

EntriesNamed(name) == {i \in DOMAIN core.index : core.index[i].name = name}

start_descriptor(c, name) ==
  LET entry == c.index[CHOOSE i \in EntriesNamed(name) : TRUE]
  IN  request([c EXCEPT !.entry = <<entry>>],
              entry.descriptor_offset, entry.descriptor_length, "Descriptor")

walk_next(c) ==
  IF c.names = <<>> THEN fail(c)
  ELSE start_descriptor([c EXCEPT !.names = Tail(@)], c.names[1])

FileTensor(name, t) ==
  [kind |-> "Tensor", name |-> name, id |-> t.id, buffers |-> t.buffers, members |-> <<>>]

\* The item that reaches level k of the stack: the tensor, or the composite that closed
\* above it.
Carried(c, item) ==
  LET n == Len(c.open)
      up[j \in 0 .. n] ==
        IF j = 0 THEN item
        ELSE LET top == c.open[n - j + 1]
             IN  [kind |-> "Composite", name |-> top.name, id |-> top.id, buffers |-> <<>>,
                  members |-> Append(top.members, up[j - 1])]
  IN  [k \in 0 .. n |-> up[n - k]]

\* deliver: the chain of closings is that of the stream's assembler, on named items.
deliver(c, item) ==
  LET k    == A!StopLevel
      kept == [id      |-> c.open[k].id, name |-> c.open[k].name,
               members |-> Append(c.open[k].members, Carried(c, item)[k]),
               v       |-> push_member(c.open[k].v, A!OfferedTo(k, item))]
  IN  IF A!BadLevels(item) # {} THEN fail(c)
      ELSE IF k = 0
      THEN [c EXCEPT !.out = <<Carried(c, item)[0]>>, !.open = <<>>, !.names = <<>>,
                     !.state = "Done"]
      ELSE walk_next([c EXCEPT !.open = Append(SubSeq(@, 1, k - 1), kept)])

complete_tensor(c, t) ==
  LET item == FileTensor(t.name, t)
      free == [c EXCEPT !.pending = <<>>]
  IN  IF c.job = "Tensor" THEN [free EXCEPT !.out = <<item>>, !.state = "Done"]
      ELSE deliver(free, item)

\* begin_buffer for the first buffer that wants bytes or cannot be allocated, `offset`
\* being where the next one starts; the empty ones before it are finished on the way.
begin_buffer(c, t, offset) ==
  LET table == Desc[t.id].bufs
      first == Len(t.buffers) + 1
      stops == {k \in first .. Len(table) : table[k].size > 0 \/ ~ table[k].allocatable}
      k     == CHOOSE s \in stops : \A l \in stops : s <= l
      upto(n) == [t EXCEPT !.buffers = @ \o [i \in 1 .. n - first |-> <<>>]]
  IN  IF stops = {} THEN complete_tensor(c, upto(Len(table) + 1))
      ELSE IF ~ table[k].allocatable THEN fail(c)
      ELSE request([c EXCEPT !.pending = <<upto(k)>>],
                   IF k = first THEN offset ELSE align_up(offset, Alignment),
                   table[k].size, "Buffer")

begin_buffers(c, id) ==
  begin_buffer(c, [name |-> c.entry[1].name, id |-> id, buffers |-> <<>>],
               c.entry[1].data_offset)

\* Mutant: the next buffer starts where the one before it ends.
finish_buffer_unaligned(c) ==
  begin_buffer(c, [c.pending[1] EXCEPT !.buffers = Append(@, c.bytes)], c.cursor)

\* The buffer is full: it joins the tensor, the next one starts on a boundary.
finish_buffer(c) ==
  begin_buffer(c, [c.pending[1] EXCEPT !.buffers = Append(@, c.bytes)],
               align_up(c.cursor, Alignment))

\* In a walk: a head opens, a tensor is read, but a walk must start at a head.
walk_descriptor(c, id) ==
  IF ~ IsHead(id)
  THEN IF c.open = <<>> THEN fail(c) ELSE begin_buffers(c, id)
  ELSE IF Len(c.open) >= MaxDepth \/ ~ HeadAccepted(Desc[id]) THEN fail(c)
  ELSE walk_next([c EXCEPT !.open = Append(@, [id |-> id, name |-> c.entry[1].name,
                                               members |-> <<>>,
                                               v |-> NewValidator(Desc[id])])])

finish_descriptor(c) ==
  LET id == Source(c.bytes).id[1]
  IN  IF ~ (/\ IsSection(c.bytes, "Descriptor", c.target)
            /\ c.target = Desc[id].len /\ Decodable(id))
      THEN fail(c)
      ELSE CASE c.job = "Descriptor" ->
                  [c EXCEPT !.state = "Done",
                            !.out = <<FileTensor(c.entry[1].name, [id |-> id, buffers |-> <<>>])>>]
             [] c.job = "Tensor" -> begin_buffers(c, id)
             [] c.job = "Walk"   -> walk_descriptor(c, id)

advance(c) ==
  CASE c.state = "Header"     -> finish_header(c)
    [] c.state = "Trailer"    -> finish_trailer(c)
    [] c.state = "Index"      -> finish_index(c)
    [] c.state = "Kv"         -> finish_kv(c)
    [] c.state = "Descriptor" -> finish_descriptor(c)
    [] c.state = "Buffer"     -> finish_buffer(c)

\* Mutant: the heads an earlier walk left open stay.
begin_job_keeps_open(c, job) ==
  [c EXCEPT !.job = job, !.pending = <<>>, !.names = <<>>, !.out = <<>>]

\* begin_job: what was left of an earlier job is dropped, its state excepted.
begin_job(c, job) ==
  [c EXCEPT !.job = job, !.pending = <<>>, !.names = <<>>, !.open = <<>>, !.out = <<>>]

\* The names from `name` on, in the order of the file.
NamesFrom(name) ==
  LET ordered == SortSeq(core.index, LAMBDA a, b : a.descriptor_offset < b.descriptor_offset)
      start   == CHOOSE i \in DOMAIN ordered : ordered[i].name = name
  IN  [i \in 1 .. Len(ordered) - start + 1 |-> ordered[start + i - 1].name]

begin(job, name) ==
  LET c == begin_job(core, job)
  IN  IF EntriesNamed(name) = {} THEN c
      ELSE IF job = "Walk" THEN walk_next([c EXCEPT !.names = NamesFrom(name)])
      ELSE start_descriptor(c, name)

-----------------------------------------------------------------------------
\* FileReader

NoItem == [kind |-> "None", name |-> "", id |-> "", buffers |-> <<>>, members |-> <<>>]

\* The call in progress returns: "Item", "Opened", "Error" or, abandoned, "Dropped".
Return(result, item) == driving' = FALSE /\ answer' = [result |-> result, item |-> item]

ReadInit ==
  /\ size = 0 /\ core = NewCore /\ driving = FALSE
  /\ call = [job |-> "None", name |-> ""] /\ answer = [result |-> "None", item |-> NoItem]

\* FileReader::open: the size is taken once.
Open ==
  /\ call.job = "None"
  /\ size' = Len(file)
  /\ driving' = TRUE /\ call' = [job |-> "Open", name |-> ""]
  /\ UNCHANGED <<core, answer>>

\* read_descriptor, read_tensor and read_composite up to the loop of drive.
Begin(job, name) ==
  /\ ~ driving /\ is_open
  /\ call' = [job |-> job, name |-> name]
  /\ core' = begin(job, name)
  /\ \/ EntriesNamed(name) = {} /\ Return("Error", NoItem)
     \/ /\ EntriesNamed(name) # {}
        /\ driving' = TRUE /\ answer' = [result |-> "None", item |-> NoItem]
  /\ UNCHANGED size

\* A turn of drive in which step has a whole target to advance over.
Step ==
  /\ driving /\ core.state \in Filling /\ Len(core.bytes) = core.target
  /\ core' = advance(core)
  /\ \/ core'.state \in Filling \cup {"Done"} /\ UNCHANGED <<driving, answer>>
     \/ core.state \in Opening /\ core'.state = "Ready" /\ Return("Opened", NoItem)
     \/ core.state \in Opening /\ core'.state = "Failed" /\ Return("Error", NoItem)
     \/ core.state \notin Opening /\ core'.state = "Ready" /\ Return("Error", NoItem)
  /\ UNCHANGED <<size, call>>

\* A turn of drive that reads n bytes at the cursor.
report_filled(n) ==
  /\ driving /\ core.state \in Filling
  /\ n \in 1 .. core.target - Len(core.bytes)
  /\ core.cursor + n <= Len(file)
  /\ core' = [core EXCEPT !.bytes = @ \o SubSeq(file, core.cursor + 1, core.cursor + n),
                          !.cursor = @ + n]
  /\ UNCHANGED <<size, driving, call, answer>>

\* Mutant: a read of zero bytes is tried again.
ReportEof_retried ==
  /\ driving /\ core.state \in Filling /\ Len(core.bytes) < core.target
  /\ core.cursor >= Len(file)
  /\ UNCHANGED <<size, core, driving, call, answer>>

\* A read at the end of the file: zero bytes, UnexpectedEof.
ReportEof ==
  /\ driving /\ core.state \in Filling /\ Len(core.bytes) < core.target
  /\ core.cursor >= Len(file)
  /\ core' = fail(core)
  /\ Return("Error", NoItem)
  /\ UNCHANGED <<size, call>>

\* drive returns the result, which is taken: finish_job.
Take ==
  /\ driving /\ core.state = "Done"
  /\ core' = [core EXCEPT !.out = <<>>, !.job = "None", !.state = "Ready"]
  /\ Return("Item", core.out[1])
  /\ UNCHANGED <<size, call>>

\* The call ends at a read: an I/O error, or its future is dropped.  The core stays as is.
\* (When that happens in open there is no reader left to ask.)
Abandon ==
  /\ driving /\ core.state \in {"Descriptor", "Buffer"} /\ Len(core.bytes) < core.target
  /\ Return("Dropped", NoItem)
  /\ UNCHANGED <<size, core, call>>

ReadNext ==
  \/ Open
  \/ \E job \in {"Descriptor", "Tensor", "Walk"}, name \in Asked : Begin(job, name)
  \/ Step
  \/ \E n \in 1 .. core.target - Len(core.bytes) : report_filled(n)
  \/ ReportEof \/ Take \/ Abandon
=============================================================================
