------------------------------ MODULE StreamRead ------------------------------
(***************************************************************************)
(* StreamReaderCore, the sequential read half of the sans-io stream core   *)
(* (hurray-io/src/stream/sans_io/read.rs), over a transport that holds the *)
(* bytes of `wire` and reports end of input after the last one once `eof`  *)
(* is set.                                                                 *)
(*                                                                         *)
(* step() runs to the next request, so each of its actions includes the    *)
(* zero-sized buffers it passes on the way.  Calls that return an error or *)
(* a request without changing the core are the absence of a step.  A       *)
(* driver reads and reports in one step (ADR-041 section 6a); the counts   *)
(* that get lost are OverReport and MarkUnusable.                          *)
(***************************************************************************)
EXTENDS Frames

CONSTANTS MaxDescriptorBytes,   \* options.max_descriptor_bytes
          MaxBufferBytes        \* options.max_buffer_bytes

ASSUME ReadLimitsAssumption == MaxDescriptorBytes \in Nat /\ MaxBufferBytes \in Nat

VARIABLES
  wire,       \* the transport's bytes, in order
  eof,        \* whether the transport ends after them
  pos,        \* how many of them the transport has handed over
  rstate,     \* state: "Prefix", "Descriptor", "Buffer", "TensorReady", "Finished",
              \* "Failed" or "Unusable"
  rindex,     \* the buffer being filled, from 1, in rstate "Buffer"
  target,     \* length of the target being filled
  filled,     \* bytes of it already filled
  rstaging,   \* the filled part of staging
  pending,    \* <<>> or <<[id, buffers]>>: the tensor being assembled
  dest,       \* the filled part of the destination of buffer rindex
  ready,      \* <<>> or <<[id, buffers]>>: the tensor waiting to be taken
  delivered   \* history: the tensors take_tensor returned

coreVars == <<rstate, rindex, target, filled, rstaging, pending, dest, ready>>
rvars    == <<pos, rstate, rindex, target, filled, rstaging, pending, dest, ready,
              delivered>>

Tensor == [id : Ids, buffers : Seq(Seq(Byte))]

ReadInit ==
  /\ pos = 0 /\ rstate = "Prefix" /\ rindex = 0 /\ target = PrefixLen /\ filled = 0
  /\ rstaging = <<>> /\ pending = <<>> /\ dest = <<>> /\ ready = <<>> /\ delivered = <<>>

\* Mutant: a core that saw the end of input reads on.
Filling_past_the_end == rstate \in {"Prefix", "Descriptor", "Buffer", "Finished"}

Filling == rstate \in {"Prefix", "Descriptor", "Buffer"}

unfilled == IF Filling THEN target - filled ELSE 0

-----------------------------------------------------------------------------
\* StreamReaderCore::step

\* The bytes are the first n of one descriptor.
Aligned(bytes, n) ==
  \A k \in 1 .. n : bytes[k] = [id |-> bytes[1].id, part |-> 0, at |-> k]

\* The descriptor_length field of a complete prefix.  Bytes that are not the start of a
\* descriptor yield some value that no later check survives; 0 stands for all of them.
descriptor_length == IF Aligned(rstaging, PrefixLen) THEN Desc[rstaging[1].id].len ELSE 0

\* Mutant: the prefix is dropped from staging instead of being kept for decode.
StepPrefix_drops_prefix ==
  /\ rstate = "Prefix" /\ unfilled = 0
  /\ IF descriptor_length > PrefixLen /\ descriptor_length <= MaxDescriptorBytes
     THEN rstate' = "Descriptor" /\ target' = descriptor_length
     ELSE rstate' = "Failed" /\ UNCHANGED target
  /\ rstaging' = <<>>
  /\ UNCHANGED <<pos, rindex, filled, pending, dest, ready, delivered>>

\* begin_descriptor.  A declared length of exactly PrefixLen leaves nothing to fill, so
\* the same call goes on to decode and is refused as shorter than the fixed header.
StepPrefix ==
  /\ rstate = "Prefix" /\ unfilled = 0
  /\ IF descriptor_length > PrefixLen /\ descriptor_length <= MaxDescriptorBytes
     THEN rstate' = "Descriptor" /\ target' = descriptor_length
     ELSE rstate' = "Failed" /\ UNCHANGED target
  /\ UNCHANGED <<pos, rindex, filled, rstaging, pending, dest, ready, delivered>>

\* The checks of begin_buffer, and the allocator's answer.
Refused(h) == \/ CrossMachine /\ ~ h.synced
              \/ h.size > MaxBufferBytes
              \/ ~ h.allocatable

\* The buffers from number `from` on that begin_buffer refuses or that want bytes; it
\* passes over the others, which are empty.
Stops(id, from) ==
  {k \in from .. Len(Desc[id].bufs) : Refused(Desc[id].bufs[k]) \/ Desc[id].bufs[k].size > 0}

\* The buffers so far, and an empty one for each buffer passed over before number n.
PassedTo(buffers, n) == buffers \o [k \in 1 .. n - 1 - Len(buffers) |-> <<>>]

\* begin_buffer and, while buffers are empty, finish_buffer and begin_buffer of the next
\* one: stop at the first buffer that is refused or wants bytes, else complete_tensor.
BeginBuffers(id, buffers) ==
  LET table == Desc[id].bufs
      stops == Stops(id, Len(buffers) + 1)
  IN  \/ /\ stops = {}
         /\ rstate' = "TensorReady"
         /\ ready' = <<[id |-> id, buffers |-> PassedTo(buffers, Len(table) + 1)]>>
         /\ pending' = <<>> /\ dest' = <<>>
         /\ UNCHANGED <<rindex, target, filled>>
      \/ \E k \in stops :
           /\ \A l \in stops : k <= l
           /\ pending' = <<[id |-> id, buffers |-> PassedTo(buffers, k)]>>
           /\ dest' = <<>>
           /\ UNCHANGED ready
           /\ \/ /\ Refused(table[k])
                 /\ rstate' = "Failed"
                 /\ UNCHANGED <<rindex, target, filled>>
              \/ /\ ~ Refused(table[k])
                 /\ rstate' = "Buffer" /\ rindex' = k
                 /\ target' = table[k].size /\ filled' = 0

\* decode_descriptor
StepDescriptor ==
  /\ rstate = "Descriptor" /\ unfilled = 0
  /\ \/ /\ ~ (Aligned(rstaging, target) /\ Decodable(rstaging[1].id))
        /\ rstate' = "Failed"
        /\ UNCHANGED <<rindex, target, filled, pending, dest, ready>>
     \/ /\ Aligned(rstaging, target) /\ Decodable(rstaging[1].id)
        /\ BeginBuffers(rstaging[1].id, <<>>)
  /\ UNCHANGED <<pos, rstaging, delivered>>

\* Mutant: a buffer is frozen after its first read.
StepBuffer_after_first_read ==
  /\ rstate = "Buffer" /\ filled > 0
  /\ BeginBuffers(pending[1].id, Append(pending[1].buffers, dest))
  /\ UNCHANGED <<pos, rstaging, delivered>>

\* finish_buffer
StepBuffer ==
  /\ rstate = "Buffer" /\ unfilled = 0
  /\ BeginBuffers(pending[1].id, Append(pending[1].buffers, dest))
  /\ UNCHANGED <<pos, rstaging, delivered>>

-----------------------------------------------------------------------------
\* report_filled, with the read it reports

\* The transport read n bytes into input_dst and the driver reports n.
report_filled(n) ==
  /\ Filling
  /\ n \in 1 .. unfilled /\ pos + n <= Len(wire)
  /\ pos' = pos + n
  /\ filled' = filled + n
  /\ IF rstate = "Buffer"
     THEN dest' = dest \o SubSeq(wire, pos + 1, pos + n) /\ UNCHANGED rstaging
     ELSE rstaging' = rstaging \o SubSeq(wire, pos + 1, pos + n) /\ UNCHANGED dest
  /\ UNCHANGED <<rstate, rindex, target, pending, ready, delivered>>

\* Mutant: end of input inside a prefix passes for a clean end.
ReportEof_clean_in_prefix ==
  /\ Filling /\ unfilled > 0
  /\ eof /\ pos = Len(wire)
  /\ rstate' = IF rstate = "Prefix" THEN "Finished" ELSE "Failed"
  /\ UNCHANGED <<pos, rindex, target, filled, rstaging, pending, dest, ready, delivered>>

\* Mutant: end of input is only looked for between frames.
ReportEof_between_frames ==
  /\ rstate = "Prefix" /\ unfilled > 0
  /\ eof /\ pos = Len(wire)
  /\ rstate' = IF filled = 0 THEN "Finished" ELSE "Failed"
  /\ UNCHANGED <<pos, rindex, target, filled, rstaging, pending, dest, ready, delivered>>

\* A read of zero bytes: end of input, clean only before the first byte of a frame.
ReportEof ==
  /\ Filling /\ unfilled > 0
  /\ eof /\ pos = Len(wire)
  /\ rstate' = IF rstate = "Prefix" /\ filled = 0 THEN "Finished" ELSE "Failed"
  /\ UNCHANGED <<pos, rindex, target, filled, rstaging, pending, dest, ready, delivered>>

\* More bytes reported than offered: m of them were really read, the position is lost.
OverReport(m) ==
  /\ Filling
  /\ m \in 0 .. unfilled /\ pos + m <= Len(wire)
  /\ pos' = pos + m
  /\ rstate' = "Unusable"
  /\ UNCHANGED <<rindex, target, filled, rstaging, pending, dest, ready, delivered>>

\* mark_unusable, in any state.
MarkUnusable(m) ==
  /\ m \in 0 .. unfilled /\ pos + m <= Len(wire)
  /\ pos' = pos + m
  /\ rstate' = "Unusable"
  /\ UNCHANGED <<rindex, target, filled, rstaging, pending, dest, ready, delivered>>

take_tensor ==
  /\ rstate = "TensorReady"
  /\ delivered' = delivered \o ready
  /\ ready' = <<>>
  /\ rstate' = "Prefix" /\ target' = PrefixLen /\ filled' = 0 /\ rstaging' = <<>>
  /\ UNCHANGED <<pos, rindex, pending, dest>>

ReadStep == StepPrefix \/ StepDescriptor \/ StepBuffer

ReadNext ==
  \/ ReadStep
  \/ \E n \in 1 .. unfilled : report_filled(n)
  \/ ReportEof
  \/ \E m \in 0 .. unfilled : OverReport(m) \/ MarkUnusable(m)
  \/ take_tensor

-----------------------------------------------------------------------------
\* The core on its own: a transport whose content is fixed.

CONSTANT Wires     \* the byte sequences a transport may hold

ASSUME WiresAssumption == \A w \in Wires : w \in Seq(Byte)

Init == wire \in Wires /\ eof = TRUE /\ ReadInit
Next == ReadNext /\ UNCHANGED <<wire, eof>>
vars == <<wire, eof, pos, rstate, rindex, target, filled, rstaging, pending, dest, ready,
          delivered>>

Spec == Init /\ [][Next]_vars

\* A driver loop steps, reads and takes whenever it can.
Fairness ==
  /\ WF_rvars(ReadStep) /\ WF_rvars(take_tensor) /\ WF_rvars(ReportEof)
  /\ WF_rvars(\E n \in 1 .. unfilled : report_filled(n))
FairSpec == Spec /\ Fairness

-----------------------------------------------------------------------------
TypeOK ==
  /\ wire \in Seq(Byte) /\ eof \in BOOLEAN
  /\ pos \in 0 .. Len(wire)
  /\ rstate \in {"Prefix", "Descriptor", "Buffer", "TensorReady", "Finished", "Failed",
                 "Unusable"}
  /\ rindex \in Nat /\ target \in Nat /\ filled \in Nat
  /\ rstaging \in Seq(Byte) /\ dest \in Seq(Byte)
  /\ pending \in Seq(Tensor) /\ Len(pending) <= 1
  /\ ready \in Seq(Tensor) /\ Len(ready) <= 1
  /\ delivered \in Seq(Tensor)
  /\ Filling => filled <= target

\* A tensor has one buffer per handle, each of the handle's byte_size.
Whole(t) ==
  /\ Len(t.buffers) = Len(Desc[t.id].bufs)
  /\ \A i \in DOMAIN t.buffers : Len(t.buffers[i]) = Desc[t.id].bufs[i].size

\* take_tensor: "The tensor is handed over only once every one of its buffers is full, so
\* a partially filled destination is never observable", however the reads were cut.
OnlyWholeTensors ==
  /\ \A i \in DOMAIN delivered : Whole(delivered[i])
  /\ ready # <<>> => Whole(ready[1])

\* The wire image of a tensor as it was received.
Image(t) == encode(t.id) \o Joined(t.buffers)
Images(ts) == Joined([i \in DOMAIN ts |-> Image(ts[i])])

\* The bytes of the frame in progress, wherever the core keeps them.
InProgress ==
  IF rstate \in {"Prefix", "Descriptor"} \/ pending = <<>> THEN rstaging
  ELSE rstaging \o Joined(pending[1].buffers) \o dest

\* Every byte the transport handed over is held exactly once and in order, in a tensor
\* delivered, the one ready, or the one in progress: no short read, resumption or frame
\* boundary loses or repeats a byte.
NoByteLost ==
  rstate # "Unusable" =>
    SubSeq(wire, 1, pos) = Images(delivered) \o (IF rstate = "TensorReady" THEN Images(ready)
                                                 ELSE InProgress)

\* A clean end is announced only when the whole input was delivered: a stream cut inside a
\* frame is always an error.
CleanEndIsWhole == rstate = "Finished" => wire = Images(delivered)

\* Nothing of the input is lost on its way through the reader, and none of it is left over
\* at a clean end.
ReadIsFaithful == NoByteLost /\ CleanEndIsWhole

\* Finished, failed and unusable cores deliver nothing more, ever.
EndsForGood ==
  [][(rstate \in {"Finished", "Failed", "Unusable"}) =>
       (rstate' \in {rstate, "Unusable"} /\ delivered' = delivered)]_vars
=============================================================================
