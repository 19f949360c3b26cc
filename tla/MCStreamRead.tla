---------------------------- MODULE MCStreamRead ----------------------------
(* The read core over well-formed, malformed and truncated transports. *)
EXTENDS StreamRead, MCData

ReadDesc ==
  [a    |-> Dense(3, <<Buf(1)>>),
   b    |-> Dense(4, <<Buf(0), Buf(2), Buf(0)>>),
   grp1 |-> HeadD(3, "Group", 1, <<1>>),
   short |-> Dense(2, <<Buf(1)>>),                             \* nothing past the prefix
   long |-> Dense(5, <<Buf(1)>>),                              \* over max_descriptor_bytes
   bare |-> Dense(3, <<>>),                                    \* EmptyBufferTable
   far  |-> Dense(3, <<Buf(1), [Buf(1) EXCEPT !.synced = FALSE]>>),
   fat  |-> Dense(3, <<Buf(0), Buf(9)>>),                      \* over max_buffer_bytes
   oom  |-> Dense(3, <<[Buf(1) EXCEPT !.allocatable = FALSE]>>)]

\* The bytes of a frame.
Frame(id) == encode(id) \o FlattenSeq([i \in DOMAIN ReadDesc[id].bufs |->
                                         Payload(id, i, ReadDesc[id].bufs[i].size)])
Good == {"a", "b", "grp1"}
FrameSeqs == {<<x, y>> : x \in Good, y \in DOMAIN ReadDesc}
Streams == {FlattenSeq([i \in DOMAIN s |-> Frame(s[i])]) : s \in FrameSeqs}
\* Every truncation, and a stream that lost its first byte.
MCWires == UNION {{SubSeq(w, 1, n) : n \in 0 .. Len(w)} : w \in Streams}
             \cup {Tail(Frame("a") \o Frame("b"))}

\* With a driver that loses no count, a stream of acceptable frames is delivered whole.
Acceptable == {FlattenSeq([i \in DOMAIN s |-> Frame(s[i])]) : s \in {<<x, y>> : x, y \in Good}}
EventuallyDelivered ==
  (wire \in Acceptable) ~> (rstate = "Unusable" \/ (rstate = "Finished" /\ Images(delivered) = wire))
=============================================================================
