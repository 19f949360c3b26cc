------------------------- MODULE DescriptorExchange -------------------------
(***************************************************************************)
(* A descriptor on its way: a producer builds and encodes it, the bytes    *)
(* arrive whole, cut short, with one byte changed, or from a producer of a *)
(* newer minor version with fields this reader does not know; a relay      *)
(* decodes them and encodes the result again for a last consumer, who      *)
(* applies the checks the core offers before it touches the data.          *)
(***************************************************************************)
EXTENDS DescriptorCodec

CONSTANTS Descriptors,    \* what producers may build
          Replacements,   \* bytes a changed byte may become
          Trailer         \* what a newer minor version appends

VARIABLES desc,      \* the producer's descriptor
          wire,      \* the bytes as they arrived
          fate,      \* "built", "refused", "sent", "intact", "cut", "altered", "newer"
          got,       \* what the relay decoded: <<>> or <<cursor>>
          again,     \* what the consumer decoded from the relay: <<>> or <<cursor>>
          admitted   \* "pending", "yes" or "no"

vars == <<desc, wire, fate, got, again, admitted>>

Init ==
  /\ desc \in Descriptors
  /\ wire = <<>> /\ fate = "built" /\ got = <<>> /\ again = <<>> /\ admitted = "pending"

\* TensorDescriptor::new and encode
Send ==
  /\ fate = "built"
  /\ IF constructible(desc.layout) /\ new(desc) /\ encodable(desc)
     THEN wire' = encode(desc) /\ fate' = "sent"
     ELSE wire' = <<>> /\ fate' = "refused"
  /\ UNCHANGED <<desc, got, again, admitted>>

Arrive ==
  /\ fate = "sent" /\ fate' = "intact"
  /\ UNCHANGED <<desc, wire, got, again, admitted>>

Cut ==
  /\ fate = "sent" /\ fate' = "cut"
  /\ \E n \in 0 .. Len(wire) - 1 : wire' = SubSeq(wire, 1, n)
  /\ UNCHANGED <<desc, got, again, admitted>>

Alter ==
  /\ fate \in {"sent", "newer"} /\ got = <<>> /\ fate' = "altered"
  /\ \E i \in DOMAIN wire, b \in Replacements :
        b # wire[i] /\ wire' = [wire EXCEPT ![i] = b]
  /\ UNCHANGED <<desc, got, again, admitted>>

\* The same descriptor from a producer of minor version 1, whole or cut.
Newer ==
  /\ fate = "sent" /\ fate' = "newer"
  /\ LET body == encode_body(desc) \o Trailer
         full == MAGIC \o <<desc.version_major, DESCRIPTOR_VERSION_MINOR + 1>>
                   \o write_u32_le(PREFIX_LEN + Len(body)) \o body
     IN  \E n \in {Len(full), Len(full) - Len(Trailer) - 1} : wire' = SubSeq(full, 1, n)
  /\ UNCHANGED <<desc, got, again, admitted>>

Relay ==
  /\ fate \in {"intact", "cut", "altered", "newer"} /\ got = <<>>
  /\ got' = <<decode(wire)>>
  /\ UNCHANGED <<desc, wire, fate, again, admitted>>

Received == got # <<>> /\ Good(got[1])
Decoded  == got[1].val

Forward ==
  /\ Received /\ again = <<>>
  /\ again' = <<IF encodable(Decoded) THEN decode(encode(Decoded))
                ELSE Check(got[1], FALSE, "encode")>>
  /\ UNCHANGED <<desc, wire, fate, got, admitted>>

\* What a careful consumer checks: the layout, and the quantization parameters with the
\* data in buffer 0.
Usable(d) ==
  /\ validate_against_shape(d.layout, d.shape)
  /\ d.quantization # <<>> =>
       LET q == quant_decode(d.quantization[1])
       IN  /\ Good(q)
           /\ q.val.tag # PerTensor => validate_axis(q.val.axis, Len(d.shape))
           /\ q.val.tag \in {PerBlock, Nf4, Mxfp} =>
                validate_against_shape_axis(q.val, d.shape[q.val.axis + 1])
           /\ validate_buffer_placement(q.val, d.buffers, 0)

Admit ==
  /\ again # <<>> /\ Good(again[1]) /\ admitted = "pending"
  /\ admitted' = IF Usable(again[1].val) THEN "yes" ELSE "no"
  /\ UNCHANGED <<desc, wire, fate, got, again>>

Next == Send \/ Arrive \/ Cut \/ Alter \/ Newer \/ Relay \/ Forward \/ Admit

Spec == Init /\ [][Next]_vars

-----------------------------------------------------------------------------
(* Properties                                                              *)

Whole == fate \in {"intact", "cut", "altered", "newer"}

\* No action leaves the cursor past its limit, and a refused descriptor is never sent.
TypeOK ==
  /\ fate \in {"built", "refused", "sent", "intact", "cut", "altered", "newer"}
  /\ admitted \in {"pending", "yes", "no"}
  /\ fate \in {"built", "refused"} => wire = <<>> /\ got = <<>>
  /\ got # <<>> => got[1].pos <= got[1].limit /\ got[1].limit <= Len(wire)

\* A descriptor that agrees with its own shape: what new does not check.
Coherent(d) ==
  /\ validate_against_shape(d.layout, d.shape)
  /\ d.shard # <<>> => shard_fits(d.shard[1], d.shape)
  /\ d.layout.kind = "BlockPaged" => d.layout.layer_index # <<LAYER_INDEX_NONE>>

\* A coherent descriptor comes back as it was sent, with every section, whichever of
\* them are present together (encode.rs, decode.rs and the codecs they call).
RoundTrip ==
  (fate = "intact" /\ got # <<>> /\ Coherent(desc)) => Received /\ Decoded = desc

\* A descriptor of this version that lost bytes is refused, wherever it was cut
\* (cursor.rs read_bytes, and the length check at the end of decode.rs).
CutIsRefused == (fate = "cut" /\ got # <<>>) => ~ Received

\* No byte is ignored: a wire that decodes is the encoding of what it decoded to, except
\* for bytes read as `!= 0`, of which 1 is the spelling that encode writes (decode.rs;
\* the reserved-bytes and reserved-bits checks of every section).
OneSpelling ==
  (fate \in {"intact", "altered"} /\ Received /\ Decoded.version_minor = 0) =>
     LET w == encode(Decoded)
     IN  /\ Len(w) = Len(wire)
         /\ \A i \in DOMAIN w : w[i] = wire[i] \/ (w[i] = 1 /\ wire[i] > 1)

\* Whatever bytes a relay accepted, it can encode what it holds, and the consumer behind
\* it decodes exactly that (encode.rs against decode.rs, over every accepted wire).
RelayKeepsMeaning == again # <<>> => Good(again[1]) /\ again[1].val = Decoded

\* Fields that a newer minor version appends do not disturb the known ones; cut inside
\* the known ones, the descriptor is refused (decode.rs, the length check).
NewerIsReadable ==
  (fate = "newer" /\ got # <<>> /\ Coherent(desc)) =>
     IF Len(wire) > Len(encode(desc))
     THEN Received /\ Decoded = [desc EXCEPT !.version_minor = 1]
     ELSE ~ Received

\* What a descriptor says survives the wire: sent as it is, with fields of a newer minor
\* version behind it, and through a relay.
MeaningSurvives == RoundTrip /\ NewerIsReadable /\ RelayKeepsMeaning

SameReading(c) == (Received <=> Good(c)) /\ (Received => Decoded = c.val)

\* The bytes after descriptor_length belong to someone else: they never change what is
\* decoded (decode.rs: the limit of the cursor).
NothingBeyondLength ==
  (Whole /\ got # <<>> /\ Len(wire) >= PREFIX_LEN) =>
     LET n == Value(Num(U32), SubSeq(wire, 7, PREFIX_LEN))
     IN  n < Len(wire) => SameReading(decode(SubSeq(wire, 1, n)))

\* A wire has one reading: the cursor stays inside it, a cut one has none, no byte of it is
\* ignored and no byte behind it counts.
OneReading == TypeOK /\ CutIsRefused /\ OneSpelling /\ NothingBeyondLength

\* A quantization section that decodes is one a constructor builds, and encodes back to
\* the bytes it came from, apart from an older scheme version (quantization/*.rs:
\* decode_payload against new and encode_payload).
QuantizationSurvives ==
  (Received /\ Decoded.quantization # <<>>) =>
     LET b == Decoded.quantization[1]
         q == quant_decode(b)
         w == quant_encode(q.val)
     IN  Good(q) => /\ quant_new(q.val)
                    /\ Len(w) <= Len(b)
                    /\ \A i \in DOMAIN w : w[i] = b[i] \/ i = 2

\* An admitted tensor has the parameters of each of its elements: the block an index
\* falls in is one of the blocks that are stored, in buffers that exist, are not the
\* data, and are on its device (quantization/mod.rs validate_buffer_placement,
\* validate_against_shape_axis).
ParametersAreReachable ==
  (admitted = "yes" /\ again[1].val.quantization # <<>>) =>
     LET d == again[1].val
         q == quant_decode(d.quantization[1]).val
         blocks == num_blocks(q, d.shape[q.axis + 1])
     IN  /\ q.tag \in {PerBlock, Nf4, Mxfp} =>
              \A i \in 0 .. d.shape[q.axis + 1] - 1 : i \div q.block_size < blocks
         /\ \A k \in DOMAIN param_buffer_indices(q) :
              LET p == param_buffer_indices(q)[k] + 1
              IN  p \in DOMAIN d.buffers \ {1}
                  /\ d.buffers[p].device_tag = d.buffers[1].device_tag

\* A quantization section can be used by whoever admits the tensor: it is one a constructor
\* builds, and every parameter it names is there.
QuantizationIsUsable == QuantizationSurvives /\ ParametersAreReachable

\* What hurray-core/src/layout/mod.rs:498 says: the tensor descriptor checks its layout
\* against its shape.
DecodedLayoutFitsShape ==
  Received => validate_against_shape(Decoded.layout, Decoded.shape)
=============================================================================
