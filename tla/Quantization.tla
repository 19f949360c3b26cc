---------------------------- MODULE Quantization ----------------------------
(***************************************************************************)
(* hurray-core/src/quantization: the five schemes, their constructors,     *)
(* their wire form and the checks against a tensor.                        *)
(*                                                                         *)
(* A scheme is a record with its tag and its fields; zp is the Option of   *)
(* the zero point buffer.  An f32 is its bits.                             *)
(***************************************************************************)
EXTENDS Wire

PerTensor  == 1
PerChannel == 2
PerBlock   == 3
Nf4        == 4
Mxfp       == 5

SENTINEL == U32Max            \* 0xFFFFFFFF: no buffer

SUPPORTED_VERSION == 1        \* of every scheme

\* f32: one sign bit, eight exponent bits.
is_finite(x) == (x \div 2^(8 * U32 - 9)) % 256 # 255
is_zero(x)   == x % 2^(8 * U32 - 1) = 0

MinBlock(tag) == CASE tag = PerBlock -> 2 [] tag = Nf4 -> 8 [] tag = Mxfp -> 16
MaxBlock(tag) == IF tag = Mxfp THEN 2048 ELSE U32Max

validate_block_size(tag, n) == PowerOfTwo(n) /\ n \in MinBlock(tag) .. MaxBlock(tag)

\* The constructors.
quant_new(q) ==
  CASE q.tag = PerTensor  -> is_finite(q.scale) /\ ~ is_zero(q.scale)
    [] q.tag = PerChannel -> q.scale_buf # SENTINEL
    [] q.tag = PerBlock   -> validate_block_size(q.tag, q.block_size) /\ q.scale_type \in 1 .. 3
    [] q.tag \in {Nf4, Mxfp} -> validate_block_size(q.tag, q.block_size)

\* header_version_and_flags: bit 0 says that there are no zero points.
quant_flags(q) == IF q.tag \in {PerChannel, PerBlock} /\ q.zp = <<>> THEN 1 ELSE 0

ZpWire(q) == IF q.zp = <<>> THEN SENTINEL ELSE q.zp[1]

\* encode_into; a u16 has two bytes.
quant_encode(q) ==
  <<q.tag, SUPPORTED_VERSION>> \o LE(2, quant_flags(q)) \o
  CASE q.tag = PerTensor ->
         write_u32_le(q.scale) \o write_u32_le(q.zero_point) \o write_zeros(4)
    [] q.tag = PerChannel ->
         write_u32_le(q.axis) \o write_u32_le(q.scale_buf) \o write_u32_le(ZpWire(q))
           \o <<3>> \o write_zeros(3)
    [] q.tag = PerBlock ->
         write_u32_le(q.axis) \o write_u32_le(q.block_size) \o write_u32_le(q.scale_buf)
           \o write_u32_le(ZpWire(q)) \o <<q.scale_type>> \o write_zeros(3)
    [] q.tag \in {Nf4, Mxfp} ->
         write_u32_le(q.axis) \o write_u32_le(q.block_size) \o write_u32_le(q.scale_buf)

\* The decode_payload of each scheme, the cursor standing after the header.
decode_per_tensor(c) ==
  LET r == Read(c, Times(Num(U32), 2) \o <<Raw(4)>>)
      q == [tag |-> PerTensor, scale |-> r.val[1], zero_point |-> r.val[2]]
  IN  Yield(Check(Check(r, AllZero(r.val[3]), "InvalidQuantization"),
                  quant_new(q), "InvalidQuantization"), q)

\* Mutant: the flag and the zero point buffer are not compared.
decode_per_channel_any_zp(c, symmetric) ==
  LET r  == Read(c, Times(Num(U32), 3) \o <<U8, Raw(3)>>)
      ok == r.val[2] # SENTINEL /\ r.val[4] = 3 /\ AllZero(r.val[5])
  IN  Yield(Check(r, ok, "InvalidQuantization"),
            [tag |-> PerChannel, axis |-> r.val[1], scale_buf |-> r.val[2],
             zp |-> IF symmetric THEN <<>> ELSE <<r.val[3]>>])

decode_per_channel(c, symmetric) ==
  LET r  == Read(c, Times(Num(U32), 3) \o <<U8, Raw(3)>>)
      ok == /\ r.val[2] # SENTINEL
            /\ r.val[4] = 3
            /\ AllZero(r.val[5])
            /\ symmetric <=> (r.val[3] = SENTINEL)
  IN  Yield(Check(r, ok, "InvalidQuantization"),
            [tag |-> PerChannel, axis |-> r.val[1], scale_buf |-> r.val[2],
             zp |-> IF symmetric THEN <<>> ELSE <<r.val[3]>>])

decode_per_block(c, symmetric) ==
  LET r  == Read(c, Times(Num(U32), 4) \o <<U8, Raw(3)>>)
      ok == /\ r.val[5] \in 1 .. 3
            /\ AllZero(r.val[6])
            /\ symmetric => r.val[4] = SENTINEL
  IN  Yield(Check(Check(r, validate_block_size(PerBlock, r.val[2]), "InvalidBlockSize"),
                  ok, "InvalidQuantization"),
            [tag |-> PerBlock, axis |-> r.val[1], block_size |-> r.val[2],
             scale_buf |-> r.val[3], zp |-> IF symmetric THEN <<>> ELSE <<r.val[4]>>,
             scale_type |-> r.val[5]])

decode_block_scaled(c, tag) ==
  LET r == Read(c, Times(Num(U32), 3))
  IN  Yield(Check(Check(r, validate_block_size(tag, r.val[2]), "InvalidBlockSize"),
                  r.val[3] # SENTINEL, "InvalidQuantization"),
            [tag |-> tag, axis |-> r.val[1], block_size |-> r.val[2], scale_buf |-> r.val[3]])

\* QuantizationDescriptor::decode: what follows the scheme is left unread.
quant_decode(bytes) ==
  LET h     == Read(ByteCursor(bytes, Len(bytes)), <<U8, U8, Num(2)>>)
      tag   == h.val[1]
      flags == h.val[3]
      c     == Check(Check(Check(h, tag \in PerTensor .. Mxfp, "QuantizationSchemeTag"),
                           h.val[2] <= SUPPORTED_VERSION, "UnsupportedSchemeVersion"),
                     flags \in (IF tag \in {PerChannel, PerBlock} THEN {0, 1} ELSE {0}),
                     "ReservedQuantizationFlagsBits")
  IN  IF ~ Good(c) THEN c
      ELSE CASE tag = PerTensor  -> decode_per_tensor(c)
             [] tag = PerChannel -> decode_per_channel(c, flags = 1)
             [] tag = PerBlock   -> decode_per_block(c, flags = 1)
             [] tag \in {Nf4, Mxfp} -> decode_block_scaled(c, tag)

-----------------------------------------------------------------------------
(* Against a tensor                                                        *)

validate_axis(axis, rank) == axis < rank

\* num_blocks_per_axis of the schemes with blocks.
num_blocks(q, size) == (size + q.block_size - 1) \div q.block_size

validate_against_shape_axis(q, size) ==
  IF q.tag = Mxfp THEN size > 0 /\ size % q.block_size = 0
  ELSE size # DYNAMIC /\ (size > 0 => q.block_size <= size)

param_buffer_indices(q) ==
  CASE q.tag = PerTensor -> <<>>
    [] q.tag \in {PerChannel, PerBlock} -> <<q.scale_buf>> \o q.zp
    [] q.tag \in {Nf4, Mxfp} -> <<q.scale_buf>>

\* Mutant: only the scale buffer is looked at.
validate_buffer_placement_scale_only(q, buffers, data) ==
  /\ data < Len(buffers)
  /\ \A i \in DOMAIN param_buffer_indices(q) :
       LET p == param_buffer_indices(q)[i]
       IN  i = 1 => p < Len(buffers) /\ p # data
                    /\ buffers[p + 1].device_tag = buffers[data + 1].device_tag

\* Parameters are in other buffers than the data, on the device of the data.
validate_buffer_placement(q, buffers, data) ==
  /\ data < Len(buffers)
  /\ \A i \in DOMAIN param_buffer_indices(q) :
       LET p == param_buffer_indices(q)[i]
       IN  p < Len(buffers) /\ p # data
           /\ buffers[p + 1].device_tag = buffers[data + 1].device_tag
=============================================================================
