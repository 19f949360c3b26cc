--------------------------- MODULE DescriptorCodec ---------------------------
(***************************************************************************)
(* hurray-core/src/descriptor: TensorDescriptor::new, encode and decode,   *)
(* byte for byte.                                                          *)
(*                                                                         *)
(* A descriptor is a record with the fields of the Rust struct.  Options   *)
(* are <<>> or <<value>>, enums are their bytes, and the quantization      *)
(* section is the byte string the struct keeps.                            *)
(***************************************************************************)
EXTENDS Quantization

CONSTANT MAX_RANK

ASSUME MaxRankAssumption == MAX_RANK \in Nat

MAGIC == <<72, 82, 82, 89>>        \* "HRRY"
DESCRIPTOR_VERSION_MAJOR == 1
DESCRIPTOR_VERSION_MINOR == 0
PREFIX_LEN         == 6 + U32      \* magic, versions and descriptor_length
MIN_DESCRIPTOR_LEN == 8 + 3 * U32  \* the fixed header

TagOf == [RowMajor |-> 1, ColMajor |-> 2, Strided |-> 3, Tiled |-> 4, Morton |-> 5,
          Coo |-> 6, Csr |-> 7, Csc |-> 8, Csf |-> 9, BlockPaged |-> 10,
          Composite |-> 11, Hilbert |-> 64]

\* LayoutDescriptor::tag
layout_tag(l) == IF l.kind \in {"PrivateExtension", "Unknown"} THEN l.tag ELSE TagOf[l.kind]

OPEN_COMPOSITE   == U32Max
LAYER_INDEX_NONE == U32Max

IsHead(d) == d.layout.kind = "Composite"

-----------------------------------------------------------------------------
(* layout_codec.rs                                                         *)

encode_tiled(t) ==
  Each(write_u64_le, t.tile_shape) \o <<t.outer_layout, t.inner_layout>> \o write_zeros(2)
    \o Opt(LAMBDA s : Each(write_i64_le, s), t.outer_strides)
    \o Opt(LAMBDA s : Each(write_i64_le, s), t.inner_strides)

\* CompositionRule::rule_byte and combine_op_byte
rule_byte(rule) == CASE rule = "Partition" -> 1 [] rule = "Overlay" -> 2 [] rule = "Group" -> 3

encode_block_paged(l) ==
  write_u32_le(l.page_size) \o write_u64_le(l.num_pages) \o write_u32_le(l.paged_axis)
    \o write_u32_le(l.num_seqs) \o <<l.kv_role>>
    \o write_u32_le(IF l.layer_index = <<>> THEN LAYER_INDEX_NONE ELSE l.layer_index[1])
    \o <<l.index_type>> \o write_zeros(6)

\* Whether encode_layout_payload succeeds.
layout_encodable(l, rank) ==
  /\ l.kind # "Unknown"
  /\ l.kind = "Csf" => Len(l.mode_order) = rank
  /\ l.kind = "Tiled" => Len(l.levels) <= MaxTiledDepth

encode_layout_payload(l) ==
  CASE l.kind \in {"RowMajor", "ColMajor"} -> <<>>
    [] l.kind = "Strided"   -> Each(write_i64_le, l.strides)
    [] l.kind = "Tiled"     -> Each(encode_tiled, l.levels)
    [] l.kind = "Morton"    -> Each(write_u32_le, l.bits)
    [] l.kind = "Coo"       -> write_u64_le(l.nnz) \o <<Flag(l.is_sorted)>> \o write_zeros(7)
    [] l.kind \in {"Csr", "Csc"} -> write_u64_le(l.nnz) \o write_zeros(8)
    [] l.kind = "Csf"       -> write_u64_le(l.nnz) \o Each(write_u32_le, l.mode_order)
                                 \o write_zeros(8)
    [] l.kind = "BlockPaged" -> encode_block_paged(l)
    [] l.kind = "Composite" -> <<rule_byte(l.rule), l.combine_op>> \o write_zeros(2)
                                 \o write_u32_le(l.member_count)
    [] l.kind = "Hilbert"   -> write_u32_le(l.order) \o write_u32_le(l.rank)
    [] l.kind = "PrivateExtension" ->
         write_u64_le(l.id) \o write_u32_le(Len(l.data)) \o l.data

\* One level of decode_tiled.  val becomes <<levels so far, whether one more follows>>.
decode_tiled_level(c, rank) ==
  LET r  == Read(c, Times(Num(U64), rank) \o <<U8, U8, Raw(2)>>)
      z  == Check(r, AllZero(r.val[rank + 3]), "ReservedBytesNonZero")
      outer == r.val[rank + 1]
      inner == r.val[rank + 2]
      n  == Flag(outer = TAG_STRIDED) + Flag(inner = TAG_STRIDED)
      s  == IF Good(z) THEN Read(z, Times(I64, n * rank)) ELSE z
      Strides(i) == SubSeq(s.val, (i - 1) * rank + 1, i * rank)
  IN  Yield(s, <<Append(c.val[1],
                   [tile_shape    |-> SubSeq(r.val, 1, rank),
                    outer_layout  |-> outer,
                    inner_layout  |-> inner,
                    outer_strides |-> IF outer = TAG_STRIDED THEN <<Strides(1)>> ELSE <<>>,
                    inner_strides |-> IF inner = TAG_STRIDED THEN <<Strides(n)>> ELSE <<>>]),
                 inner = TAG_TILED>>)

NextLevel(c, rank) == IF Good(c) /\ c.val[2] THEN decode_tiled_level(c, rank) ELSE c

TakeTiled(chain) ==
  Yield(Check(Check(chain, ~ chain.val[2], "SubpavingNestingTooDeep"),
              Good(chain) => TiledLayout_new(chain.val[1]), "InvalidLayout"),
        [kind |-> "Tiled", levels |-> chain.val[1]])

decode_tiled(c, rank) ==
  LET level[k \in 0 .. MaxTiledDepth] ==
        IF k = 0 THEN Yield(c, <<<<>>, TRUE>>) ELSE NextLevel(level[k - 1], rank)
  IN  TakeTiled(level[MaxTiledDepth])

decode_strided(c, rank) ==
  LET r == Read(c, Times(I64, rank)) IN Yield(r, [kind |-> "Strided", strides |-> r.val])

decode_morton(c, rank) ==
  LET r == Read(c, Times(Num(U32), rank))
  IN  Yield(Check(r, MortonLayout_new(r.val), "InvalidLayout"),
            [kind |-> "Morton", bits |-> r.val])

decode_coo(c) ==
  LET r == Read(c, <<Num(U64), U8, Raw(7)>>)
  IN  Yield(Check(r, AllZero(r.val[3]), "ReservedBytesNonZero"),
            [kind |-> "Coo", nnz |-> r.val[1], is_sorted |-> r.val[2] # 0])

\* decode_csr and decode_csc
decode_compressed(c, kind) ==
  LET r == Read(c, <<Num(U64), Raw(8)>>)
  IN  Yield(Check(r, AllZero(r.val[2]), "ReservedBytesNonZero"),
            [kind |-> kind, nnz |-> r.val[1]])

decode_csf(c, rank) ==
  LET r    == Read(c, <<Num(U64)>> \o Times(Num(U32), rank) \o <<Raw(8)>>)
      mode == SubSeq(r.val, 2, rank + 1)
  IN  Yield(Check(Check(r, AllZero(r.val[rank + 2]), "ReservedBytesNonZero"),
                  mode_order_ok(mode, rank), "InvalidLayout"),
            [kind |-> "Csf", nnz |-> r.val[1], mode_order |-> mode])

decode_block_paged(c) ==
  LET r == Read(c, <<Num(U32), Num(U64), Num(U32), Num(U32), U8, Num(U32), U8, Raw(6)>>)
      v == r.val
  IN  Yield(Check(Check(r, v[5] \in 0 .. 2 /\ v[7] \in 0 .. 1, "InvalidLayout"),
                  AllZero(v[8]), "ReservedBytesNonZero"),
            [kind |-> "BlockPaged", page_size |-> v[1], num_pages |-> v[2],
             paged_axis |-> v[3], num_seqs |-> v[4], kv_role |-> v[5],
             layer_index |-> IF v[6] = LAYER_INDEX_NONE THEN <<>> ELSE <<v[6]>>,
             index_type |-> v[7]])

\* CompositionRule::from_wire and CompositeLayout::new
decode_composite(c) ==
  LET r == Read(c, <<U8, U8, Raw(2), Num(U32)>>)
      v == r.val
  IN  Yield(Check(Check(Check(r, AllZero(v[3]), "ReservedBytesNonZero"),
                        <<v[1], v[2]>> \in {<<1, 0>>, <<2, 1>>, <<2, 2>>, <<3, 0>>},
                        "InvalidCompositionRule"),
                  v[4] # OPEN_COMPOSITE, "OpenCompositeReserved"),
            [kind |-> "Composite", rule |-> <<"Partition", "Overlay", "Group">>[v[1]],
             combine_op |-> v[2], member_count |-> v[4]])

decode_hilbert(c) ==
  LET r == Read(c, Times(Num(U32), 2))
  IN  Yield(Check(r, HilbertLayout_new(r.val[1], r.val[2]), "InvalidLayout"),
            [kind |-> "Hilbert", order |-> r.val[1], rank |-> r.val[2]])

decode_private_extension(c, tag) ==
  LET r == Read(c, <<Num(U64), Num(U32)>>)
      b == IF Good(r) THEN Read(r, <<Raw(r.val[2])>>) ELSE r
  IN  Yield(b, [kind |-> "PrivateExtension", tag |-> tag, id |-> r.val[1],
                data |-> b.val[1]])

decode_layout_payload(c, tag, rank) ==
  IF ~ Good(c) THEN c
  ELSE CASE tag \in {1, 2} -> Yield(c, [kind |-> <<"RowMajor", "ColMajor">>[tag]])
         [] tag = TagOf.Strided    -> decode_strided(c, rank)
         [] tag = TagOf.Tiled      -> decode_tiled(c, rank)
         [] tag = TagOf.Morton     -> decode_morton(c, rank)
         [] tag = TagOf.Coo        -> decode_coo(c)
         [] tag = TagOf.Csr        -> decode_compressed(c, "Csr")
         [] tag = TagOf.Csc        -> decode_compressed(c, "Csc")
         [] tag = TagOf.Csf        -> decode_csf(c, rank)
         [] tag = TagOf.BlockPaged -> decode_block_paged(c)
         [] tag = TagOf.Composite  -> decode_composite(c)
         [] tag = TagOf.Hilbert    -> decode_hilbert(c)
         [] tag \in ExtensionTags  -> decode_private_extension(c, tag)
         [] OTHER                  -> Check(c, FALSE, "LayoutTag")

-----------------------------------------------------------------------------
(* The optional sections                                                   *)

\* ShardDescriptor::validate_against_shape, with saturating_add
shard_fits(s, shape) ==
  \A k \in DOMAIN s.parent_shape :
     (IF s.shard_offset[k] + shape[k] > WordMax THEN WordMax
      ELSE s.shard_offset[k] + shape[k]) <= s.parent_shape[k]

encode_shard(s) == Each(write_u64_le, s.parent_shape) \o Each(write_u64_le, s.shard_offset)

decode_shard(c, rank) ==
  LET r == Read(c, Times(Num(U64), 2 * rank))
  IN  Yield(r, [parent_shape |-> SubSeq(r.val, 1, rank),
                shard_offset |-> SubSeq(r.val, rank + 1, 2 * rank)])

\* Statistics: six f64 in `values`, the pair nm, and two flags.
encode_statistics(s) ==
  write_u32_le(s.mask) \o write_zeros(U32) \o write_u64_le(s.nnz)
    \o Each(write_u64_le, s.values) \o s.nm \o <<Flag(s.has_nan), Flag(s.has_inf)>>
    \o write_zeros(4)

decode_statistics(c) ==
  LET r == Read(c, <<Num(U32), Num(U32), Num(U64)>> \o Times(Num(U64), 6)
                     \o Times(U8, 4) \o <<Raw(4)>>)
      v == r.val
  IN  Yield(Check(Check(r, v[1] < 64, "StatisticsReservedMaskBitsSet"),
                  v[2] = 0 /\ AllZero(v[14]), "ReservedBytesNonZero"),
            [mask |-> v[1], nnz |-> v[3], values |-> SubSeq(v, 4, 9),
             nm |-> <<v[10], v[11]>>, has_nan |-> v[12] # 0, has_inf |-> v[13] # 0])

\* validate_packing
validate_packing(e) ==
  \/ e.bit_width >= 8 /\ e.packing_factor = 1
  \/ e.bit_width \in {1, 2, 4} /\ e.packing_factor = 8 \div e.bit_width

\* validate_fields, which the constructor calls and decode_from does not.
validate_fields(e) ==
  /\ e.sign_bits <= 1
  /\ IF e.is_float THEN ~ e.is_signed
     ELSE <<e.sign_bits, e.exponent_bits, e.mantissa_bits, e.exponent_bias>> = <<0, 0, 0, 0>>

encode_ext_type(e) ==
  write_u32_le(e.bit_width) \o <<e.packing_factor, Flag(e.is_float), Flag(e.is_signed),
      e.sign_bits, e.exponent_bits, e.mantissa_bits>> \o write_zeros(2)
    \o write_u32_le(e.exponent_bias) \o <<Flag(e.has_nan), Flag(e.has_inf)>> \o write_zeros(2)

decode_ext_type(c) ==
  LET r == Read(c, <<Num(U32)>> \o Times(U8, 6) \o <<Raw(2), Num(U32), U8, U8, Raw(2)>>)
      v == r.val
      e == [bit_width |-> v[1], packing_factor |-> v[2], is_float |-> v[3] # 0,
            is_signed |-> v[4] # 0, sign_bits |-> v[5], exponent_bits |-> v[6],
            mantissa_bits |-> v[7], exponent_bias |-> v[9], has_nan |-> v[10] # 0,
            has_inf |-> v[11] # 0]
  IN  Yield(Check(Check(r, validate_packing(e), "ExtensionTypePackingInvalid"),
                  AllZero(v[8]) /\ AllZero(v[12]), "ReservedBytesNonZero"), e)

\* CompositeMemberDescriptor: the role, Correction 0 or Base 1.
encode_composite_member(role) == <<role>> \o write_zeros(15)

decode_composite_member(c) ==
  LET r == Read(c, <<U8, Raw(15)>>)
  IN  Yield(Check(Check(r, r.val[1] \in {0, 1}, "InvalidMemberRole"),
                  AllZero(r.val[2]), "ReservedBytesNonZero"), r.val[1])

-----------------------------------------------------------------------------
(* TensorDescriptor                                                        *)

\* The quantization of a block-paged tensor is decoded to check it against the pages.
paged_quant_ok(l, q) ==
  /\ Good(q)
  /\ validate_quantization_compatibility(l,
       <<"PerTensorAffine", "PerChannelAffine", "PerBlockAffine", "Nf4", "Mxfp">>[q.val.tag],
       IF q.val.tag = PerTensor THEN 0 ELSE q.val.axis,
       IF q.val.tag \in {PerTensor, PerChannel} THEN 0 ELSE q.val.block_size)

\* TensorDescriptor::new
new(d) ==
  /\ IF IsHead(d)
     THEN d.buffers = <<>> /\ d.byte_offset = 0 /\ d.quantization = <<>>
     ELSE d.buffers # <<>>
  /\ Len(d.buffers) <= 255
  /\ (d.element_type \in ExtensionTags) <=> (d.extension_type # <<>>)
  /\ d.shard # <<>> => /\ Len(d.shard[1].parent_shape) = Len(d.shape)
                       /\ d.layout.kind \notin {"BlockPaged", "Csf"}
  /\ (d.layout.kind = "BlockPaged" /\ d.quantization # <<>>) =>
        paged_quant_ok(d.layout, quant_decode(d.quantization[1]))

\* flags: quantization, shard, extension type, statistics, composite member
flags(d) ==
  Flag(d.quantization # <<>>) + 2 * Flag(d.shard # <<>>) + 4 * Flag(d.extension_type # <<>>)
    + 8 * Flag(d.statistics # <<>>) + 16 * Flag(d.composite_member # <<>>)

HasFlag(f, bit) == (f \div 2^bit) % 2 = 1

\* encode fails on a layout without a wire form and on a head with a member section.
encodable(d) ==
  /\ layout_encodable(d.layout, Len(d.shape))
  /\ Len(d.buffers) <= 255
  /\ ~ (IsHead(d) /\ d.composite_member # <<>>)

encode_buffer(b) ==
  write_u64_le(b.byte_size) \o write_u32_le(b.alignment)
    \o <<b.device_tag, b.sync_mode, b.memory_class, 0>>

\* Mutant: the statistics are written before the shard.
encode_body_swapped(d) ==
  write_u32_le(flags(d)) \o <<d.element_type, layout_tag(d.layout)>>
    \o write_u32_le(Len(d.shape)) \o Each(write_u64_le, d.shape)
    \o write_u64_le(d.byte_offset) \o encode_layout_payload(d.layout)
    \o <<Len(d.buffers)>> \o Each(encode_buffer, d.buffers)
    \o Opt(LAMBDA q : write_u32_le(Len(q)) \o q, d.quantization)
    \o Opt(encode_statistics, d.statistics)
    \o Opt(encode_shard, d.shard)
    \o Opt(encode_ext_type, d.extension_type)
    \o Opt(encode_composite_member, d.composite_member)

\* The sections after descriptor_length, in their order on the wire.
encode_body(d) ==
  write_u32_le(flags(d)) \o <<d.element_type, layout_tag(d.layout)>>
    \o write_u32_le(Len(d.shape)) \o Each(write_u64_le, d.shape)
    \o write_u64_le(d.byte_offset) \o encode_layout_payload(d.layout)
    \o <<Len(d.buffers)>> \o Each(encode_buffer, d.buffers)
    \o Opt(LAMBDA q : write_u32_le(Len(q)) \o q, d.quantization)
    \o Opt(encode_shard, d.shard)
    \o Opt(encode_statistics, d.statistics)
    \o Opt(encode_ext_type, d.extension_type)
    \o Opt(encode_composite_member, d.composite_member)

encode(d) ==
  LET body == encode_body(d)
  IN  MAGIC \o <<d.version_major, d.version_minor>>
        \o write_u32_le(PREFIX_LEN + Len(body)) \o body

decode_buffer(c) ==
  LET r == Read(c, <<Num(U64), Num(U32), U8, U8, U8, U8>>)
      v == r.val
      b == [byte_size |-> v[1], alignment |-> v[2], device_tag |-> v[3],
            sync_mode |-> v[4], memory_class |-> v[5]]
  IN  Yield(Check(Check(Check(r, v[6] = 0, "ReservedBytesNonZero"),
                        device_tag_ok(v[3]) /\ sync_mode_ok(v[4]) /\ memory_class_ok(v[5]),
                        "BufferTag"),
                  with_memory_class(b), "BufferHandle"), b)

TakeBuffer(c, seq) == Yield(c, Append(seq, c.val))

BUFFER_ENTRY_LEN == U64 + U32 + 4

\* n buffer entries one after the other.  The first entry that is not there ends the loop
\* with an error, so no more than one of those has to be tried.
decode_buffers(c, n) ==
  LET r[k \in 0 .. n] ==
        IF k = 0 THEN Yield(c, <<>>)
        ELSE LET p == r[k - 1] IN IF Good(p) THEN TakeBuffer(decode_buffer(p), p.val) ELSE p
      there == (Len(c.data) - c.pos) \div BUFFER_ENTRY_LEN
  IN  r[IF n <= there THEN n ELSE there + 1]

decode_quantization(c) ==
  LET n == Read(c, <<Num(U32)>>)
      b == IF Good(n) THEN Read(n, <<Raw(n.val[1])>>) ELSE n
  IN  Yield(b, b.val[1])

\* Mutant: a descriptor may end before its length.
ends_ok_at_most(c, minor, length) == c.pos <= length

\* Mutant: the length is checked whatever the minor version.
ends_ok_always(c, minor, length) == c.pos = length

\* The minor version may add fields at the end that this reader skips; a descriptor of
\* this version ends where its length says.
ends_ok(c, minor, length) == minor = DESCRIPTOR_VERSION_MINOR => c.pos = length

\* Mutant: a head may be a member.
member_section_ok_any(d) == TRUE

\* A head carries no Composite Member section.
member_section_ok(d) == ~ (IsHead(d) /\ d.composite_member # <<>>)

\* The state of decode: the cursor, the header fields that steer it, and the descriptor so
\* far.  A step that fails leaves its fault in the cursor and the rest does nothing.
Keep(s, field, c) ==
  [s EXCEPT !.c = c, !.d = IF Good(c) THEN [@ EXCEPT ![field] = c.val] ELSE @]

\* An optional section: <<>> when its flag is clear.
Optional(present, c, r) ==
  IF ~ present THEN Yield(c, <<>>) ELSE Yield(r, <<r.val>>)

Section(s, bit, field, r) ==
  IF Good(s.c) THEN Keep(s, field, Optional(HasFlag(s.flags, bit), s.c, r)) ELSE s

\* The flags, element type, layout tag and rank of the fixed header.
TakeHeader(c, s) ==
  IF ~ Good(c) THEN [s EXCEPT !.c = c]
  ELSE [s EXCEPT !.c = Check(Check(Check(c, c.val[2] < 32, "ReservedDescriptorFlagBitsSet"),
                                   element_type_ok(c.val[3]), "TypeTag"),
                             c.val[5] <= MAX_RANK, "RankExceedsMaximum"),
                 !.flags = c.val[2], !.layout_tag = c.val[4], !.rank = c.val[5],
                 !.d.element_type = c.val[3]]

ReadHeader(s) ==
  TakeHeader(IF Good(s.c) THEN Read(s.c, <<Raw(PREFIX_LEN), Num(U32), U8, U8, Num(U32)>>)
             ELSE s.c, s)

\* The dimensions and the byte offset.
TakeShape(c, s) ==
  [s EXCEPT !.c = c,
            !.d = IF Good(c) THEN [@ EXCEPT !.shape = SubSeq(c.val, 1, s.rank),
                                            !.byte_offset = c.val[s.rank + 1]] ELSE @]

ReadShape(s) ==
  IF Good(s.c) THEN TakeShape(Read(s.c, Times(Num(U64), s.rank + 1)), s) ELSE s

ReadLayout(s) == Keep(s, "layout", decode_layout_payload(s.c, s.layout_tag, s.rank))

\* The buffer table, empty for a head only.
TakeBuffers(c, s) ==
  IF Good(c) /\ (c.val[1] # 0 \/ IsHead(s.d))
  THEN Keep(s, "buffers", decode_buffers(c, c.val[1]))
  ELSE [s EXCEPT !.c = Check(c, FALSE, "EmptyBufferTable")]

ReadBuffers(s) ==
  IF ~ Good(s.c) THEN s
  ELSE IF (s.d.element_type \in ExtensionTags) # HasFlag(s.flags, 2)
  THEN [s EXCEPT !.c = Check(@, FALSE, "ExtensionTypeFlagMismatch")]
  ELSE TakeBuffers(Read(s.c, <<U8>>), s)

\* The shard must lie inside the tensor it is a part of.
CheckShard(s) ==
  IF Good(s.c) /\ s.d.shard # <<>>
  THEN [s EXCEPT !.c = Check(@, shard_fits(s.d.shard[1], s.d.shape), "ShardOutOfBounds")]
  ELSE s

\* The five optional sections, in their order on the wire.
TakeQuantization(s) == Section(s, 0, "quantization", decode_quantization(s.c))
TakeShard(s)        == CheckShard(Section(s, 1, "shard", decode_shard(s.c, s.rank)))
TakeStatistics(s)   == Section(s, 3, "statistics", decode_statistics(s.c))
TakeExtType(s)      == Section(s, 2, "extension_type", decode_ext_type(s.c))
TakeMember(s)       == Section(s, 4, "composite_member", decode_composite_member(s.c))

\* The end of the descriptor, and the checks of TensorDescriptor::new.
ReadEnd(s, length) ==
  IF ~ Good(s.c) THEN s.c
  ELSE Yield(Check(Check(Check(s.c, ends_ok(s.c, s.d.version_minor, length),
                               "DescriptorLengthMismatch"),
                         new(s.d), "TensorDescriptor::new"),
                   member_section_ok(s.d), "InvalidLayout"), s.d)

\* decode of at least a prefix: a cursor whose val is the descriptor, or whose err is
\* the first fault.
decode_from_prefix(bytes, length) ==
  LET start == ByteCursor(bytes, IF length < Len(bytes) THEN length ELSE Len(bytes))
      c == Check(Check(Check(start, SubSeq(bytes, 1, 4) = MAGIC, "InvalidMagic"),
                       bytes[5] <= DESCRIPTOR_VERSION_MAJOR, "UnsupportedDescriptorVersion"),
                 length >= MIN_DESCRIPTOR_LEN, "DescriptorTooShort")
      s == [c |-> c, flags |-> 0, layout_tag |-> 0, rank |-> 0,
            d |-> [version_major |-> bytes[5], version_minor |-> bytes[6],
                   element_type |-> 0, shape |-> <<>>, byte_offset |-> 0, layout |-> <<>>,
                   buffers |-> <<>>, quantization |-> <<>>, shard |-> <<>>,
                   statistics |-> <<>>, extension_type |-> <<>>, composite_member |-> <<>>]]
      payload == ReadBuffers(ReadLayout(ReadShape(ReadHeader(s))))
  IN  ReadEnd(TakeMember(TakeExtType(TakeStatistics(TakeShard(TakeQuantization(
                   payload))))), length)

decode(bytes) ==
  IF Len(bytes) < PREFIX_LEN
  THEN Check(ByteCursor(bytes, 0), FALSE, "DescriptorTruncated")
  ELSE decode_from_prefix(bytes, Value(Num(U32), SubSeq(bytes, 7, PREFIX_LEN)))
=============================================================================
