------------------------ MODULE MCDescriptorExchange ------------------------
(***************************************************************************)
(* Descriptors with every layout, every optional section and combinations  *)
(* of them, and sections of files with every kind of value, with one-byte  *)
(* u16, two-byte u32 and three-byte u64.                                   *)
(***************************************************************************)
EXTENDS KvExchange

Buffer(size, align, device, sync, class) ==
  [byte_size |-> size, alignment |-> align, device_tag |-> device, sync_mode |-> sync,
   memory_class |-> class]
Cpu   == Buffer(192, 64, 0, 0, 0)
Empty == Buffer(0, 1, 0, 0, 0)
Gpu   == Buffer(192, 4096, 1, 2, 241)

Base == [version_major |-> 1, version_minor |-> 0, element_type |-> 3, shape |-> <<2, 3>>,
         byte_offset |-> 0, layout |-> [kind |-> "RowMajor"], buffers |-> <<Cpu>>,
         quantization |-> <<>>, shard |-> <<>>, statistics |-> <<>>,
         extension_type |-> <<>>, composite_member |-> <<>>]

With(layout, shape) == [Base EXCEPT !.layout = layout, !.shape = shape]

Level(shape, outer, inner) ==
  [tile_shape |-> shape, outer_layout |-> outer, inner_layout |-> inner,
   outer_strides |-> IF outer = TAG_STRIDED THEN <<<<-1, 2>>>> ELSE <<>>,
   inner_strides |-> IF inner = TAG_STRIDED THEN <<<<3, -4>>>> ELSE <<>>]

Paged(axis, page, layer) ==
  [kind |-> "BlockPaged", page_size |-> page, num_pages |-> 5, paged_axis |-> axis,
   num_seqs |-> 2, kv_role |-> 2, layer_index |-> layer, index_type |-> 1]

CompositeHead(rule, op) == [With([kind |-> "Composite", rule |-> rule, combine_op |-> op,
                         member_count |-> 2], <<2, 3>>) EXCEPT !.buffers = <<>>]

Shard(p, o) == <<[parent_shape |-> p, shard_offset |-> o]>>
Stats == <<[mask |-> 63, nnz |-> 5, values |-> <<1, 2, 3, 4, 5, 6>>, nm |-> <<2, 4>>,
            has_nan |-> TRUE, has_inf |-> FALSE]>>
Ext(bits, packing) ==
  <<[bit_width |-> bits, packing_factor |-> packing, is_float |-> TRUE, is_signed |-> FALSE,
     sign_bits |-> 1, exponent_bits |-> 5, mantissa_bits |-> 2, exponent_bias |-> 15,
     has_nan |-> TRUE, has_inf |-> TRUE]>>

Layouts3 ==
  {With([kind |-> "ColMajor"], <<>>),
   With([kind |-> "Strided", strides |-> <<-3, 1>>], <<2, DYNAMIC>>),
   With([kind |-> "Tiled", levels |-> <<Level(<<2, 2>>, 3, 3)>>], <<2, 3>>),
   With([kind |-> "Tiled", levels |-> <<Level(<<4, 4>>, 1, 4), Level(<<2, 2>>, 2, 3)>>], <<4, 4>>),
   With([kind |-> "Morton", bits |-> <<1, 2>>], <<2, 3>>),
   With([kind |-> "Coo", nnz |-> 4, is_sorted |-> TRUE], <<2, 3>>),
   With([kind |-> "Csr", nnz |-> 4], <<2, 3>>),
   With([kind |-> "Csc", nnz |-> 4], <<2, 3>>),
   With([kind |-> "Csf", nnz |-> 4, mode_order |-> <<2, 0, 1>>], <<2, 3, 4>>),
   With(Paged(0, 4, <<7>>), <<8, 2, 2>>), With(Paged(0, 4, <<>>), <<8, 2, 2>>),
   With([kind |-> "Hilbert", order |-> 1, rank |-> 2], <<2, 2>>),
   With([kind |-> "PrivateExtension", tag |-> 240, id |-> 9, data |-> <<1, 2>>], <<2>>),
   With([kind |-> "Unknown", tag |-> 13], <<2>>),
   CompositeHead("Partition", 0), CompositeHead("Overlay", 2), CompositeHead("Group", 0)}

Sections ==
  {[Base EXCEPT !.shard = Shard(<<4, 6>>, <<2, 3>>), !.statistics = Stats,
                !.composite_member = <<1>>],
   [Base EXCEPT !.element_type = 240, !.extension_type = Ext(8, 1), !.statistics = Stats],
   [Base EXCEPT !.element_type = 254, !.extension_type = Ext(4, 2),
                !.buffers = <<Gpu, Empty>>],
   [Base EXCEPT !.composite_member = <<0>>, !.byte_offset = 64],
   [Base EXCEPT !.version_major = 0]}

\* Accepted by neither new nor encode.
Refused ==
  {[Base EXCEPT !.buffers = <<>>], [CompositeHead("Group", 0) EXCEPT !.buffers = <<Cpu>>],
   [CompositeHead("Group", 0) EXCEPT !.composite_member = <<0>>],
   [Base EXCEPT !.extension_type = Ext(8, 1)],
   [With(Paged(0, 4, <<>>), <<8, 2, 2>>) EXCEPT !.shard = Shard(<<8, 2, 2>>, <<0, 0, 0>>)]}

Channel(axis, scale, zp) == [tag |-> PerChannel, axis |-> axis, scale_buf |-> scale, zp |-> zp]
Block(axis, size, scale, zp) ==
  [tag |-> PerBlock, axis |-> axis, block_size |-> size, scale_buf |-> scale, zp |-> zp,
   scale_type |-> 3]
Scaled(tag, size) == [tag |-> tag, axis |-> 1, block_size |-> size, scale_buf |-> 1]

Quantized(q, shape, buffers) ==
  [Base EXCEPT !.quantization = <<quant_encode(q)>>, !.shape = shape, !.buffers = buffers]

Three == <<Cpu, Cpu, Cpu>>
Quantizations ==
  {Quantized([tag |-> PerTensor, scale |-> 16256, zero_point |-> 7], <<2, 3>>, <<Cpu>>),
   Quantized(Channel(1, 1, <<2>>), <<2, 3>>, Three),
   Quantized(Channel(0, 1, <<>>), <<2, 3>>, Three),
   Quantized(Block(1, 4, 1, <<2>>), <<2, 9>>, Three),
   Quantized(Block(1, 4, 1, <<0>>), <<2, 9>>, <<Cpu, Cpu>>),
   Quantized(Block(1, 2, 1, <<2>>), <<2, 3>>, <<Gpu, Gpu, Cpu>>),
   Quantized(Scaled(Nf4, 8), <<2, 20>>, <<Cpu, Cpu>>),
   Quantized(Scaled(Mxfp, 16), <<1, 32>>, <<Cpu, Cpu>>),
   Quantized(Scaled(Mxfp, 16), <<1, 33>>, <<Cpu, Cpu>>)}
  \cup {[With(Paged(0, 4, <<>>), <<8, 2, 2>>) EXCEPT !.buffers = Three,
                                                     !.quantization = <<quant_encode(q)>>] :
          q \in {Channel(1, 1, <<>>), Channel(0, 1, <<>>), Block(0, 4, 1, <<2>>)}}

\* Descriptors that contradict themselves in ways new does not look at.
Incoherent ==
  {With([kind |-> "Strided", strides |-> <<1>>], <<2, 3>>),
   With([kind |-> "Csr", nnz |-> 4], <<2, 3, 4>>),
   With([kind |-> "Hilbert", order |-> 1, rank |-> 3], <<2, 2>>),
   With(Paged(0, 4, <<LAYER_INDEX_NONE>>), <<8, 2, 2>>),
   [Base EXCEPT !.shard = Shard(<<2, 3>>, <<1, 0>>)]}

MCDescriptors  == Layouts3 \cup Sections \cup Refused \cup Quantizations \cup Incoherent
MCReplacements == {0, 1, 2, 16, 255}
MCTrailer      == write_zeros(16)

-----------------------------------------------------------------------------
E1(key, value) == [key |-> key, value |-> value]
Large == 2^(WordBits - 1)

Scalar == <<Kv(String, <<65, 66>>), Kv(Int64, <<-3>>), Kv(Uint64, <<Large>>), Kv(Uint64, <<9>>),
            Kv(Float, <<16256>>), Kv(Bool, <<1>>), Kv(Bytes, <<255, 0>>)>>
Lists == <<KvArray(<<Kv(Bool, <<1>>), Kv(Bool, <<0>>)>>), KvArray(<<Kv(String, <<>>), Kv(String, <<67>>)>>),
           KvArray(<<Kv(Uint64, <<1>>), Kv(Uint64, <<2>>)>>)>>

\* Pairs of values of every kind next to each other, keys of one and two letters.
Good2 ==
  {<<E1(<<97>>, Scalar[i]), E1(<<97, 98>>, Lists[j])>> : i \in DOMAIN Scalar, j \in DOMAIN Lists}
  \cup {<<E1(<<97>>, Lists[1]), E1(<<98>>, Lists[2]), E1(<<99>>, Lists[3])>>}
Bad2 ==
  {<<E1(<<97>>, KvArray(<<>>))>>, <<E1(<<97>>, KvArray(<<Scalar[2], Scalar[3]>>))>>,
   <<E1(<<97>>, KvArray(<<Lists[1]>>))>>, <<E1(<<>>, Scalar[6])>>,
   <<E1(<<97>>, Scalar[6]), E1(<<97>>, Scalar[2])>>,
   <<E1([i \in 1 .. U16Max + 1 |-> 97], Scalar[6])>>}

C(kind) == [HurrayKvValue EXCEPT !.kind = kind]
Table(items, entries) ==
  [items |-> items,
   entries |-> [i \in DOMAIN entries |->
      [key |-> <<entries[i].key>>, key_len |-> Len(entries[i].key), value |-> entries[i].value]]]
ArrayAt(p, n) == [C(Array) EXCEPT !.items = p, !.item_count = n]
Text(b, n)    == [C(String) EXCEPT !.data = b, !.data_len = n]
Items2        == <<[C(Int64) EXCEPT !.i64_value = 5], [C(Int64) EXCEPT !.i64_value = -6], C(Array)>>

\* Fields that the kind does not select are set; elements shared by two arrays; nulls.
CTables ==
  {Table(Items2, <<E1(<<97>>, ArrayAt(1, 2)), E1(<<98>>, ArrayAt(2, 1)),
                   E1(<<99>>, [Text(<<<<65, 255>>>>, 1) EXCEPT !.u64_value = 7])>>),
   Table(Items2, <<E1(<<97>>, ArrayAt(1, 3))>>), Table(Items2, <<E1(<<97>>, ArrayAt(0, 2))>>),
   Table(Items2, <<E1(<<97>>, ArrayAt(0, 0))>>), Table(Items2, <<E1(<<97>>, Text(<<>>, 2))>>),
   Table(Items2, <<E1(<<97>>, Text(<<>>, 0))>>), Table(Items2, <<E1(<<97>>, C(0))>>),
   Table(Items2, <<E1(<<97>>, Text(<<<<65, 255>>>>, 2))>>)}

S(b) == Py("str", b)
Dicts ==
  {<<E1(S(<<97>>), Py("bool", <<1>>)), E1(S(<<98>>), Py("int", <<-1>>)),
     E1(S(<<99>>), PyList(<<Py("bool", <<0>>), Py("bool", <<1>>)>>))>>,
   <<E1(S(<<97>>), Py("float", <<16256>>)), E1(S(<<98>>), S(<<65>>)), E1(S(<<99>>), Py("bytes", <<255>>))>>,
   <<E1(S(<<97>>), Py("int", <<Large>>))>>, <<E1(S(<<97>>), PyList(<<>>))>>,
   <<E1(S(<<97>>), PyList(<<PyList(<<Py("int", <<1>>)>>)>>))>>,
   <<E1(S(<<97>>), PyList(<<Py("int", <<1>>), Py("bool", <<1>>)>>))>>,
   <<E1(S(<<97>>), Py("dict", <<>>))>>, <<E1(Py("int", <<1>>), Py("int", <<1>>))>>,
   <<E1(S(<<97>>), S(<<255>>))>>}

Entry(name, at) == [name |-> name, descriptor_offset |-> at, descriptor_length |-> 70,
                    data_offset |-> at + 128, data_length |-> 192]
Indexes == {<<>>, <<Entry(<<97>>, 64), Entry(<<97, 47, 48>>, 448)>>}

MCSources ==
  {[NoSource EXCEPT !.lang = "rust", !.rust = g] : g \in Good2 \cup Bad2}
  \cup {[NoSource EXCEPT !.lang = "c", !.c = g] : g \in CTables}
  \cup {[NoSource EXCEPT !.lang = "python", !.python = g] : g \in Dicts}
  \cup {[NoSource EXCEPT !.lang = "index", !.index = g] : g \in Indexes}
MCSectionBytes == {0, 1, 2, 6, 7, 97, 255}
=============================================================================
