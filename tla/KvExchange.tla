----------------------------- MODULE KvExchange -----------------------------
(***************************************************************************)
(* The sections behind the tensors of a file, byte by byte: the key-values *)
(* and the index (hurray-io/src/file/sans_io/sections.rs), with the        *)
(* key-values as C structs (hurray-ffi/src/file/kv.rs) and as Python       *)
(* objects (hurray-python/src/file_io.rs).  Then such a section on its     *)
(* way: a Rust, C or Python writer is given it, the section is read whole, *)
(* cut short or with one byte changed, and a tool that rewrites the file   *)
(* hands what it read to the writer of its own language.  Beside it, a     *)
(* descriptor on its way.                                                  *)
(*                                                                         *)
(* A u16 has U16 bytes (2 in the code).  Text is a sequence of one-byte    *)
(* characters; 255 stands for what is not UTF-8.  A KvValue is its wire    *)
(* tag, the bytes or the number it holds (a float64 is its bits), and the  *)
(* elements of an array.                                                   *)
(***************************************************************************)
EXTENDS DescriptorExchange

CONSTANT U16

ASSUME KeyLengthWidth == U16 \in Nat \ {0}

String == 1
Int64  == 2
Uint64 == 3
Float  == 4
Bool   == 5
Bytes  == 6
Array  == 7

Kv(tag, v)  == [tag |-> tag, val |-> v, items |-> <<>>]
KvArray(vs) == [tag |-> Array, val |-> <<>>, items |-> vs]
utf8(b)     == \A i \in DOMAIN b : b[i] < 128
U16Max      == 256^U16 - 1
I64Range    == -(2^(WordBits - 1)) .. 2^(WordBits - 1) - 1

-----------------------------------------------------------------------------
(* Encoding                                                                *)

\* Mutant: a key of any length is written.
validate_kv_keys_any_length(kv) ==
  /\ \A i \in DOMAIN kv : kv[i].key # <<>>
  /\ \A i, j \in DOMAIN kv : kv[i].key = kv[j].key => i = j

validate_kv_keys(kv) ==
  /\ \A i \in DOMAIN kv : kv[i].key # <<>> /\ Len(kv[i].key) <= U16Max
  /\ \A i, j \in DOMAIN kv : kv[i].key = kv[j].key => i = j

\* The arrays encode_kv_payload refuses: empty, nested, mixed.
kv_encodable(v) ==
  v.tag = Array =>
    /\ v.items # <<>>
    /\ \A i \in DOMAIN v.items : v.items[i].tag = v.items[1].tag /\ v.items[i].tag # Array

encode_scalar(v) ==
  CASE v.tag \in {String, Bytes} -> write_u32_le(Len(v.val)) \o v.val
    [] v.tag = Int64             -> write_i64_le(v.val[1])
    [] v.tag \in {Uint64, Float} -> write_u64_le(v.val[1])
    [] v.tag = Bool              -> v.val

\* Mutant: every element of an array has its tag in front.
encode_kv_payload_tagged(v) ==
  IF v.tag # Array THEN encode_scalar(v)
  ELSE <<v.items[1].tag>> \o write_u32_le(Len(v.items))
         \o FlattenSeq([i \in DOMAIN v.items |-> <<v.items[i].tag>> \o encode_scalar(v.items[i])])

encode_kv_payload(v) ==
  IF v.tag # Array THEN encode_scalar(v)
  ELSE <<v.items[1].tag>> \o write_u32_le(Len(v.items)) \o Each(encode_scalar, v.items)

encode_kv_entry(e) ==
  LE(U16, Len(e.key)) \o e.key \o <<e.value.tag>> \o encode_kv_payload(e.value)

encode_kv_section(kv) == write_u32_le(Len(kv)) \o Each(encode_kv_entry, kv)

encode_index_entry(e) ==
  LE(U16, Len(e.name)) \o e.name
    \o write_u64_le(e.descriptor_offset) \o write_u32_le(e.descriptor_length)
    \o write_u64_le(e.data_offset) \o write_u64_le(e.data_length) \o write_zeros(U32)

encode_index_section(entries) == write_u64_le(Len(entries)) \o Each(encode_index_entry, entries)

-----------------------------------------------------------------------------
(* Parsing: read_u16 ... read_bytes_slice are the reads of a cursor that   *)
(* is limited by the section                                               *)

section_cursor(bytes) == ByteCursor(bytes, Len(bytes))

\* What is done with the last read, when it was good.
First(r)        == Yield(r, r.val[1])
AsText(r)       == Check(r, utf8(r.val), "InvalidHeader")
AsFlag(r)       == Check(r, r.val[1] \in {0, 1}, "InvalidHeader")
AsKv(tag, r)    == Yield(r, Kv(tag, r.val))
AsArray(r)      == Yield(r, KvArray(r.val))
NotEmpty(r, e)  == Check(r, r.val # <<>>, e)
Push(before, r) == Yield(r, Append(before, r.val))

\* A length of n bytes and as many bytes.
Sized(len)      == IF Good(len) THEN First(Read(len, <<Raw(len.val[1])>>)) ELSE len
ReadSized(c, n) == Sized(Read(c, <<Num(n)>>))

ReadName(c, e) == AsText(NotEmpty(ReadSized(c, U16), e))

parse_scalar(tag, c) ==
  CASE tag = String -> AsKv(tag, AsText(ReadSized(c, U32)))
    [] tag = Int64  -> AsKv(tag, Read(c, <<I64>>))
    [] tag \in {Uint64, Float} -> AsKv(tag, Read(c, <<Num(U64)>>))
    [] tag = Bool   -> AsKv(tag, AsFlag(Read(c, <<U8>>)))
    [] tag = Bytes  -> AsKv(tag, ReadSized(c, U32))
    [] OTHER        -> Check(c, FALSE, "InvalidHeader")

\* The loops stop at the first error; the cursor holds what they pushed.
RECURSIVE parse_elements(_, _, _)
parse_elements(tag, c, n) ==
  IF ~ Good(c) \/ n = 0 THEN c
  ELSE parse_elements(tag, Push(c.val, parse_scalar(tag, c)), n - 1)

parse_array(head) ==
  IF ~ Good(head) THEN head
  ELSE IF head.val[1] > Bytes THEN Check(head, FALSE, "InvalidHeader")
  ELSE AsArray(parse_elements(head.val[1], Yield(head, <<>>), head.val[2]))

parse_kv_value(tag, c) ==
  IF tag = Array THEN parse_array(Read(c, <<U8, Num(U32)>>)) ELSE parse_scalar(tag, c)

\* Mutant: keys may repeat.
new_key_any(r, before) == r

new_key(r, before) == Check(r, \A i \in DOMAIN before : before[i].key # r.val, "DuplicateKvKey")

tagged_value(tag) == IF Good(tag) THEN parse_kv_value(tag.val[1], tag) ELSE tag
key_value(key, r) == Yield(r, [key |-> key, value |-> r.val])
value_of(key)     == IF Good(key) THEN key_value(key.val, tagged_value(Read(key, <<U8>>))) ELSE key
parse_kv_entry(c) == value_of(new_key(ReadName(c, "KvKeyEmpty"), c.val))

RECURSIVE parse_kv_entries(_, _)
parse_kv_entries(c, n) ==
  IF ~ Good(c) \/ n = 0 THEN c ELSE parse_kv_entries(Push(c.val, parse_kv_entry(c)), n - 1)

kv_of_count(r)  == IF Good(r) THEN parse_kv_entries(Yield(r, <<>>), r.val[1]) ELSE r
parse_kv(bytes) == kv_of_count(Read(section_cursor(bytes), <<Num(U32)>>))

new_name(r, before) ==
  Check(r, \A i \in DOMAIN before : before[i].name # r.val, "DuplicateTensorName")

\* The last number is the reserved flags.
IndexEntry(name, r) ==
  Yield(r, [name |-> name, descriptor_offset |-> r.val[1], descriptor_length |-> r.val[2],
            data_offset |-> r.val[3], data_length |-> r.val[4]])

range_of(name) ==
  IF Good(name)
  THEN IndexEntry(name.val, Read(name, <<Num(U64), Num(U32), Num(U64), Num(U64), Num(U32)>>))
  ELSE name

parse_index_entry(c) == range_of(new_name(ReadName(c, "TensorNameEmpty"), c.val))

RECURSIVE parse_index_entries(_, _)
parse_index_entries(c, n) ==
  IF ~ Good(c) \/ n = 0 THEN c ELSE parse_index_entries(Push(c.val, parse_index_entry(c)), n - 1)

index_of_count(r)  == IF Good(r) THEN parse_index_entries(Yield(r, <<>>), r.val[1]) ELSE r
parse_index(bytes) == index_of_count(Read(section_cursor(bytes), <<Num(U64)>>))

-----------------------------------------------------------------------------
(* C structs.  A pointer to bytes is <<>> when null; a pointer to items is *)
(* 0 when null, else a place in a sequence of structs.                     *)

HurrayKvValue ==
  [kind |-> 0, bool_value |-> 0, i64_value |-> 0, u64_value |-> 0, f64_value |-> 0,
   data |-> <<>>, data_len |-> 0, items |-> 0, item_count |-> 0]

scalar_to_c(v) ==
  LET k == [HurrayKvValue EXCEPT !.kind = v.tag]
  IN  CASE v.tag \in {String, Bytes} -> [k EXCEPT !.data = <<v.val>>, !.data_len = Len(v.val)]
        [] v.tag = Int64  -> [k EXCEPT !.i64_value = v.val[1]]
        [] v.tag = Uint64 -> [k EXCEPT !.u64_value = v.val[1]]
        [] v.tag = Float  -> [k EXCEPT !.f64_value = v.val[1]]
        [] v.tag = Bool   -> [k EXCEPT !.bool_value = v.val[1]]
        [] OTHER          -> HurrayKvValue

\* KvTable::new: the elements of every array in one vector, and entries that point into it.
Elements(kv) ==
  [i \in DOMAIN kv |-> IF kv[i].value.tag # Array THEN <<>>
                       ELSE [j \in DOMAIN kv[i].value.items |-> scalar_to_c(kv[i].value.items[j])]]

\* Mutant: every array begins where the vector does.
span_start_at_base(kv, i) == 1
span_start(kv, i) == Len(FlattenSeq(SubSeq(Elements(kv), 1, i - 1))) + 1

KvTable(kv) ==
  [items   |-> FlattenSeq(Elements(kv)),
   entries |-> [i \in DOMAIN kv |->
      [key |-> <<kv[i].key>>, key_len |-> Len(kv[i].key),
       value |-> IF kv[i].value.tag = Array
                 THEN [HurrayKvValue EXCEPT !.kind = Array, !.items = span_start(kv, i),
                                            !.item_count = Len(kv[i].value.items)]
                 ELSE scalar_to_c(kv[i].value)]]]

\* What a conversion returns: a value, or a status.
Done(v) == [err |-> "none", val |-> v]
Fail(e) == [err |-> e, val |-> <<>>]

\* The first error of a sequence of results, else all the values.
Collect(rs) ==
  LET bad == SelectSeq(rs, LAMBDA r : r.err # "none")
  IN  IF bad # <<>> THEN bad[1] ELSE Done([i \in DOMAIN rs |-> rs[i].val])

bytes_from_c(ptr, len) ==
  IF len = 0 THEN Done(<<>>)
  ELSE IF ptr = <<>> THEN Fail("NULL_POINTER") ELSE Done(SubSeq(ptr[1], 1, len))

Utf8(r) == IF r.err = "none" /\ ~ utf8(r.val) THEN Fail("INVALID_FILE") ELSE r

str_from_c(ptr, len) == Utf8(bytes_from_c(ptr, len))

\* What is done with a result, when it is a value.
ToKv(kind, r) == IF r.err = "none" THEN Done(Kv(kind, r.val)) ELSE r
ToArray(r)    == IF r.err = "none" THEN Done(KvArray(r.val)) ELSE r

ToEntry(key, r) ==
  IF key.err # "none" THEN key
  ELSE IF r.err # "none" THEN r ELSE Done([key |-> key.val, value |-> r.val])

scalar_from_c(v) ==
  CASE v.kind = String -> ToKv(String, str_from_c(v.data, v.data_len))
    [] v.kind = Int64  -> Done(Kv(Int64, <<v.i64_value>>))
    [] v.kind = Uint64 -> Done(Kv(Uint64, <<v.u64_value>>))
    [] v.kind = Float  -> Done(Kv(Float, <<v.f64_value>>))
    [] v.kind = Bool   -> Done(Kv(Bool, <<v.bool_value>>))
    [] v.kind = Bytes  -> ToKv(Bytes, bytes_from_c(v.data, v.data_len))
    [] OTHER           -> Fail("INVALID_FILE")

\* A null pointer with no elements is an empty array, which the encoder refuses: a build
\* that checks from_raw_parts stops there instead, and neither writes a byte.
value_from_c(items, v) ==
  IF v.kind # Array THEN scalar_from_c(v)
  ELSE IF v.items = 0 /\ v.item_count > 0 THEN Fail("INVALID_FILE")
  ELSE ToArray(Collect([i \in 1 .. v.item_count |-> scalar_from_c(items[v.items + i - 1])]))

entry_from_c(items, e) == ToEntry(str_from_c(e.key, e.key_len), value_from_c(items, e.value))

kv_from_c(table) ==
  Collect([i \in DOMAIN table.entries |-> entry_from_c(table.items, table.entries[i])])

-----------------------------------------------------------------------------
(* Python objects: a type and what it holds; True and False are ints too   *)

Py(type, v) == [type |-> type, val |-> v, items |-> <<>>]
PyList(vs)  == [type |-> "list", val |-> <<>>, items |-> vs]

is_instance(v, type) == v.type = type \/ (type = "int" /\ v.type = "bool")

\* Mutant: int is asked for before bool.
py_scalar_int_first(v) ==
  CASE is_instance(v, "int")   -> IF v.val[1] \in I64Range THEN Done(Kv(Int64, v.val))
                                  ELSE Fail("OverflowError")
    [] is_instance(v, "float") -> Done(Kv(Float, v.val))
    [] is_instance(v, "str")   -> IF utf8(v.val) THEN Done(Kv(String, v.val))
                                  ELSE Fail("UnicodeEncodeError")
    [] is_instance(v, "bytes") -> Done(Kv(Bytes, v.val))
    [] OTHER                   -> Fail("FileError")

py_scalar(v) ==
  CASE is_instance(v, "bool")  -> Done(Kv(Bool, v.val))
    [] ~ is_instance(v, "bool") /\ is_instance(v, "int") ->
         IF v.val[1] \in I64Range THEN Done(Kv(Int64, v.val)) ELSE Fail("OverflowError")
    [] is_instance(v, "float") -> Done(Kv(Float, v.val))
    [] is_instance(v, "str")   -> IF utf8(v.val) THEN Done(Kv(String, v.val))
                                  ELSE Fail("UnicodeEncodeError")
    [] is_instance(v, "bytes") -> Done(Kv(Bytes, v.val))
    [] OTHER                   -> Fail("FileError")

RECURSIVE py_to_kv_value(_)
py_to_kv_value(v) ==
  IF v.type # "list" THEN py_scalar(v)
  ELSE IF v.items = <<>> THEN Fail("FileError")
  ELSE ToArray(Collect([i \in DOMAIN v.items |-> py_to_kv_value(v.items[i])]))

\* Mutant: a signed integer comes back as an unsigned one would.
kv_scalar_to_py_unsigned(v) ==
  CASE v.tag \in {Int64, Uint64} -> Py("int", <<AsU64(v.val[1])>>)
    [] v.tag = Bool   -> Py("bool", v.val)
    [] v.tag = Float  -> Py("float", v.val)
    [] v.tag = String -> Py("str", v.val)
    [] v.tag = Bytes  -> Py("bytes", v.val)

kv_scalar_to_py(v) ==
  CASE v.tag \in {Int64, Uint64} -> Py("int", v.val)
    [] v.tag = Bool   -> Py("bool", v.val)
    [] v.tag = Float  -> Py("float", v.val)
    [] v.tag = String -> Py("str", v.val)
    [] v.tag = Bytes  -> Py("bytes", v.val)

kv_value_to_py(v) ==
  IF v.tag # Array THEN kv_scalar_to_py(v)
  ELSE PyList([i \in DOMAIN v.items |-> kv_scalar_to_py(v.items[i])])

\* A dict is the sequence of its items, in order of insertion.
py_key(k) == IF k.type = "str" THEN Done(k.val) ELSE Fail("TypeError")

py_item_to_kv(e) == ToEntry(py_key(e.key), py_to_kv_value(e.value))

py_dict_to_kv(dict) == Collect([i \in DOMAIN dict |-> py_item_to_kv(dict[i])])

load_kv(kv) ==
  [i \in DOMAIN kv |-> [key |-> Py("str", kv[i].key), value |-> kv_value_to_py(kv[i].value)]]

-----------------------------------------------------------------------------
(* A section on its way                                                    *)

CONSTANTS Sources,       \* what writers may be given
          SectionBytes   \* bytes a changed byte may become

VARIABLES source,    \* lang "none" when no section is looked at
          section,   \* the bytes as they are in the file
          written,   \* "given", "refused", "sent", "intact", "cut" or "altered"
          parsed,    \* what a reader made of them: <<>> or <<cursor>>
          rewritten  \* what is read from the file a tool wrote: <<>> or <<[lang, kv]>>

kvVars == <<source, section, written, parsed, rewritten>>

\* Pairs, C structs, a dict or index entries, by language.
NoSource == [lang |-> "none", rust |-> <<>>, c |-> KvTable(<<>>), python |-> <<>>, index |-> <<>>]

KvInit ==
  /\ source \in Sources \cup {NoSource}
  /\ section = <<>> /\ written = "given" /\ parsed = <<>> /\ rewritten = <<>>

\* What the finish of each language hands to the core.
Given(s) ==
  CASE s.lang = "rust"   -> Done(s.rust)
    [] s.lang = "c"      -> kv_from_c(s.c)
    [] s.lang = "python" -> py_dict_to_kv(s.python)
    [] s.lang = "index"  -> Done(s.index)

\* FileWriterCore::finish, the key-values: the section, or <<>> when it is refused.
Accepted(kv) == validate_kv_keys(kv) /\ \A i \in DOMAIN kv : kv_encodable(kv[i].value)
KvSection(r) == IF r.err = "none" /\ Accepted(r.val) THEN encode_kv_section(r.val) ELSE <<>>

KvFinish ==
  /\ source.lang # "none" /\ written = "given"
  /\ section' = IF source.lang = "index" THEN encode_index_section(source.index)
                ELSE KvSection(Given(source))
  /\ written' = IF section' = <<>> THEN "refused" ELSE "sent"
  /\ UNCHANGED <<source, parsed, rewritten>>

KvArrive ==
  /\ written = "sent" /\ written' = "intact"
  /\ UNCHANGED <<source, section, parsed, rewritten>>

KvCut ==
  /\ written = "sent" /\ written' = "cut"
  /\ \E n \in 0 .. Len(section) - 1 : section' = SubSeq(section, 1, n)
  /\ UNCHANGED <<source, parsed, rewritten>>

KvAlter ==
  /\ written = "sent" /\ written' = "altered"
  /\ \E i \in DOMAIN section, b \in SectionBytes :
        b # section[i] /\ section' = [section EXCEPT ![i] = b]
  /\ UNCHANGED <<source, parsed, rewritten>>

\* FileReaderCore, the sections it parses when it opens a file.
KvOpen ==
  /\ written \in {"intact", "cut", "altered"} /\ parsed = <<>>
  /\ parsed' = <<IF source.lang = "index" THEN parse_index(section) ELSE parse_kv(section)>>
  /\ UNCHANGED <<source, section, written, rewritten>>

Opened == parsed # <<>> /\ Good(parsed[1])
Pairs  == parsed[1].val

\* A file rewritten in a language: through the C table, or the Python dict.
Held(lang) ==
  CASE lang = "rust"   -> [NoSource EXCEPT !.lang = lang, !.rust = Pairs]
    [] lang = "c"      -> [NoSource EXCEPT !.lang = lang, !.c = KvTable(Pairs)]
    [] lang = "python" -> [NoSource EXCEPT !.lang = lang, !.python = load_kv(Pairs)]

\* What is read from the new file.  Without key-values it has no such section and none are
\* read; otherwise the section is empty only when it was refused.
Reread(bytes) == IF bytes = <<>> THEN Check(parsed[1], FALSE, "refused") ELSE parse_kv(bytes)

KvRewrite(lang) ==
  /\ Opened /\ source.lang # "index" /\ rewritten = <<>>
  /\ rewritten' = <<[lang |-> lang, kv |-> IF Pairs = <<>> THEN Yield(parsed[1], <<>>)
                                      ELSE Reread(KvSection(Given(Held(lang))))]>>
  /\ UNCHANGED <<source, section, written, parsed>>

KvNext ==
  KvFinish \/ KvArrive \/ KvCut \/ KvAlter \/ KvOpen
  \/ \E lang \in {"rust", "c", "python"} : KvRewrite(lang)

-----------------------------------------------------------------------------
(* What a tensor or a file says of itself, on the wire: a descriptor, with *)
(* no section to look at, or a section of a file                           *)

MetadataInit ==
  /\ Init /\ KvInit
  /\ source # NoSource => desc = CHOOSE d \in Descriptors : TRUE

MetadataNext ==
  \/ source = NoSource /\ Next /\ UNCHANGED kvVars
  \/ KvNext /\ UNCHANGED vars

MetadataSpec == MetadataInit /\ [][MetadataNext]_<<vars, kvVars>>

-----------------------------------------------------------------------------
(* Properties                                                              *)

Scalars(kv) ==
  UNION {IF kv[i].value.tag = Array THEN Range(kv[i].value.items) ELSE {kv[i].value} :
           i \in DOMAIN kv}
HasEmptyArray(kv) == \E i \in DOMAIN kv : kv[i].value = KvArray(<<>>)
NotPython(kv)     == \E v \in Scalars(kv) : v.tag = Uint64 /\ v.val[1] \notin I64Range

\* What Python makes of a value: its ints are signed.
Signed(v) == IF v.tag = Uint64 THEN Kv(Int64, v.val) ELSE v
AsPython(kv) ==
  [i \in DOMAIN kv |-> [kv[i] EXCEPT !.value =
     IF @.tag = Array THEN KvArray([j \in DOMAIN @.items |-> Signed(@.items[j])]) ELSE Signed(@)]]

\* What a writer was given is read back, whatever the language and whichever kinds of
\* value stand next to each other; a Python dict comes back equal, type by type
\* (sections.rs, kv.rs kv_from_c, file_io.rs py_to_kv_value and kv_value_to_py).
SectionsComeBack ==
  (written = "intact" /\ parsed # <<>>) =>
     /\ Opened /\ Pairs = Given(source).val
     /\ source.lang = "python" => load_kv(Pairs) = source.python

\* What was read from one file can be handed to the writer of another, in any language:
\* nothing moves to another key, another array or another type.  Arrays without elements
\* are read and not written; Python makes signed integers of unsigned ones and has no
\* place for the large ones (kv.rs KvTable::new and value_from_c, file_io.rs).
RewritesKeepMeaning ==
  rewritten # <<>> =>
     LET r == rewritten[1]
     IN  IF HasEmptyArray(Pairs) \/ (r.lang = "python" /\ NotPython(Pairs))
         THEN ~ Good(r.kv)
         ELSE Good(r.kv) /\ r.kv.val = IF r.lang = "python" THEN AsPython(Pairs) ELSE Pairs

\* A section has one reading: cut anywhere it is refused, keys and names stay unique and
\* not empty, and what is accepted is spelled the way the writer spells it, up to bytes
\* after the last entry and the reserved flags of the index, which nobody reads
\* (sections.rs parse_kv, parse_kv_value, parse_index).
SectionsHaveOneReading ==
  /\ (written = "cut" /\ parsed # <<>>) => ~ Opened
  /\ (Opened /\ source.lang # "index") =>
        /\ validate_kv_keys(Pairs)
        /\ ~ HasEmptyArray(Pairs) => IsPrefix(encode_kv_section(Pairs), section)
  /\ (Opened /\ source.lang = "index") =>
        LET w == encode_index_section(Pairs)
            entryEnd(i) == Len(encode_index_section(SubSeq(Pairs, 1, i)))
        IN  /\ Len(w) <= Len(section)
            /\ \A i, j \in DOMAIN Pairs : Pairs[i].name = Pairs[j].name => i = j
            /\ \A k \in DOMAIN w :
                  \/ w[k] = section[k]
                  \/ \E i \in DOMAIN Pairs : k \in entryEnd(i) - U32 + 1 .. entryEnd(i)

\* What a descriptor, the key-values and the index say survives the wire, relays and tools
\* that rewrite files.
SurvivesTheWire == MeaningSurvives /\ SectionsComeBack /\ RewritesKeepMeaning

\* Bytes have one reading, in a descriptor and in a section.
OneReadingOnly == OneReading /\ SectionsHaveOneReading
=============================================================================
