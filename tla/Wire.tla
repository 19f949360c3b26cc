-------------------------------- MODULE Wire --------------------------------
(***************************************************************************)
(* hurray-core/src/descriptor/cursor.rs: little-endian bytes, the bounded  *)
(* cursor they are read through, and the tag bytes that occur in them.     *)
(*                                                                         *)
(* A u32 has U32 bytes and a u64 has U64 bytes (4 and 8 in the code), so   *)
(* that small instances have small words; WordBits of Layouts is 8 * U64.  *)
(***************************************************************************)
EXTENDS Layouts, SequencesExt

CONSTANTS U32, U64

ASSUME WireConstants == U32 \in Nat \ {0} /\ U64 \in Nat \ {0} /\ WordBits = 8 * U64

U32Max == 256^U32 - 1

-----------------------------------------------------------------------------
(* ByteWriter: each operation appends the bytes it is worth                *)

LE(n, x) == [i \in 1 .. n |-> (x \div 256^(i - 1)) % 256]

write_u32_le(x) == LE(U32, x)
write_u64_le(x) == LE(U64, x)
write_i64_le(x) == LE(U64, AsU64(x))
write_zeros(n)  == [i \in 1 .. n |-> 0]

Each(Write(_), s) == FlattenSeq([i \in DOMAIN s |-> Write(s[i])])

\* u8::from(bool)
Flag(b) == IF b THEN 1 ELSE 0

\* An Option is <<>> or <<value>>.
Opt(Write(_), o) == Each(Write, o)

-----------------------------------------------------------------------------
(* ByteCursor: val holds what the last read returned, err the first fault  *)

ByteCursor(data, limit) ==
  [data |-> data, limit |-> limit, pos |-> 0, val |-> <<>>, err |-> "none"]

Good(c) == c.err = "none"

\* What a read can ask for: a number of n bytes, a signed word, or n raw bytes.
Num(n) == [n |-> n, as |-> "number"]
I64    == [n |-> U64, as |-> "signed"]
Raw(n) == [n |-> n, as |-> "bytes"]
U8     == Num(1)

Times(f, n) == [i \in 1 .. n |-> f]

\* from_le_bytes
FromLE(b) ==
  LET x[i \in 0 .. Len(b)] == IF i = 0 THEN 0 ELSE x[i - 1] + b[i] * 256^(i - 1) IN x[Len(b)]

Value(f, b) ==
  CASE f.as = "bytes"  -> b
    [] f.as = "number" -> FromLE(b)
    [] f.as = "signed" -> AsI64(FromLE(b))

\* Mutant: the slice is cut at the end of the data, not at the limit.
read_bytes_to_end(c, f) ==
  IF c.pos + f.n > Len(c.data) THEN [c EXCEPT !.err = "DescriptorTruncated"]
  ELSE [c EXCEPT !.pos = @ + f.n,
                 !.val = Append(@, Value(f, SubSeq(c.data, c.pos + 1, c.pos + f.n)))]

\* Mutant: what is missing of a slice is taken to be zero.
read_bytes_zero_filled(c, f) ==
  LET there == SubSeq(c.data, c.pos + 1, IF c.pos + f.n < c.limit THEN c.pos + f.n ELSE c.limit)
  IN  [c EXCEPT !.pos = @ + f.n,
                !.val = Append(@, Value(f, there \o write_zeros(f.n - Len(there))))]

\* read_bytes, and read_u8 ... read_f64_le on top of it.
read_bytes(c, f) ==
  IF c.pos + f.n > c.limit THEN [c EXCEPT !.err = "DescriptorTruncated"]
  ELSE [c EXCEPT !.pos = @ + f.n,
                 !.val = Append(@, Value(f, SubSeq(c.data, c.pos + 1, c.pos + f.n)))]

\* Several reads in a row, each followed by `?`.
ReadOne(c, f) == IF Good(c) THEN read_bytes(c, f) ELSE c

Read(c, fields) ==
  LET r[i \in 0 .. Len(fields)] ==
        IF i = 0 THEN [c EXCEPT !.val = <<>>] ELSE ReadOne(r[i - 1], fields[i])
  IN  r[Len(fields)]

Check(c, ok, err) == IF ~ Good(c) \/ ok THEN c ELSE [c EXCEPT !.err = err]
Yield(c, v)       == IF Good(c) THEN [c EXCEPT !.val = v] ELSE c
AllZero(b)        == \A i \in DOMAIN b : b[i] = 0

-----------------------------------------------------------------------------
(* Tag bytes.  A value of one of these enums is its byte.                  *)

NamedElementTypes == (1 .. 4) \cup (16 .. 23) \cup {32} \cup (64 .. 70)
                     \cup (72 .. 75) \cup {80, 81}
ExtensionTags     == 240 .. 254

\* ElementType::from_tag, DeviceTag::from_byte, SyncMode::from_byte,
\* MemoryClass::from_byte: the bytes they accept.
element_type_ok(b) == b \in NamedElementTypes \cup ExtensionTags
device_tag_ok(b)   == b \in (0 .. 8) \cup (240 .. 254)
sync_mode_ok(b)    == b \in 0 .. 2
memory_class_ok(b) == b \in (0 .. 3) \cup (240 .. 254)

PowerOfTwo(x) == \E k \in 0 .. 8 * U32 - 1 : x = 2^k

MIN_BUFFER_ALIGNMENT == 64

\* BufferHandle::with_memory_class; a buffer on the CPU is synced by its producer.
with_memory_class(b) ==
  /\ PowerOfTwo(b.alignment)
  /\ b.byte_size > 0 => b.alignment >= MIN_BUFFER_ALIGNMENT
  /\ b.device_tag = 0 => b.sync_mode = 0
=============================================================================
