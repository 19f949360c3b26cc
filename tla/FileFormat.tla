----------------------------- MODULE FileFormat -----------------------------
(***************************************************************************)
(* The file container: what its bytes are and where they go.               *)
(*                                                                         *)
(* A byte is known by where it comes from: byte `at` of section `sec` (for *)
(* a payload, of payload number `part`) of operation number `op`.  The     *)
(* content of a header, a descriptor, an index or a trailer is that of the *)
(* operation (Commit) which planned it.  Offsets count from 0, as in the   *)
(* code; file[k] is the byte at offset k - 1.                              *)
(***************************************************************************)
EXTENDS Frames

CONSTANTS Names,        \* the names tensors are given
          HeaderLen,    \* FILE_HEADER_SIZE
          TrailerLen,   \* TRAILER_SIZE
          ItemAlign,    \* the 8 bytes descriptors and the index are aligned to
          Alignment,    \* options.data_buffer_alignment
          KvLen         \* length of an encoded key-value section

ASSUME FormatAssumption ==
  /\ HeaderLen \in Nat \ {0} /\ TrailerLen \in Nat \ {0} /\ KvLen \in Nat \ {0}
  /\ ItemAlign \in Nat \ {0} /\ Alignment \in Nat \ {0}

Section == {"Header", "Descriptor", "Zeros", "Payload", "Kv", "Index", "Trailer"}
FileByte == [op : Nat, sec : Section, part : Nat, at : Nat]

\* The bytes of one section.
Bytes(op, sec, part, len) ==
  [k \in 1 .. len |-> [op |-> op, sec |-> sec, part |-> part, at |-> k]]

align_up(offset, alignment) ==
  IF offset % alignment = 0 THEN offset ELSE offset + (alignment - (offset % alignment))
pad_to(offset, alignment) == align_up(offset, alignment) - offset

IndexEntry == [name : Names, descriptor_offset : Nat, descriptor_length : Nat,
               data_offset : Nat, data_length : Nat]

\* encode_index_section: a count and one record per entry, so the length tells how many.
IndexLen(entries) == 1 + Len(entries)

(***************************************************************************)
(* What an operation commits when it completes, and what its bytes say:    *)
(* kind "Header"; kind "Tensor" with the node and its index entry; kind    *)
(* "Footer" with the index as it was encoded and the trailer's fields.     *)
(* Fields that a kind does not use are empty.                              *)
(***************************************************************************)
Trailer == [index_offset : Nat, index_length : Nat, kv_offset : Nat, kv_length : Nat]

HeaderCommit == [kind |-> "Header", id |-> <<>>, entry |-> <<>>, index |-> <<>>, trailer |-> <<>>]
TensorCommit(node, entry) ==
  [kind |-> "Tensor", id |-> <<node.id>>, entry |-> <<entry>>, index |-> <<>>, trailer |-> <<>>]
FooterCommit(index, trailer) ==
  [kind |-> "Footer", id |-> <<>>, entry |-> <<>>, index |-> index, trailer |-> <<trailer>>]
=============================================================================
