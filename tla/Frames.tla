------------------------------- MODULE Frames -------------------------------
(***************************************************************************)
(* What travels: descriptors, payloads and the bytes they become.          *)
(*                                                                         *)
(* A byte is known by where it comes from: [id, part, at] is byte `at` of  *)
(* descriptor `id` (part = 0) or of payload `part` of that tensor.  The    *)
(* content of a descriptor is abstracted to the fields that some decision  *)
(* reads: those of CompositeRules, its encoded length `len` (the           *)
(* descriptor_length field the reader trusts) and its buffer table `bufs`, *)
(* a sequence of [size, synced, allocatable].                              *)
(***************************************************************************)
EXTENDS CompositeRules

CONSTANTS Desc,         \* a function: descriptor id -> descriptor record
          PrefixLen,    \* PREFIX_LEN: magic, version and descriptor_length
          MinDescriptorLen,  \* MIN_DESCRIPTOR_LEN: the fixed header
          CrossMachine  \* enforce_cross_machine_sync

ASSUME PrefixLenAssumption == PrefixLen \in Nat \ {0}
ASSUME MinDescriptorLenAssumption == MinDescriptorLen \in Nat /\ MinDescriptorLen > PrefixLen
ASSUME CrossMachineAssumption == CrossMachine \in BOOLEAN
ASSUME DescAssumption ==
  \A id \in DOMAIN Desc :
     /\ Desc[id].len \in Nat
     /\ Desc[id].bufs \in Seq([size : Nat, synced : BOOLEAN, allocatable : BOOLEAN])
     /\ Desc[id].count \in Nat

Ids == DOMAIN Desc
Byte == [id : Ids, part : Nat, at : Nat]

IsHead(id) == Desc[id].layout = "Composite"

\* TensorDescriptor::encode: `len` bytes, the first PrefixLen of which announce `len`.
encode(id) == [k \in 1 .. Desc[id].len |-> [id |-> id, part |-> 0, at |-> k]]

\* Mutant: every descriptor must have a buffer, composite heads included.
Decodable_no_heads(id) == Desc[id].len >= MinDescriptorLen /\ Desc[id].bufs # <<>>

\* What TensorDescriptor::decode requires of the fields kept here: only a composite head
\* has no buffers, a head has no Composite Member section, a shard box is in bounds.
Decodable(id) ==
  LET d == Desc[id]
  IN  /\ d.len >= MinDescriptorLen
      /\ IsHead(id) <=> d.bufs = <<>>
      /\ Encodable(d)
      /\ d.shard # <<>> => validate_against_shape(d.shard[1], d.shape)

\* The caller's payload slice number i, `size` bytes long.
Payload(id, i, size) == [k \in 1 .. size |-> [id |-> id, part |-> i, at |-> k]]

(***************************************************************************)
(* A CompositeNode: kind "Tensor" (a descriptor and the lengths of the     *)
(* caller's slices) or kind "Composite" (a head and its member nodes).     *)
(***************************************************************************)
payloads_of(node) == [i \in DOMAIN node.slices |-> Payload(node.id, i, node.slices[i])]

\* The parts, one after the other, as they follow each other on the wire.  (SequencesExt has
\* this as FlattenSeq; a stream holds several instances of its two ends, and each would carry
\* a copy of that module through every proof about it.)
Joined(parts) ==
  LET upto[i \in 0 .. Len(parts)] == IF i = 0 THEN <<>> ELSE upto[i - 1] \o parts[i]
  IN  upto[Len(parts)]
=============================================================================
