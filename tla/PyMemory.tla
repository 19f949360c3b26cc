------------------------------ MODULE PyMemory ------------------------------
(***************************************************************************)
(* Who keeps whose bytes alive in hurray-python (buffer.rs, tensor.rs,     *)
(* interop.rs, dlpack.rs, native_protocol.rs, scipy_interop.rs, sparse.rs, *)
(* numpy_allocator.rs): a Python program makes tensors, views, capsules    *)
(* and arrays that share memory, hands them on, and drops them in any      *)
(* order.                                                                  *)
(*                                                                         *)
(* Every call holds the GIL, so a call is one action; from_hurray, which   *)
(* calls its argument back, is two.  An object whose count falls to zero   *)
(* is finalised before the program goes on.  Addresses are never reused.   *)
(***************************************************************************)
EXTENDS Integers, SequencesExt

CONSTANTS
  MaxObjects,  \* bound on the objects made
  MaxNesting,  \* bound on nested aligned_allocator() blocks
  Payloads,    \* what the program passes to Tensor(): sequences of buffer lengths
  Incoming,    \* what a stream or file brings: sequences of [len, align, synced]
  Fleeting,    \* some __hurray__ returns a capsule of a tensor nothing else keeps
  Reassigns    \* the program assigns the arrays of a matrix even while a tensor shares them

ASSUME PyMemoryAssumption ==
  /\ MaxObjects \in Nat /\ MaxNesting \in Nat /\ Fleeting \in BOOLEAN /\ Reassigns \in BOOLEAN

VARIABLES
  mem,     \* the allocations: [len, align, synced, live]
  heap,    \* the objects: see Object
  held,    \* the objects the program has a name for
  call,    \* from_hurray under way: <<>> or <<[obj, cap]>>
  handler, \* NumPy's data-memory handler: "default" or "aligned"
  saved    \* the `previous` of the aligned_allocator() blocks entered, innermost last

vars == <<mem, heap, held, call, handler, saved>>

MIN_BUFFER_ALIGNMENT == 64

\* A tensor has a buffer, if an empty one; BufferHandle::new refuses bytes aligned to less.
ASSUME PayloadsAssumption == Payloads \subseteq Seq(Nat) \ {<<>>}
ASSUME IncomingAssumption ==
  \A handles \in Incoming :
     /\ handles \in Seq([len : Nat, align : Nat \ {0}, synced : BOOLEAN])
     /\ \A i \in DOMAIN handles : handles[i].len > 0 => MIN_BUFFER_ALIGNMENT <= handles[i].align
Copies == {"None", "True", "False"}

\* An object: the buffers it points into with what it declares of them, the objects it owns
\* a strong reference to, the allocations that go with it.  `name` is that of a capsule;
\* `list` and `ctx` count how often the list and context of a native capsule were destroyed.
Object(kind, bufs, refs, owns) ==
  [kind |-> kind, bufs |-> bufs, refs |-> refs, owns |-> owns, dense |-> Len(bufs) = 1,
   rc |-> 1, freed |-> 0, name |-> "fresh", list |-> 0, ctx |-> 0]

Block(len, align, synced) == [len |-> len, align |-> align, synced |-> synced, live |-> TRUE]
Freed == [Block(0, 1, TRUE) EXCEPT !.live = FALSE]   \* freed, or never allocated
Declared(block, align, synced) == [block |-> block, align |-> align, synced |-> synced]

\* In the references of a tensor: a store that owns its bytes has none.
NoBase == 0

Occurrences(s, x) == Cardinality({i \in DOMAIN s : s[i] = x})

\* h with d added to the count of every object of s, once per occurrence.
Counted(h, s, d) ==
  [o \in DOMAIN h |-> [h[o] EXCEPT !.rc = @ + d * Occurrences(s, o)]]

Unfreed == {o \in DOMAIN heap : heap[o].freed = 0}
Garbage == {o \in Unfreed : heap[o].rc = 0}
ProgramRuns == call = <<>> /\ Garbage = {}
Named(kinds) == {o \in held : heap[o].kind \in kinds}

Init ==
  /\ mem = <<>> /\ heap = <<>> /\ held = {} /\ call = <<>>
  /\ handler = "default" /\ saved = <<>>

\* The program gets a new object over new allocations.
Makes(object, blocks) ==
  /\ ProgramRuns
  /\ Len(heap) < MaxObjects
  /\ mem' = mem \o blocks
  /\ heap' = Append(Counted(heap, object.refs, 1), object)
  /\ held' = held \cup {Len(heap')}
  /\ UNCHANGED <<call, handler, saved>>

New(blocks) == {Len(mem) + i : i \in DOMAIN blocks}

-----------------------------------------------------------------------------
\* NumPy, and the handler of aligned_allocator()

\* Where a handler may put an array: the header before the payload is one alignment long.
allocate(len) == {Block(len, MIN_BUFFER_ALIGNMENT, TRUE)}

\* NumPy's own handler aligns to 16 bytes, or better by chance; an empty array has no bytes
\* whose address could matter.
malloc(len) ==
  IF handler = "aligned" THEN allocate(len)
  ELSE {Block(len, a, TRUE) : a \in IF len = 0 THEN {16} ELSE {16, 64}}

ndarray(b) == Object("Array", <<Declared(Len(mem) + 1, b.align, TRUE)>>, <<>>, New(<<b>>))

array == \E len \in {0, 1} : \E b \in malloc(len) : Makes(ndarray(b), <<b>>)

enter ==
  /\ ProgramRuns
  /\ Len(saved) < MaxNesting
  /\ saved' = Append(saved, handler)
  /\ handler' = "aligned"
  /\ UNCHANGED <<mem, heap, held, call>>

\* Mutant: the default handler is installed on exit.
exit_to_default ==
  /\ ProgramRuns /\ saved # <<>>
  /\ handler' = "default" /\ saved' = Front(saved)
  /\ UNCHANGED <<mem, heap, held, call>>

exit ==
  /\ ProgramRuns /\ saved # <<>>
  /\ handler' = Last(saved) /\ saved' = Front(saved)
  /\ UNCHANGED <<mem, heap, held, call>>

-----------------------------------------------------------------------------
\* Tensors over their own memory

\* BufferStore::from_slice.
from_slice(len) == Block(len, MIN_BUFFER_ALIGNMENT, TRUE)

\* Tensor(buffer, ..., aux_buffers): every buffer is copied.
Tensor_new(lens) ==
  LET blocks == [i \in DOMAIN lens |-> from_slice(lens[i])]
      bufs   == [i \in DOMAIN lens |->
                   Declared(Len(mem) + i, IF lens[i] = 0 THEN 1 ELSE MIN_BUFFER_ALIGNMENT, TRUE)]
  IN  Makes([Object("Tensor", bufs, <<>>, New(blocks)) EXCEPT !.dense = TRUE], blocks)

\* stream_tensor_to_py, file_tensor_to_tensor: the allocations of the core, which it made at
\* the alignments the descriptor declares, are adopted.
adopt(handles) ==
  LET blocks == [i \in DOMAIN handles |->
                   Block(handles[i].len, handles[i].align, handles[i].synced)]
      bufs   == [i \in DOMAIN handles |->
                   Declared(Len(mem) + i, handles[i].align, handles[i].synced)]
  IN  Makes(Object("Tensor", bufs, <<>>, New(blocks)), blocks)

-----------------------------------------------------------------------------
\* Tensors over memory of Python objects

measured_alignment(b) == IF mem[b].len = 0 THEN 1 ELSE mem[b].align

UnderAligned(b) == mem[b].len > 0 /\ measured_alignment(b) < MIN_BUFFER_ALIGNMENT

\* Mutant: what the caller asks decides alone.
must_copy_as_asked(b, copy) == copy = "True"

must_copy(b, copy) == copy = "True" \/ UnderAligned(b)

\* Mutant: the base is that of the first buffer.
Bases_first(bases, taken) ==
  [i \in DOMAIN bases |-> IF i > 1 \/ i \in taken THEN NoBase ELSE bases[i]]

\* Each store that was not copied has a strong reference of its own.
Bases(bases, taken) == [i \in DOMAIN bases |-> IF i \in taken THEN NoBase ELSE bases[i]]

\* ingest, once per buffer: bs[i] is kept alive by bases[i].  Refused as a whole when one
\* buffer would have to be copied and may not be.
ingest(bs, bases, copy) ==
  LET taken  == {i \in DOMAIN bs : must_copy(bs[i], copy)}
      blocks == [i \in DOMAIN bs |-> IF i \in taken THEN from_slice(mem[bs[i]].len) ELSE Freed]
      bufs   == [i \in DOMAIN bs |->
                  IF i \in taken
                  THEN Declared(Len(mem) + i, IF mem[bs[i]].len = 0 THEN 1 ELSE MIN_BUFFER_ALIGNMENT, TRUE)
                  ELSE Declared(bs[i], measured_alignment(bs[i]), TRUE)]
  IN  /\ ~ (copy = "False" /\ taken # {})
      /\ Makes(Object("Tensor", bufs, Bases(bases, taken), {Len(mem) + i : i \in taken}), blocks)

Data(a) == heap[a].bufs[1].block

from_numpy(a, copy) == ingest(<<Data(a)>>, <<a>>, copy)

sparse_coo(values, indices, copy) ==
  ingest(<<Data(values), Data(indices)>>, <<values, indices>>, copy)

\* scipy.sparse.csr_matrix over arrays, of which two stand for the three (two arrays and a
\* base that is neither tell the same cases apart); and an assignment to one of its attributes.
csr_matrix(a, b) == Makes(Object("Matrix", <<>>, <<a, b>>, {}), <<>>)

Reassign(m, i, a) ==
  /\ ProgramRuns
  /\ Reassigns \/ \A t \in Unfreed : ~ Contains(heap[t].refs, m)
  /\ heap' = [Counted(Counted(heap, <<heap[m].refs[i]>>, -1), <<a>>, 1) EXCEPT ![m].refs[i] = a]
  /\ UNCHANGED <<mem, held, call, handler, saved>>

\* The matrix is the base of all its arrays.
from_scipy(m, copy) ==
  LET parts == heap[m].refs
  IN  ingest([i \in DOMAIN parts |-> Data(parts[i])], [i \in DOMAIN parts |-> m], copy)

\* Mutant: only the buffer asked for is looked at.
require_producer_synced_first(t) == heap[t].bufs[1].synced

require_producer_synced(t) == \A i \in DOMAIN heap[t].bufs : heap[t].bufs[i].synced

\* Mutant: the view holds what the tensor holds.
view_base_of_tensor(t) == heap[t].refs

view_base(t) == <<t>>

\* values, indices, row_ptr, buffer(i): a tensor that borrows one buffer of another.
component_view(t, i) ==
  LET b == heap[t].bufs[i].block
  IN  /\ require_producer_synced(t)
      /\ Makes(Object("Tensor", <<Declared(b, measured_alignment(b), TRUE)>>, view_base(t), {}), <<>>)

-----------------------------------------------------------------------------
\* DLPack

\* The DLManagedTensorVersioned over the first buffer of t, with its payload's tensor_ref.
Managed(t) == Object("Managed", <<heap[t].bufs[1]>>, <<t>>, {})

Exportable(t) == require_producer_synced(t) /\ heap[t].dense

\* Two objects, of which the program gets the second; the first is the second's.
MakesTwo(first, second) ==
  /\ ProgramRuns
  /\ Len(heap) + 1 < MaxObjects
  /\ heap' = Counted(heap, first.refs, 1) \o <<first, second>>
  /\ held' = held \cup {Len(heap')}
  /\ UNCHANGED <<mem, call, handler, saved>>

dlpack(t) ==
  /\ Exportable(t)
  /\ MakesTwo(Managed(t), Object("DlCapsule", <<>>, <<Len(heap) + 1>>, {}))

\* A DLPack consumer: it renames the capsule and calls the deleter when its array goes.
from_dlpack(c) ==
  /\ ProgramRuns /\ Len(heap) < MaxObjects
  /\ heap[c].name = "fresh"
  /\ heap' = Append([heap EXCEPT ![c].name = "used"],
                    Object("Array", heap[heap[c].refs[1]].bufs, heap[c].refs, {}))
  /\ held' = held \cup {Len(heap')}
  /\ UNCHANGED <<mem, call, handler, saved>>

\* __array__: numpy.from_dlpack(self), the capsule made and used up in the call; or a cast,
\* which copies.
asarray(t) ==
  /\ Exportable(t)
  /\ \/ MakesTwo(Managed(t), Object("Array", <<heap[t].bufs[1]>>, <<Len(heap) + 1>>, {}))
     \/ \E b \in malloc(mem[Data(t)].len) : Makes(ndarray(b), <<b>>)

-----------------------------------------------------------------------------
\* The native protocol

Native(t) == Object("Native", heap[t].bufs, <<t>>, {})

\* __hurray__.
hurray(t) == Makes(Native(t), <<>>)

\* PyCapsule_SetContext fails: the context is destroyed, and the capsule dropped with the list.
hurray_fails(t) ==
  /\ ProgramRuns /\ Len(heap) < MaxObjects
  /\ heap' = Append(heap, [Native(t) EXCEPT !.refs = <<>>, !.rc = 0, !.ctx = 1])
  /\ UNCHANGED <<mem, held, call, handler, saved>>

\* An object of the application with a __hurray__ of its own: it answers for a tensor it
\* keeps, or (Fleeting) with a capsule it keeps.
Producer(x) ==
  /\ Makes(Object("Producer", <<>>, <<x>>, {}), <<>>)

\* from_hurray(obj) up to the return of obj.__hurray__().
from_hurray(obj) ==
  LET source == IF heap[obj].kind = "Tensor" THEN obj ELSE heap[obj].refs[1]
      cached == heap[source].kind = "Native"
  IN  /\ ProgramRuns /\ Len(heap) + (IF cached THEN 0 ELSE 1) < MaxObjects
      /\ heap' = IF cached THEN Counted(heap, <<source>>, 1)
                 ELSE Append(Counted(heap, <<source>>, 1), Native(source))
      /\ call' = <<[obj |-> obj, cap |-> IF cached THEN source ELSE Len(heap')]>>
      /\ UNCHANGED <<mem, held, handler, saved>>

\* Mutant: the capsule keeps its name.
take_without_renaming(h, c) ==
  [Counted(h, h[c].refs, -1) EXCEPT ![c].list = @ + 1, ![c].ctx = @ + 1]

\* Mutant: the context is left to the capsule.
take_without_context(h, c) == [h EXCEPT ![c].name = "used", ![c].list = @ + 1]

\* The capsule is renamed, its list destroyed, its context destroyed with the reference.
take(h, c) ==
  [Counted(h, h[c].refs, -1) EXCEPT ![c].name = "used", ![c].list = @ + 1, ![c].ctx = @ + 1]

\* Mutant: the stores have no base of their own.
base_missing(obj, bufs) == <<>>

\* Each store has its own reference to the object that was asked.
base(obj, bufs) == [i \in DOMAIN bufs |-> obj]

\* The call ends, and its reference to the capsule with it.
Leaves(h, cap) == heap' = Counted(h, <<cap>>, -1) /\ call' = <<>>

\* The rest of from_hurray: a used capsule or another ABI is refused untouched, a descriptor
\* that cannot be decoded after the capsule was taken.
from_hurray_takes ==
  /\ call # <<>> /\ Garbage = {}
  /\ LET obj == call[1].obj
         cap == call[1].cap
         new == Object("Tensor", heap[cap].bufs, base(obj, heap[cap].bufs), {})
         taken == take(heap, cap)
     IN  \/ Leaves(heap, cap) /\ UNCHANGED held
         \/ /\ heap[cap].name = "fresh"
            /\ Leaves(taken, cap) /\ UNCHANGED held
         \/ /\ heap[cap].name = "fresh"
            /\ Leaves(Append(Counted(taken, new.refs, 1), new), cap)
            /\ held' = held \cup {Len(heap')}
  /\ UNCHANGED <<mem, handler, saved>>

-----------------------------------------------------------------------------
\* The end of objects

\* del
Drop(o) ==
  /\ ProgramRuns
  /\ held' = held \ {o}
  /\ heap' = Counted(heap, <<o>>, -1)
  /\ UNCHANGED <<mem, call, handler, saved>>

\* Mutant: the deleter is called whatever the name.
capsule_destructor_always(o) == heap[o].refs

\* What the destructor of a DLPack capsule gives up: a consumed one nothing.
capsule_destructor(o) == IF heap[o].name = "fresh" THEN heap[o].refs ELSE <<>>

\* Mutant: the list is forgotten.
native_destructor_forgets_list(o) == IF heap[o].name = "fresh" THEN [list |-> 0, refs |-> heap[o].refs]
                                     ELSE [list |-> 0, refs |-> <<>>]

\* hurray_tensor_capsule_destructor: an unconsumed one destroys list and context.
native_destructor(o) == IF heap[o].name = "fresh" THEN [list |-> 1, refs |-> heap[o].refs]
                        ELSE [list |-> 0, refs |-> <<>>]

Released(o) ==
  CASE heap[o].kind = "DlCapsule" -> capsule_destructor(o)
    [] heap[o].kind = "Native"    -> native_destructor(o).refs
    [] OTHER                      -> heap[o].refs

\* The last reference is gone: destructor, deleter or drop of the object, and its allocations.
\* These commute; the newest object goes first.
Finalise ==
  /\ Garbage # {}
  /\ LET o == CHOOSE x \in Garbage : \A y \in Garbage : y <= x
         native == heap[o].kind = "Native"
     IN  /\ heap' = [Counted(heap, Released(o), -1) EXCEPT
                       ![o].freed = @ + 1, ![o].bufs = <<>>, ![o].refs = <<>>, ![o].owns = {},
                       ![o].list = @ + IF native THEN native_destructor(o).list ELSE 0,
                       ![o].ctx = @ + IF native THEN Len(native_destructor(o).refs) ELSE 0]
         /\ mem' = [b \in DOMAIN mem |-> IF b \in heap[o].owns THEN Freed ELSE mem[b]]
  /\ UNCHANGED <<held, call, handler, saved>>

-----------------------------------------------------------------------------
Arrays  == Named({"Array"})
Tensors == Named({"Tensor"})

Next ==
  \/ array \/ enter \/ exit
  \/ \E lens \in Payloads : Tensor_new(lens)
  \/ \E handles \in Incoming : adopt(handles)
  \/ \E copy \in Copies :
       \/ \E a \in Arrays : from_numpy(a, copy) \/ \E b \in Arrays \ {a} : sparse_coo(a, b, copy)
       \/ \E m \in Named({"Matrix"}) : from_scipy(m, copy)
  \/ \E a \in Arrays : \E b \in Arrays \ {a} : csr_matrix(a, b)
  \/ \E m \in Named({"Matrix"}), a \in Arrays : \E i \in DOMAIN heap[m].refs : Reassign(m, i, a)
  \/ \E t \in Tensors :
       \/ \E i \in DOMAIN heap[t].bufs : component_view(t, i)
       \/ dlpack(t) \/ asarray(t) \/ hurray(t) \/ hurray_fails(t)
  \/ \E c \in Named({"DlCapsule"}) : from_dlpack(c)
  \/ \E x \in Named(IF Fleeting THEN {"Tensor", "Native"} ELSE {"Tensor"}) : Producer(x)
  \/ \E obj \in Named({"Tensor", "Producer"}) : from_hurray(obj)
  \/ from_hurray_takes
  \/ \E o \in held : Drop(o)
  \/ Finalise

Spec == Init /\ [][Next]_vars

-----------------------------------------------------------------------------
TypeOK ==
  /\ held \subseteq Unfreed
  /\ \A o \in DOMAIN heap :
       /\ heap[o].kind \in {"Array", "Tensor", "Matrix", "Managed", "DlCapsule", "Native", "Producer"}
       /\ heap[o].name \in {"fresh", "used"}
       /\ heap[o].owns \subseteq DOMAIN mem
       /\ \A i \in DOMAIN heap[o].bufs : heap[o].bufs[i].block \in DOMAIN mem
       /\ \A i \in DOMAIN heap[o].refs : heap[o].refs[i] \in DOMAIN heap \cup {NoBase}
  /\ handler \in {"default", "aligned"}
  /\ Len(saved) <= MaxNesting

\* buffer.rs: "ptr MUST remain valid for as long as the Tensor is alive."  Every tensor, view,
\* array and unconsumed capsule points into live memory, through any chain of borrowing,
\* whatever the program has dropped, and in whichever order.
BytesOutliveReaders ==
  TypeOK /\ \A o \in Unfreed : heap[o].name = "fresh" =>
              \A i \in DOMAIN heap[o].bufs : mem[heap[o].bufs[i].block].live

Native_ == {o \in DOMAIN heap : heap[o].kind = "Native"}

\* No object, list or context is destroyed twice, on any path of a capsule: kept, consumed,
\* refused, or failed in the making.  And once the program holds nothing, everything is gone.
ReleasedExactlyOnce ==
  /\ \A o \in DOMAIN heap :
       heap[o].freed <= 1 /\ heap[o].list <= 1 /\ heap[o].ctx <= 1 /\ heap[o].rc >= 0
  /\ (held = {} /\ ProgramRuns) =>
       /\ Unfreed = {}
       /\ \A b \in DOMAIN mem : ~ mem[b].live
       /\ \A o \in Native_ : heap[o].list = 1 /\ heap[o].ctx = 1

\* ADR-037: a tensor declares an alignment its bytes have and the format accepts, however
\* they came to it; bytes a consumer must wait for are declared so by every tensor over them
\* and are in no view; and outside aligned_allocator() NumPy has its own handler back.
SharingIsHonest ==
  /\ \A o \in Unfreed, i \in DOMAIN mem :
       \A u \in {v \in Range(heap[o].bufs) : v.block = i} :
         /\ heap[o].kind = "Tensor" /\ mem[i].len > 0 =>
              MIN_BUFFER_ALIGNMENT <= u.align /\ u.align <= mem[i].align
         /\ u.synced => mem[i].synced
         /\ heap[o].kind \in {"Array", "Managed"} => mem[i].synced
  /\ handler = "aligned" <=> saved # <<>>

-----------------------------------------------------------------------------
\* Small instances: a quantized tensor with an empty second buffer; a page-aligned buffer
\* and a second one that awaits an event.
Arrival(len, align, synced) == [len |-> len, align |-> align, synced |-> synced]
MCPayloads == {<<1, 0>>}
MCIncoming == {<<Arrival(1, 4096, TRUE), Arrival(1, 64, FALSE)>>}
=============================================================================
