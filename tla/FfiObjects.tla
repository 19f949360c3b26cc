----------------------------- MODULE FfiObjects -----------------------------
(***************************************************************************)
(* The handles of the C ABI (hurray-ffi/src: buffer.rs, buffer_list.rs,    *)
(* stream/tensor.rs, item.rs, tensor_context.rs, descriptor.rs) and the C  *)
(* program that owns them.                                                 *)
(*                                                                         *)
(* A handle is an address in `heap`; addresses are not reused, so that a   *)
(* second free and a use after a free can be seen.  A function that runs   *)
(* no foreign code is one action.  The destroy functions call each other   *)
(* and, through the release callbacks, call the C program back, which may  *)
(* then call any function of the ABI again: `frames` is their call stack,  *)
(* and the C program runs when it is empty or a callback is on top.        *)
(*                                                                         *)
(* The C program keeps the documented contract: it destroys only handles   *)
(* it holds, and does not push a buffer it has given away.  A callback may *)
(* re-enter the ABI, with the list it is released from as well.            *)
(***************************************************************************)
EXTENDS Naturals, Sequences, SequencesExt

CONSTANTS MaxCreated,   \* bound on the number of handles given to the C program
          MaxBuffers,   \* bound on the length of a list
          Debug         \* built with debug assertions: the sentinels are compiled in

Kinds == {"Buffer", "List", "Descriptor", "Tensor", "Item", "Context"}

ASSUME BoundsAssumption ==
  MaxCreated \in Nat /\ MaxBuffers \in Nat /\ Debug \in BOOLEAN

VARIABLES
  created,   \* the number of handles given to the C program, for the bound
  heap,      \* the allocations, in the order they were made
  held,      \* the non-null pointer variables of the C program, by what they point to
  borrowed,  \* the pointer it last got from a getter: at most one [ptr, owner, fresh]
  frames     \* the destroy functions under way, innermost last

vars == <<created, heap, held, borrowed, frames>>

Null == 0
Releases == {"None", "Caller", "Bytes"}

\* One allocation.  `marked` is the dead sentinel; `freed` and `released` count the frees
\* of the box and the calls of its release callback.
Object(kind, slots, release) ==
  [kind |-> kind, slots |-> slots, release |-> release, hook |-> release # "None",
   marked |-> FALSE, freed |-> 0, released |-> 0]

Init == created = 0 /\ heap = <<>> /\ held = {} /\ borrowed = {} /\ frames = <<>>

CallerRuns == frames # <<>> => Last(frames).fn = "Release"
Live(a) == heap[a].freed = 0

\* `objects` are allocated and the C program gets the handle to the last of them.
Create(objects) ==
  /\ CallerRuns
  /\ created < MaxCreated /\ created' = created + 1
  /\ heap' = heap \o objects
  /\ held' = held \cup {Len(heap')}
  /\ UNCHANGED <<borrowed, frames>>

\* The pointers the C program can pass to a getter.
Known(kind) == {a \in held \cup {b.ptr : b \in borrowed} : heap[a].kind = kind /\ Live(a)}

-----------------------------------------------------------------------------
\* Construction

hurray_buffer_from_ptr ==
  \E release \in {"None", "Caller"} : Create(<<Object("Buffer", <<>>, release)>>)

hurray_buffer_list_new == Create(<<Object("List", <<>>, "None")>>)

\* A live list takes the buffer over; one that is being destroyed refuses it, and it stays
\* with the caller.
hurray_buffer_list_push(l, b) ==
  /\ CallerRuns
  /\ {l, b} \subseteq held
  /\ heap[l].kind = "List" /\ heap[b].kind = "Buffer"
  /\ Len(heap[l].slots) < MaxBuffers
  /\ ~ heap[l].marked
  /\ heap' = [heap EXCEPT ![l].slots = Append(@, b)]
  /\ held' = held \ {b}
  /\ UNCHANGED <<created, borrowed, frames>>

hurray_descriptor_decode == Create(<<Object("Descriptor", <<>>, "None")>>)

hurray_tensor_context_new ==
  \E release \in {"None", "Caller"} : Create(<<Object("Context", <<>>, release)>>)

\* Mutant: the two parts of the tensor are swapped.
tensor_handle_swapped(base, n) ==
  [i \in 1 .. n |-> Object("Buffer", <<>>, "Bytes")]
    \o <<Object("List", [i \in 1 .. n |-> base + i], "None"),
         Object("Descriptor", <<>>, "None"),
         Object("Tensor", <<base + n + 1, base + n + 2>>, "None")>>

\* tensor_handle: the allocations of a tensor of n buffers read from a stream or a file,
\* the first of them at base + 1, the tensor last.  release_bytes frees a buffer's bytes.
tensor_handle(base, n) ==
  [i \in 1 .. n |-> Object("Buffer", <<>>, "Bytes")]
    \o <<Object("List", [i \in 1 .. n |-> base + i], "None"),
         Object("Descriptor", <<>>, "None"),
         Object("Tensor", <<base + n + 2, base + n + 1>>, "None")>>

\* A read hands a tensor to the C program.
HandOutTensor == \E n \in 0 .. MaxBuffers : Create(tensor_handle(Len(heap), n))

\* item_handle: one node per head or tensor; a head has no buffer.  Here a head and one
\* member of one buffer.
HandOutItem ==
  LET head   == tensor_handle(Len(heap), 0)
      member == tensor_handle(Len(heap) + Len(head), 1)
      nodes  == <<Len(heap) + Len(head), Len(heap) + Len(head) + Len(member)>>
  IN  Create(head \o member \o <<Object("Item", nodes, "None")>>)

-----------------------------------------------------------------------------
\* Getters: the pointer stays with its owner

Borrow(owner, ptr) ==
  /\ borrowed' = {[ptr |-> ptr, owner |-> owner, fresh |-> ~ heap[ptr].marked]}
  /\ UNCHANGED <<created, heap, held, frames>>

\* A slot emptied by a destroy under way is out of bounds.
hurray_buffer_list_get(l) ==
  /\ CallerRuns
  /\ \E i \in DOMAIN heap[l].slots : heap[l].slots[i] # Null /\ Borrow(l, heap[l].slots[i])

\* hurray_tensor_descriptor and hurray_tensor_buffers.
TensorGet(t) ==
  /\ CallerRuns
  /\ \E i \in 1 .. 2 : Borrow(t, heap[t].slots[i])

hurray_item_node(it) ==
  /\ CallerRuns
  /\ \E i \in DOMAIN heap[it].slots : Borrow(it, heap[it].slots[i])

-----------------------------------------------------------------------------
\* Destruction

Frame(fn, a) == [fn |-> fn, arg |-> a, next |-> 1]
Free(h, a) == [h EXCEPT ![a].freed = @ + 1]
Mark(h, a) == [h EXCEPT ![a].marked = TRUE]

\* The callback is taken out of the handle before it is called.
Take(h, a) == [Mark(h, a) EXCEPT ![a].release = "None"]
Called(h, a) == [Take(h, a) EXCEPT ![a].released = @ + 1]

\* hurray_buffer_destroy: the box lives until the callback has returned.
hurray_buffer_destroy(h, fr, a) ==
  CASE h[a].release = "Caller" -> [heap |-> Called(h, a), frames |-> Append(fr, Frame("Release", a))]
    [] h[a].release = "Bytes"  -> [heap |-> Free(Called(h, a), a), frames |-> fr]
    [] h[a].release = "None"   -> [heap |-> Free(Take(h, a), a), frames |-> fr]

\* hurray_tensor_context_destroy: the box is freed before the callback is called.
hurray_tensor_context_destroy(h, fr, a) ==
  IF h[a].release = "Caller"
  THEN [heap |-> Free(Called(h, a), a), frames |-> Append(fr, Frame("Release", a))]
  ELSE [heap |-> Free(Take(h, a), a), frames |-> fr]

\* Mutant: the sentinel is not looked at.
Enter_unmarked(h, fr, a) ==
  CASE h[a].kind = "Buffer"     -> hurray_buffer_destroy(h, fr, a)
    [] h[a].kind = "Context"    -> hurray_tensor_context_destroy(h, fr, a)
    [] h[a].kind = "Descriptor" -> [heap |-> Free(h, a), frames |-> fr]
    [] OTHER -> [heap |-> Mark(h, a), frames |-> Append(fr, Frame(h[a].kind, a))]

\* The destroy function of the kind of `a` is called.  A debug build returns at once when
\* the sentinel is dead; a descriptor has none.
Enter(h, fr, a) ==
  IF Debug /\ h[a].marked THEN [heap |-> h, frames |-> fr]
  ELSE CASE h[a].kind = "Buffer"     -> hurray_buffer_destroy(h, fr, a)
         [] h[a].kind = "Context"    -> hurray_tensor_context_destroy(h, fr, a)
         [] h[a].kind = "Descriptor" -> [heap |-> Free(h, a), frames |-> fr]
         [] OTHER -> [heap |-> Mark(h, a), frames |-> Append(fr, Frame(h[a].kind, a))]

\* Mutant: the pointer to a context is nulled after its callback has returned.
NulledOnEntry_not_contexts == {"Buffer", "Descriptor"}

\* The kinds whose handle variable is dead once destroy is entered: a buffer or descriptor
\* is passed by value and its caller forgets it, a context is nulled before the callback.
NulledOnEntry == {"Buffer", "Descriptor", "Context"}

\* The C program calls a destroy function on a handle it holds: for a list, also from a
\* callback of the destruction of that very list.
Destroy(a) ==
  /\ CallerRuns /\ a \in held
  /\ LET call == Enter(heap, frames, a)
     IN  /\ heap' = call.heap /\ frames' = call.frames
         /\ held' = IF heap[a].kind \in NulledOnEntry THEN held \ {a} ELSE held
         /\ borrowed' = {b \in borrowed : b.owner # a}
  /\ UNCHANGED created

Top == Last(frames)
Running(fn) == frames # <<>> /\ Top.fn = fn
Slots == heap[Top.arg].slots
Advanced == [frames EXCEPT ![Len(frames)].next = @ + 1]

\* Mutant: the slot keeps its pointer.
Emptied_keeps_slot == heap

\* The slot is nulled before what it held is destroyed.
Emptied == [heap EXCEPT ![Top.arg].slots[Top.next] = Null]

\* One turn of a teardown loop: take the next slot, destroy what it held.
TakeSlot ==
  /\ Top.next <= Len(Slots)
  /\ LET call == IF Slots[Top.next] = Null THEN [heap |-> heap, frames |-> Advanced]
                 ELSE Enter(Emptied, Advanced, Slots[Top.next])
     IN  heap' = call.heap /\ frames' = call.frames
  /\ UNCHANGED <<created, held, borrowed>>

\* The end of the loop: the box goes, and the caller's variable is nulled.
EndLoop ==
  /\ Top.next > Len(Slots)
  /\ heap' = Free(heap, Top.arg)
  /\ frames' = Front(frames)
  /\ held' = held \ {Top.arg}
  /\ borrowed' = {b \in borrowed : b.owner # Top.arg}
  /\ UNCHANGED created

hurray_buffer_list_destroy == Running("List") /\ (TakeSlot \/ EndLoop)

\* Mutant: the box is dropped without its buffer list.
hurray_tensor_destroy_keeps_list ==
  /\ Running("Tensor")
  /\ \/ Top.next = 1 /\ TakeSlot
     \/ /\ Top.next = 2
        /\ heap' = Free(heap, Top.arg) /\ frames' = Front(frames) /\ held' = held \ {Top.arg}
        /\ UNCHANGED <<created, borrowed>>

\* The descriptor, then the list.
hurray_tensor_destroy == Running("Tensor") /\ (TakeSlot \/ EndLoop)

hurray_item_destroy == Running("Item") /\ (TakeSlot \/ EndLoop)

\* The callback returns into the destroy function that called it.
ReleaseReturns ==
  /\ Running("Release")
  /\ heap' = IF heap[Top.arg].kind = "Buffer" THEN Free(heap, Top.arg) ELSE heap
  /\ frames' = Front(frames)
  /\ held' = IF heap[Top.arg].kind = "Context" THEN held \ {Top.arg} ELSE held
  /\ UNCHANGED <<created, borrowed>>

Library ==
  \/ hurray_buffer_list_destroy \/ hurray_tensor_destroy \/ hurray_item_destroy
  \/ ReleaseReturns

Next ==
  \/ hurray_buffer_from_ptr \/ hurray_buffer_list_new \/ hurray_descriptor_decode
  \/ hurray_tensor_context_new \/ HandOutTensor \/ HandOutItem
  \/ \E l, b \in held : hurray_buffer_list_push(l, b)
  \/ \E l \in Known("List") : hurray_buffer_list_get(l)
  \/ \E t \in Known("Tensor") : TensorGet(t)
  \/ \E it \in Known("Item") : hurray_item_node(it)
  \/ \E a \in held : Destroy(a)
  \/ Library

Spec == Init /\ [][Next]_vars

-----------------------------------------------------------------------------
Address == 1 .. Len(heap)

\* What each slot of a handle may point to, besides null.
SlotKind(kind, i) == CASE kind = "List" -> "Buffer"
                       [] kind = "Tensor" -> IF i = 1 THEN "Descriptor" ELSE "List"
                       [] kind = "Item" -> "Tensor"

TypeOK ==
  /\ created \in 0 .. MaxCreated
  /\ \A a \in Address :
        /\ heap[a].kind \in Kinds /\ heap[a].release \in Releases
        /\ heap[a].marked \in BOOLEAN
        /\ \A i \in DOMAIN heap[a].slots : LET p == heap[a].slots[i] IN
              p # Null => p \in Address /\ heap[p].kind = SlotKind(heap[a].kind, i)
  /\ held \subseteq Address
  /\ \A b \in borrowed : b.ptr \in Address /\ b.owner \in Address
  /\ \A i \in DOMAIN frames : frames[i].arg \in Address

\* No handle is freed twice and no release callback is called twice, whatever a release
\* callback calls: another destroy, or again the destroy it is called from
\* (buffer_list.rs:315-317).
FreedOnce == \A a \in Address : heap[a].freed <= 1 /\ heap[a].released <= 1

\* When the C program holds nothing any more and no call is under way, every allocation was
\* freed and every release callback was called: ownership that moved into a list, a tensor
\* or an item, or that a refused push left with the caller, is never lost.
NothingLeaks ==
  (held = {} /\ frames = <<>>) =>
     \A a \in Address : heap[a].freed > 0 /\ (heap[a].hook => heap[a].released > 0)

\* Every handle and every release callback goes exactly once: FreedOnce while the program runs,
\* NothingLeaks at its end.
FreedExactlyOnce == FreedOnce /\ NothingLeaks

\* A pointer a getter handed out stays good until its owner is destroyed, and a getter
\* called from a release callback does not hand out the buffer that is being released.
BorrowedIsLive ==
  \A b \in borrowed : b.fresh /\ (~ heap[b.owner].marked => Live(b.ptr))

\* While the C program runs, in a release callback too, no non-null handle variable of it
\* points to a freed handle: a cleanup path that tests for null is safe at any time.
NoDanglingHandle == CallerRuns => \A a \in held : Live(a)

\* Every pointer a C program may still use is good: links between handles are of the right
\* kind, borrowed pointers are live and no held handle dangles.
PointersAreGood == TypeOK /\ BorrowedIsLive /\ NoDanglingHandle
=============================================================================
