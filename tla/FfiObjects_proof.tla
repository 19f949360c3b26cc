-------------------------- MODULE FfiObjects_proof --------------------------
(***************************************************************************)
(* No handle of the C ABI is freed twice, none leaks and no pointer the C  *)
(* program may use dangles: proof, for a build with debug assertions, any  *)
(* number of handles, lists of any length and callbacks that call the ABI  *)
(* again to any depth.                                                     *)
(*                                                                         *)
(* The invariant is unique ownership: an allocation that is not freed is   *)
(* held by the C program, or is in one slot of one other allocation, or is *)
(* the argument of a destroy function under way, or is `hand`, the pointer *)
(* that a teardown loop has taken out of a slot and not passed on yet.     *)
(***************************************************************************)
EXTENDS FfiObjects, TLAPS

Compound == {"List", "Tensor", "Item"}

ObjectType == [kind : Kinds, slots : Seq(Nat), release : Releases, hook : BOOLEAN,
               marked : BOOLEAN, freed : Nat, released : Nat]
FrameType == [fn : Compound \cup {"Release"}, arg : Nat, next : Nat]

Typed(h, fr) == h \in Seq(ObjectType) /\ fr \in Seq(FrameType)

\* The sentinel, the release callback and the frees of one allocation go together.
ObjectOK(o) ==
  /\ o.marked => o.release = "None" /\ o.released <= 1 /\ (o.hook => o.released = 1)
  /\ ~ o.marked => o.released = 0 /\ (o.hook => o.release # "None")
  /\ o.freed <= 1
  /\ o.freed = 1 => (o.marked \/ o.kind = "Descriptor") /\ \A i \in DOMAIN o.slots : o.slots[i] = Null
  /\ o.hook \/ o.release # "None" => o.kind \in {"Buffer", "Context"}
  /\ o.kind = "Context" => o.release # "Bytes"
  /\ o.kind \notin Compound => o.slots = <<>>
  /\ o.kind = "Tensor" => Len(o.slots) = 2
  /\ o.kind \in {"Tensor", "Item"} /\ ~ o.marked => \A i \in DOMAIN o.slots : o.slots[i] # Null
  /\ o.kind = "Descriptor" => ~ o.marked

Objects(h) == \A a \in DOMAIN h : ObjectOK(h[a])

\* A slot owns an allocation of the right kind that nobody is destroying.
Links(h) ==
  \A o \in DOMAIN h : \A i \in DOMAIN h[o].slots :
     h[o].slots[i] # Null =>
        /\ h[o].slots[i] \in DOMAIN h
        /\ h[h[o].slots[i]].kind = SlotKind(h[o].kind, i)
        /\ ~ h[h[o].slots[i]].marked /\ h[h[o].slots[i]].freed = 0

OneSlot(h) ==
  \A o, q \in DOMAIN h : \A i \in DOMAIN h[o].slots, j \in DOMAIN h[q].slots :
     h[o].slots[i] # Null /\ h[o].slots[i] = h[q].slots[j] => o = q /\ i = j

SlotOnly(h, H, hand) ==
  \A o \in DOMAIN h : \A i \in DOMAIN h[o].slots :
     h[o].slots[i] # Null => h[o].slots[i] \notin H /\ h[o].slots[i] # hand

\* A handle of the C program is not freed, and one that its destroy function nulls on entry is
\* not being destroyed either.
Handles(h, H) ==
  \A a \in H : a \in DOMAIN h /\ h[a].freed = 0 /\ (h[a].kind \in NulledOnEntry => ~ h[a].marked)

Hand(h, H, hand) ==
  hand # Null =>
     /\ hand \in DOMAIN h /\ ~ h[hand].marked /\ h[hand].freed = 0
     /\ h[hand].kind \in NulledOnEntry => hand \notin H

\* What a destroy function under way relies on when it goes on.
FrameOK(o, f) ==
  /\ o.marked
  /\ \/ f.fn = "Release" /\ o.kind = "Buffer" /\ o.freed = 0
     \/ f.fn = "Release" /\ o.kind = "Context" /\ o.freed = 1
     \/ /\ f.fn \in Compound /\ f.fn = o.kind /\ o.freed = 0 /\ f.next >= 1
        /\ \A j \in DOMAIN o.slots : j < f.next => o.slots[j] = Null

Stack(h, fr) == \A k \in DOMAIN fr : fr[k].arg \in DOMAIN h /\ FrameOK(h[fr[k].arg], fr[k])

OneFrame(fr) == \A j, k \in DOMAIN fr : fr[j].arg = fr[k].arg => j = k

\* The buffers of a tensor that was read release their bytes and call nobody, so no callback
\* runs inside the destruction of a tensor or of an item.
BytesOnly(h, l) ==
  \A i \in DOMAIN h[l].slots : h[l].slots[i] # Null => h[h[l].slots[i]].release = "Bytes"

TensorBytes(h) ==
  \A t \in DOMAIN h : h[t].kind = "Tensor" /\ h[t].slots[2] # Null => BytesOnly(h, h[t].slots[2])

Outer(fr, k) == \E j \in DOMAIN fr : j < k /\ fr[j].fn \in {"Tensor", "Item"}

QuietInside(h, fr) ==
  \A k \in DOMAIN fr : Outer(fr, k) =>
     fr[k].fn # "Release" /\ (fr[k].fn = "List" => BytesOnly(h, fr[k].arg))

\* What is not freed has an owner.
Owned(h, fr, H, hand) ==
  \A a \in DOMAIN h : h[a].freed = 0 =>
     \/ a \in H \/ a = hand
     \/ \E k \in DOMAIN fr : fr[k].arg = a
     \/ \E o \in DOMAIN h : \E i \in DOMAIN h[o].slots : h[o].slots[i] = a

\* What is marked and not freed yet is on the stack.
Framed(h, fr) ==
  \A a \in DOMAIN h : h[a].marked /\ h[a].freed = 0 => \E k \in DOMAIN fr : fr[k].arg = a

Ownership(h, fr, H, hand) ==
  /\ Typed(h, fr) /\ Objects(h) /\ Links(h) /\ OneSlot(h) /\ SlotOnly(h, H, hand)
  /\ Handles(h, H) /\ Hand(h, H, hand) /\ Stack(h, fr) /\ OneFrame(fr)
  /\ TensorBytes(h) /\ QuietInside(h, fr) /\ Owned(h, fr, H, hand) /\ Framed(h, fr)

\* A borrowed pointer was good when it was handed out, and is in its owner's slots for as long
\* as nobody destroys the owner.
Borrows(h, B) ==
  \A b \in B : /\ b.ptr \in DOMAIN h /\ b.owner \in DOMAIN h /\ b.fresh
               /\ ~ h[b.owner].marked => \E i \in DOMAIN h[b.owner].slots : h[b.owner].slots[i] = b.ptr

IInv == created \in 0 .. MaxCreated /\ Ownership(heap, frames, held, Null) /\ Borrows(heap, borrowed)

-----------------------------------------------------------------------------
LEMMA Appended ==
  ASSUME NEW S, NEW s \in Seq(S), NEW e \in S
  PROVE  /\ Append(s, e) \in Seq(S) /\ Len(Append(s, e)) = Len(s) + 1
         /\ DOMAIN Append(s, e) = DOMAIN s \cup {Len(s) + 1} /\ DOMAIN s = 1 .. Len(s)
         /\ \A k \in DOMAIN s : Append(s, e)[k] = s[k]
         /\ Append(s, e)[Len(s) + 1] = e /\ Append(s, e) # s
  OBVIOUS

LEMMA SecondSlot ==
  ASSUME NEW h \in Seq(ObjectType), Objects(h), NEW t \in DOMAIN h, h[t].kind = "Tensor"
  PROVE  2 \in DOMAIN h[t].slots
<1>1. ObjectOK(h[t]) /\ h[t] \in ObjectType
  BY DEF Objects
<1>2. h[t].slots \in Seq(Nat)
  BY <1>1 DEF ObjectType
<1> QED
  BY <1>1, <1>2 DEF ObjectOK

\* h2 is h but for the sentinel, the callback and the frees of one allocation.
Same(h, h2, a) ==
  /\ h2 \in Seq(ObjectType) /\ DOMAIN h2 = DOMAIN h
  /\ \A b \in DOMAIN h : b # a => h2[b] = h[b]
  /\ h2[a].kind = h[a].kind /\ h2[a].slots = h[a].slots /\ h2[a].hook = h[a].hook

\* The live allocations of h are in h2, with all that is in their slots, or are being destroyed.
KeepsSlots(h, h2) ==
  /\ DOMAIN h \subseteq DOMAIN h2
  /\ \A a \in DOMAIN h : ~ h2[a].marked =>
        /\ ~ h[a].marked
        /\ \A i \in DOMAIN h[a].slots : i \in DOMAIN h2[a].slots /\ h2[a].slots[i] = h[a].slots[i]

\* The step at the heart of a destruction: what was in hand is marked, and is freed or goes on
\* the stack.  Nothing else changes, and no slot does.
LEMMA HandIsDestroyed ==
  ASSUME NEW h, NEW fr, NEW H, NEW a, Ownership(h, fr, H, a), a # Null,
         NEW h2, Same(h, h2, a), ObjectOK(h2[a]), h2[a].marked \/ h2[a].kind = "Descriptor",
         NEW fr2, NEW f \in FrameType, f.arg = a, FrameOK(h2[a], f) \/ fr2 = fr,
         fr2 = fr \/ fr2 = Append(fr, f),
         h2[a].freed = 0 => fr2 # fr,
         a \in H => h2[a].freed = 0,
         f.fn = "Release" => ~ Outer(fr, Len(fr) + 1),
         f.fn = "List" => BytesOnly(h, a) \/ ~ Outer(fr, Len(fr) + 1)
  PROVE  Ownership(h2, fr2, H, Null)
<1> USE DEF Null
<1>1. /\ h \in Seq(ObjectType) /\ fr \in Seq(FrameType)
      /\ a \in DOMAIN h /\ ~ h[a].marked /\ h[a].freed = 0
  BY DEF Ownership, Typed, Hand
<1>2. /\ h2 \in Seq(ObjectType) /\ DOMAIN h2 = DOMAIN h
      /\ \A b \in DOMAIN h : b # a => h2[b] = h[b]
  BY DEF Same
<1>3. \A b \in DOMAIN h : h2[b].kind = h[b].kind /\ h2[b].slots = h[b].slots
  BY <1>2 DEF Same
<1>4. /\ fr2 \in Seq(FrameType) /\ DOMAIN fr \subseteq DOMAIN fr2
      /\ \A k \in DOMAIN fr : fr2[k] = fr[k]
      /\ \A k \in DOMAIN fr2 : k \in DOMAIN fr \/ (k = Len(fr) + 1 /\ fr2[k] = f)
      /\ fr2 # fr => Len(fr) + 1 \in DOMAIN fr2 /\ fr2[Len(fr) + 1] = f
  <2>1. CASE fr2 = fr
    BY <2>1, <1>1
  <2>2. CASE fr2 = Append(fr, f)
    BY <2>2, <1>1, Appended
  <2> QED
    BY <2>1, <2>2
<1>5. \A k \in DOMAIN fr : fr[k].arg # a
  BY <1>1 DEF Ownership, Stack, FrameOK
<1>6. \A o \in DOMAIN h : \A i \in DOMAIN h[o].slots : h[o].slots[i] # 0 => h[o].slots[i] # a
  BY DEF Ownership, SlotOnly
<1>7. Typed(h2, fr2)
  BY <1>2, <1>4 DEF Typed
<1>8. Objects(h2)
  BY <1>2 DEF Ownership, Objects
<1>9. Links(h2)
  BY <1>2, <1>3, <1>6 DEF Ownership, Links
<1>10. OneSlot(h2)
  BY <1>2, <1>3 DEF Ownership, OneSlot
<1>11. SlotOnly(h2, H, 0)
  BY <1>2, <1>3 DEF Ownership, SlotOnly
<1>12. Handles(h2, H)
  BY <1>1, <1>2, <1>3 DEF Ownership, Handles, Hand
<1>13. Hand(h2, H, 0)
  BY DEF Hand
<1>14. Stack(h2, fr2)
  BY <1>1, <1>2, <1>4, <1>5 DEF Ownership, Stack
<1>15. OneFrame(fr2)
  BY <1>4, <1>5 DEF Ownership, OneFrame
<1>16. \A l \in DOMAIN h : BytesOnly(h, l) => BytesOnly(h2, l)
  BY <1>2, <1>3, <1>6 DEF Ownership, Links, BytesOnly
<1>17. TensorBytes(h2)
  <2> SUFFICES ASSUME NEW t \in DOMAIN h2, h2[t].kind = "Tensor", h2[t].slots[2] # 0
               PROVE  BytesOnly(h2, h2[t].slots[2])
    BY DEF TensorBytes
  <2> t \in DOMAIN h /\ h[t].kind = "Tensor" /\ h[t].slots = h2[t].slots
    BY <1>2, <1>3
  <2>1. 2 \in DOMAIN h[t].slots
    BY <1>1, SecondSlot DEF Ownership
  <2> QED
    BY <2>1, <1>16 DEF Ownership, TensorBytes, Links
<1>18. QuietInside(h2, fr2)
  <2> SUFFICES ASSUME NEW k \in DOMAIN fr2, Outer(fr2, k)
               PROVE  fr2[k].fn # "Release" /\ (fr2[k].fn = "List" => BytesOnly(h2, fr2[k].arg))
    BY DEF QuietInside
  <2>1. Outer(fr, k)
    BY <1>1, <1>4 DEF Outer
  <2>2. CASE k \in DOMAIN fr
    BY <2>1, <2>2, <1>4, <1>16 DEF Ownership, QuietInside, Stack
  <2>3. CASE k = Len(fr) + 1 /\ fr2[k] = f
    BY <2>1, <2>3, <1>1, <1>16
  <2> QED
    BY <2>2, <2>3, <1>4
<1>19. Owned(h2, fr2, H, 0)
  <2> SUFFICES ASSUME NEW b \in DOMAIN h, h2[b].freed = 0
               PROVE  \/ b \in H \/ b = 0
                      \/ \E k \in DOMAIN fr2 : fr2[k].arg = b
                      \/ \E o \in DOMAIN h2 : \E i \in DOMAIN h2[o].slots : h2[o].slots[i] = b
    BY <1>2 DEF Owned
  <2>1. CASE b = a
    BY <2>1, <1>2, <1>4
  <2>2. CASE b # a
    <3>1. h[b].freed = 0
      BY <2>2, <1>2
    <3>2. \/ b \in H
          \/ \E k \in DOMAIN fr : fr[k].arg = b
          \/ \E o \in DOMAIN h : \E i \in DOMAIN h[o].slots : h[o].slots[i] = b
      BY <2>2, <3>1 DEF Ownership, Owned
    <3> QED
      BY <3>2, <1>2, <1>3, <1>4
  <2> QED
    BY <2>1, <2>2
<1>20. Framed(h2, fr2)
  <2> SUFFICES ASSUME NEW b \in DOMAIN h, h2[b].marked, h2[b].freed = 0
               PROVE  \E k \in DOMAIN fr2 : fr2[k].arg = b
    BY <1>2 DEF Framed
  <2>1. CASE b = a
    BY <2>1, <1>4
  <2>2. CASE b # a
    BY <2>2, <1>2, <1>4 DEF Ownership, Framed
  <2> QED
    BY <2>1, <2>2
<1> QED
  BY <1>7, <1>8, <1>9, <1>10, <1>11, <1>12, <1>13, <1>14, <1>15, <1>17, <1>18, <1>19, <1>20
     DEF Ownership

LEMMA OneUpdate ==
  ASSUME NEW h \in Seq(ObjectType), NEW a \in DOMAIN h, NEW r \in ObjectType,
         r.kind = h[a].kind, r.slots = h[a].slots, r.hook = h[a].hook
  PROVE  Same(h, [h EXCEPT ![a] = r], a) /\ [h EXCEPT ![a] = r][a] = r
BY DEF Same

LEMMA Counts ==
  ASSUME NEW o \in ObjectType
  PROVE  [o EXCEPT !.freed = @ + 1] \in ObjectType /\ [o EXCEPT !.released = @ + 1] \in ObjectType
<1>1. [o EXCEPT !.freed = @ + 1] \in ObjectType
  BY DEF ObjectType
<1>2. [o EXCEPT !.released = @ + 1] \in ObjectType
  BY DEF ObjectType
<1> QED
  BY <1>1, <1>2

\* How a destroy function changes the fields of an allocation.
LEMMA Marked ==
  ASSUME NEW h \in Seq(ObjectType), NEW a \in DOMAIN h
  PROVE  /\ Same(h, Mark(h, a), a) /\ Mark(h, a)[a].marked
         /\ Mark(h, a)[a].release = h[a].release /\ Mark(h, a)[a].released = h[a].released
         /\ Mark(h, a)[a].freed = h[a].freed
<1> DEFINE o == h[a]
           r == [o EXCEPT !.marked = TRUE]
<1>1. o \in ObjectType
  OBVIOUS
<1> HIDE DEF o
<1>2. /\ r \in ObjectType /\ r.kind = o.kind /\ r.slots = o.slots /\ r.hook = o.hook
      /\ r.marked /\ r.release = o.release /\ r.released = o.released /\ r.freed = o.freed
  BY <1>1 DEF ObjectType
<1>3. Mark(h, a) = [h EXCEPT ![a] = r]
  BY DEF Mark, o
<1> HIDE DEF r
<1> QED
  BY <1>2, <1>3, OneUpdate DEF o

LEMMA Freed ==
  ASSUME NEW h \in Seq(ObjectType), NEW a \in DOMAIN h
  PROVE  /\ Same(h, Free(h, a), a) /\ Free(h, a)[a].marked = h[a].marked
         /\ Free(h, a)[a].release = h[a].release /\ Free(h, a)[a].released = h[a].released
         /\ Free(h, a)[a].freed = h[a].freed + 1
<1> DEFINE o == h[a]
           r == [o EXCEPT !.freed = @ + 1]
<1>1. o \in ObjectType
  OBVIOUS
<1> HIDE DEF o
<1>2. /\ r \in ObjectType /\ r.kind = o.kind /\ r.slots = o.slots /\ r.hook = o.hook
      /\ r.marked = o.marked /\ r.release = o.release /\ r.released = o.released
      /\ r.freed = o.freed + 1
  <2>1. r \in ObjectType
    BY <1>1, Counts
  <2>2. r.freed = o.freed + 1
    BY <1>1 DEF ObjectType
  <2> QED
    BY <1>1, <2>1, <2>2 DEF ObjectType
<1>3. Free(h, a) = [h EXCEPT ![a] = r]
  BY DEF Free, o
<1> HIDE DEF r
<1> QED
  BY <1>2, <1>3, OneUpdate DEF o

LEMMA Taken ==
  ASSUME NEW h \in Seq(ObjectType), NEW a \in DOMAIN h
  PROVE  /\ Same(h, Take(h, a), a) /\ Take(h, a)[a].marked
         /\ Take(h, a)[a].release = "None" /\ Take(h, a)[a].released = h[a].released
         /\ Take(h, a)[a].freed = h[a].freed
<1> DEFINE m == Mark(h, a)
           o == m[a]
           r == [o EXCEPT !.release = "None"]
<1>1. m \in Seq(ObjectType) /\ a \in DOMAIN m /\ o \in ObjectType
  BY Marked DEF Same
<1> HIDE DEF o
<1>2. /\ r \in ObjectType /\ r.kind = o.kind /\ r.slots = o.slots /\ r.hook = o.hook
      /\ r.marked = o.marked /\ r.release = "None" /\ r.released = o.released /\ r.freed = o.freed
  BY <1>1 DEF ObjectType, Releases
<1>3. Take(h, a) = [m EXCEPT ![a] = r]
  BY DEF Take, o
<1> HIDE DEF r, m
<1>4. Same(m, [m EXCEPT ![a] = r], a) /\ [m EXCEPT ![a] = r][a] = r
  <2>1. r.kind = m[a].kind /\ r.slots = m[a].slots /\ r.hook = m[a].hook
    BY <1>2 DEF o
  <2> QED
    BY <1>1, <1>2, <2>1, OneUpdate
<1> QED
  BY <1>2, <1>3, <1>4, Marked DEF Same, o, m

LEMMA CalledBack ==
  ASSUME NEW h \in Seq(ObjectType), NEW a \in DOMAIN h
  PROVE  /\ Same(h, Called(h, a), a) /\ Called(h, a)[a].marked
         /\ Called(h, a)[a].release = "None" /\ Called(h, a)[a].released = h[a].released + 1
         /\ Called(h, a)[a].freed = h[a].freed
<1> DEFINE t == Take(h, a)
           o == t[a]
           r == [o EXCEPT !.released = @ + 1]
<1>1. t \in Seq(ObjectType) /\ a \in DOMAIN t /\ o \in ObjectType
  BY Taken DEF Same
<1> HIDE DEF o
<1>2. /\ r \in ObjectType /\ r.kind = o.kind /\ r.slots = o.slots /\ r.hook = o.hook
      /\ r.marked = o.marked /\ r.release = o.release /\ r.released = o.released + 1
      /\ r.freed = o.freed
  <2>1. r \in ObjectType
    BY <1>1, Counts
  <2>2. r.released = o.released + 1
    BY <1>1 DEF ObjectType
  <2> QED
    BY <1>1, <2>1, <2>2 DEF ObjectType
<1>3. Called(h, a) = [t EXCEPT ![a] = r]
  BY DEF Called, o
<1> HIDE DEF r, t
<1>4. Same(t, [t EXCEPT ![a] = r], a) /\ [t EXCEPT ![a] = r][a] = r
  <2>1. r.kind = t[a].kind /\ r.slots = t[a].slots /\ r.hook = t[a].hook
    BY <1>2 DEF o
  <2> QED
    BY <1>1, <1>2, <2>1, OneUpdate
<1> QED
  BY <1>2, <1>3, <1>4, Taken DEF Same, o, t

\* A buffer or a context after its destroy function took its callback and called it.
LEMMA ReleasedOK ==
  ASSUME NEW o \in ObjectType, ObjectOK(o), ~ o.marked, o.kind \in {"Buffer", "Context"},
         NEW r \in ObjectType, r.kind = o.kind, r.slots = o.slots, r.hook = o.hook,
         r.marked, r.release = "None", r.freed <= 1,
         o.release = "None" => r.released = o.released,
         o.release # "None" => r.released = o.released + 1
  PROVE  ObjectOK(r)
<1>1. o.released = 0 /\ (o.hook => o.release # "None") /\ o.slots = <<>>
  BY DEF ObjectOK, Compound
<1>2. r.released <= 1 /\ (r.hook => r.released = 1)
  BY <1>1
<1>3. DOMAIN r.slots = {}
  BY <1>1
<1> QED
  BY <1>1, <1>2, <1>3 DEF ObjectOK, Compound

\* A destroy function called on what is in hand keeps unique ownership.  A callback may only
\* run when no tensor and no item is being destroyed further out.
LEMMA EnterKeepsOwnership ==
  ASSUME NEW h, NEW fr, NEW H, NEW a, Ownership(h, fr, H, a), a # Null,
         h[a].release = "Caller" => ~ Outer(fr, Len(fr) + 1),
         h[a].kind = "List" => BytesOnly(h, a) \/ ~ Outer(fr, Len(fr) + 1)
  PROVE  Ownership(Enter(h, fr, a).heap, Enter(h, fr, a).frames, H, Null)
         /\ Same(h, Enter(h, fr, a).heap, a)
<1> DEFINE o == h[a]
           Safe(h2, fr2) == Ownership(h2, fr2, H, Null) /\ Same(h, h2, a)
<1>1. /\ h \in Seq(ObjectType) /\ fr \in Seq(FrameType)
      /\ a \in DOMAIN h /\ o \in ObjectType /\ ~ o.marked /\ o.freed = 0 /\ ObjectOK(o)
      /\ o.kind \in NulledOnEntry => a \notin H
  BY DEF Ownership, Typed, Hand, Objects
<1>2. ASSUME NEW h2, NEW fr2, Enter(h, fr, a) = [heap |-> h2, frames |-> fr2], Safe(h2, fr2)
      PROVE  Ownership(Enter(h, fr, a).heap, Enter(h, fr, a).frames, H, Null)
             /\ Same(h, Enter(h, fr, a).heap, a)
  BY <1>2
<1>3. \A fn \in Compound \cup {"Release"} :
         Frame(fn, a) \in FrameType /\ Frame(fn, a).fn = fn /\ Frame(fn, a).arg = a
         /\ Frame(fn, a).next = 1
  BY <1>1 DEF FrameType, Frame
<1>6. ASSUME NEW h2, Same(h, h2, a), ObjectOK(h2[a]), h2[a].marked \/ h2[a].kind = "Descriptor",
             h2[a].freed # 0, a \notin H
      PROVE  Safe(h2, fr)
  <2>1. Frame("Item", a) \in FrameType /\ Frame("Item", a).fn = "Item" /\ Frame("Item", a).arg = a
    BY <1>3 DEF Compound
  <2> QED
    BY <1>6, <2>1, HandIsDestroyed
<1>7. ASSUME NEW h2, NEW fn \in Compound \cup {"Release"},
             Same(h, h2, a), ObjectOK(h2[a]), h2[a].marked, FrameOK(h2[a], Frame(fn, a)),
             a \in H => h2[a].freed = 0,
             fn = "Release" => ~ Outer(fr, Len(fr) + 1),
             fn = "List" => BytesOnly(h, a) \/ ~ Outer(fr, Len(fr) + 1)
      PROVE  Safe(h2, Append(fr, Frame(fn, a)))
  <2> DEFINE f == Frame(fn, a)
             fr2 == Append(fr, f)
  <2>1. f \in FrameType /\ f.fn = fn /\ f.arg = a /\ FrameOK(h2[a], f)
    BY <1>3, <1>7
  <2> HIDE DEF f
  <2>2. fr2 # fr
    BY <1>1, <2>1, Appended
  <2> HIDE DEF fr2
  <2>3. fr2 = Append(fr, f)
    BY DEF fr2
  <2>4. Ownership(h2, fr2, H, Null)
    BY <1>7, <2>1, <2>2, <2>3, HandIsDestroyed
  <2> QED
    BY <1>7, <2>4 DEF fr2, f
<1> HIDE DEF Safe
<1>8. CASE o.kind = "Buffer"
  <2>1. /\ Enter(h, fr, a) = hurray_buffer_destroy(h, fr, a) /\ a \notin H
        /\ o.release \in Releases /\ o.released = 0 /\ (o.hook => o.release # "None")
        /\ o.slots = <<>> /\ o.released \in Nat
    BY <1>1, <1>8 DEF Enter, NulledOnEntry, ObjectOK, ObjectType, Compound
  <2>2. CASE o.release = "Caller"
    <3>1. Enter(h, fr, a) = [heap |-> Called(h, a), frames |-> Append(fr, Frame("Release", a))]
      BY <2>1, <2>2 DEF hurray_buffer_destroy
    <3> DEFINE h2 == Called(h, a)
    <3>2. /\ Same(h, h2, a) /\ h2[a] \in ObjectType /\ h2[a].marked /\ h2[a].release = "None"
          /\ h2[a].released = o.released + 1 /\ h2[a].freed = 0
      BY <1>1, CalledBack DEF Same
    <3> HIDE DEF h2
    <3>3. ObjectOK(h2[a])
      BY <1>1, <1>8, <2>2, <3>2, ReleasedOK DEF Same
    <3>4. FrameOK(h2[a], Frame("Release", a))
      BY <1>3, <1>8, <3>2 DEF Same, FrameOK
    <3>5. Safe(h2, Append(fr, Frame("Release", a)))
      BY <1>7, <2>1, <2>2, <3>2, <3>3, <3>4
    <3> QED
      BY <1>2, <3>1, <3>5 DEF h2
  <2>3. CASE o.release = "Bytes"
    <3>1. Enter(h, fr, a) = [heap |-> Free(Called(h, a), a), frames |-> fr]
      BY <2>1, <2>3 DEF hurray_buffer_destroy
    <3> DEFINE g == Called(h, a)
               h2 == Free(g, a)
    <3>2. /\ Same(h, g, a) /\ g[a].marked /\ g[a].release = "None"
          /\ g[a].released = o.released + 1 /\ g[a].freed = 0
      BY <1>1, CalledBack
    <3> HIDE DEF g
    <3>3. /\ Same(h, h2, a) /\ h2[a] \in ObjectType /\ h2[a].marked /\ h2[a].release = "None"
          /\ h2[a].released = o.released + 1 /\ h2[a].freed = 1
      BY <1>1, <3>2, Freed DEF Same
    <3> HIDE DEF h2
    <3>4. ObjectOK(h2[a])
      BY <1>1, <1>8, <2>3, <3>3, ReleasedOK DEF Same
    <3>5. Safe(h2, fr)
      BY <1>6, <2>1, <3>3, <3>4
    <3> QED
      BY <1>2, <3>1, <3>5 DEF h2, g
  <2>4. CASE o.release = "None"
    <3>1. Enter(h, fr, a) = [heap |-> Free(Take(h, a), a), frames |-> fr]
      BY <2>1, <2>4 DEF hurray_buffer_destroy
    <3> DEFINE g == Take(h, a)
               h2 == Free(g, a)
    <3>2. /\ Same(h, g, a) /\ g[a].marked /\ g[a].release = "None"
          /\ g[a].released = o.released /\ g[a].freed = 0
      BY <1>1, Taken
    <3> HIDE DEF g
    <3>3. /\ Same(h, h2, a) /\ h2[a] \in ObjectType /\ h2[a].marked /\ h2[a].release = "None"
          /\ h2[a].released = o.released /\ h2[a].freed = 1
      BY <1>1, <3>2, Freed DEF Same
    <3> HIDE DEF h2
    <3>4. ObjectOK(h2[a])
      BY <1>1, <1>8, <2>4, <3>3, ReleasedOK DEF Same
    <3>5. Safe(h2, fr)
      BY <1>6, <2>1, <3>3, <3>4
    <3> QED
      BY <1>2, <3>1, <3>5 DEF h2, g
  <2> QED
    BY <2>1, <2>2, <2>3, <2>4 DEF Releases
<1>9. CASE o.kind = "Context"
  <2>1. /\ Enter(h, fr, a) = hurray_tensor_context_destroy(h, fr, a) /\ a \notin H
        /\ o.release \in {"None", "Caller"}
    BY <1>1, <1>9 DEF Enter, NulledOnEntry, ObjectOK, ObjectType, Releases
  <2>2. CASE o.release = "Caller"
    <3>1. Enter(h, fr, a) = [heap |-> Free(Called(h, a), a), frames |-> Append(fr, Frame("Release", a))]
      BY <2>1, <2>2 DEF hurray_tensor_context_destroy
    <3> DEFINE g == Called(h, a)
               h2 == Free(g, a)
    <3>2. /\ Same(h, g, a) /\ g[a].marked /\ g[a].release = "None"
          /\ g[a].released = o.released + 1 /\ g[a].freed = 0
      BY <1>1, CalledBack
    <3> HIDE DEF g
    <3>3. /\ Same(h, h2, a) /\ h2[a] \in ObjectType /\ h2[a].marked /\ h2[a].release = "None"
          /\ h2[a].released = o.released + 1 /\ h2[a].freed = 1
      BY <1>1, <3>2, Freed DEF Same
    <3> HIDE DEF h2
    <3>4. ObjectOK(h2[a])
      BY <1>1, <1>9, <2>2, <3>3, ReleasedOK DEF Same
    <3>5. FrameOK(h2[a], Frame("Release", a))
      BY <1>3, <1>9, <3>3 DEF Same, FrameOK
    <3>6. Safe(h2, Append(fr, Frame("Release", a)))
      BY <1>7, <2>1, <2>2, <3>3, <3>4, <3>5
    <3> QED
      BY <1>2, <3>1, <3>6 DEF h2, g
  <2>3. CASE o.release # "Caller"
    <3>1. Enter(h, fr, a) = [heap |-> Free(Take(h, a), a), frames |-> fr]
      BY <2>1, <2>3 DEF hurray_tensor_context_destroy
    <3> DEFINE g == Take(h, a)
               h2 == Free(g, a)
    <3>2. /\ Same(h, g, a) /\ g[a].marked /\ g[a].release = "None"
          /\ g[a].released = o.released /\ g[a].freed = 0
      BY <1>1, Taken
    <3> HIDE DEF g
    <3>3. /\ Same(h, h2, a) /\ h2[a] \in ObjectType /\ h2[a].marked /\ h2[a].release = "None"
          /\ h2[a].released = o.released /\ h2[a].freed = 1
      BY <1>1, <3>2, Freed DEF Same
    <3> HIDE DEF h2
    <3>4. ObjectOK(h2[a])
      BY <1>1, <1>9, <2>1, <2>3, <3>3, ReleasedOK DEF Same
    <3>5. Safe(h2, fr)
      BY <1>6, <2>1, <3>3, <3>4
    <3> QED
      BY <1>2, <3>1, <3>5 DEF h2, g
  <2> QED
    BY <2>2, <2>3
<1>10. CASE o.kind = "Descriptor"
  <2> DEFINE h2 == Free(h, a)
  <2>1. Enter(h, fr, a) = [heap |-> h2, frames |-> fr] /\ a \notin H
    BY <1>1, <1>10 DEF Enter, NulledOnEntry
  <2>2. /\ Same(h, h2, a) /\ h2[a] \in ObjectType /\ ~ h2[a].marked /\ h2[a].release = o.release
        /\ h2[a].released = o.released /\ h2[a].freed = 1
    BY <1>1, Freed DEF Same
  <2> HIDE DEF h2
  <2>3. o.slots = <<>> /\ o.released = 0 /\ ~ o.hook /\ o.release = "None"
    BY <1>1, <1>10 DEF ObjectOK, Compound
  <2>4. ObjectOK(h2[a])
    BY <1>10, <2>2, <2>3 DEF Same, ObjectOK, Compound
  <2>5. Safe(h2, fr)
    BY <1>6, <1>10, <2>1, <2>2, <2>4 DEF Same
  <2> QED
    BY <1>2, <2>1, <2>5 DEF h2
<1>11. CASE o.kind \in Compound
  <2> DEFINE h2 == Mark(h, a)
  <2>1. Enter(h, fr, a) = [heap |-> h2, frames |-> Append(fr, Frame(o.kind, a))]
    BY <1>1, <1>11 DEF Enter, Compound
  <2>2. /\ Same(h, h2, a) /\ h2[a] \in ObjectType /\ h2[a].marked /\ h2[a].release = o.release
        /\ h2[a].released = o.released /\ h2[a].freed = 0
    BY <1>1, Marked DEF Same
  <2> HIDE DEF h2
  <2>3. o.released = 0 /\ ~ o.hook /\ o.release = "None" /\ o.kind # "Descriptor"
    BY <1>1, <1>11 DEF ObjectOK, Compound
  <2>4. ObjectOK(h2[a])
    BY <1>1, <1>11, <2>2, <2>3 DEF Same, ObjectOK, Compound
  <2>5. FrameOK(h2[a], Frame(o.kind, a))
    <3>1. \A j \in DOMAIN o.slots : ~ (j < 1)
      BY <1>1 DEF ObjectType
    <3> QED
      BY <1>3, <1>11, <2>2, <3>1 DEF Same, FrameOK
  <2>6. Safe(h2, Append(fr, Frame(o.kind, a)))
    BY <1>7, <1>11, <2>2, <2>4, <2>5 DEF Compound
  <2> QED
    BY <1>2, <2>1, <2>6 DEF h2
<1> QED
  BY <1>1, <1>8, <1>9, <1>10, <1>11 DEF ObjectType, Kinds, Compound

-----------------------------------------------------------------------------
LEMMA Popped ==
  ASSUME NEW S, NEW s \in Seq(S), s # <<>>
  PROVE  /\ Front(s) \in Seq(S) /\ Last(s) = s[Len(s)] /\ Len(s) \in DOMAIN s /\ Last(s) \in S
         /\ DOMAIN s = 1 .. Len(s) /\ Len(Front(s)) = Len(s) - 1 /\ DOMAIN Front(s) = 1 .. (Len(s) - 1)
         /\ \A k \in DOMAIN Front(s) : k \in DOMAIN s /\ k # Len(s) /\ Front(s)[k] = s[k]
         /\ \A k \in DOMAIN s : k # Len(s) => k \in DOMAIN Front(s)
<1>1. Len(s) \in Nat \ {0} /\ DOMAIN s = 1 .. Len(s)
  OBVIOUS
<1>2. Front(s) = SubSeq(s, 1, Len(s) - 1) /\ Last(s) = s[Len(s)]
  BY DEF Front, Last
<1>3. /\ Front(s) \in Seq(S) /\ Len(Front(s)) = Len(s) - 1
      /\ \A k \in 1 .. (Len(s) - 1) : Front(s)[k] = s[k]
  BY <1>1, <1>2
<1>4. DOMAIN Front(s) = 1 .. (Len(s) - 1)
  BY <1>3
<1> QED
  BY <1>1, <1>2, <1>3, <1>4

\* A function on the stack returns: what it destroys is freed by now, with nothing in its slots.
LEMMA FrameReturns ==
  ASSUME NEW h, NEW fr, NEW H, Ownership(h, fr, H, Null), fr # <<>>,
         NEW a, a = Last(fr).arg,
         NEW h2, Same(h, h2, a), ObjectOK(h2[a]), h2[a].marked, h2[a].freed = 1
  PROVE  Ownership(h2, Front(fr), H \ {a}, Null)
<1> USE DEF Null
<1> DEFINE fr2 == Front(fr)
<1>1. /\ h \in Seq(ObjectType) /\ fr \in Seq(FrameType) /\ h2 \in Seq(ObjectType)
      /\ DOMAIN h2 = DOMAIN h /\ \A b \in DOMAIN h : b # a => h2[b] = h[b]
  BY DEF Ownership, Typed, Same
<1>2. /\ a = fr[Len(fr)].arg /\ Len(fr) \in DOMAIN fr
      /\ fr2 \in Seq(FrameType)
      /\ \A k \in DOMAIN fr2 : k \in DOMAIN fr /\ k # Len(fr) /\ fr2[k] = fr[k]
      /\ \A k \in DOMAIN fr : k # Len(fr) => k \in DOMAIN fr2
  BY <1>1, Popped
<1> HIDE DEF fr2
<1>3. \A b \in DOMAIN h : h2[b].kind = h[b].kind /\ h2[b].slots = h[b].slots
  BY <1>1 DEF Same
<1>4. a \in DOMAIN h /\ h[a].marked
  BY <1>2 DEF Ownership, Stack, FrameOK
<1>5. \A o \in DOMAIN h : \A i \in DOMAIN h[o].slots : h[o].slots[i] # 0 => h[o].slots[i] # a
  BY <1>4 DEF Ownership, Links
<1>6. \A k \in DOMAIN fr2 : fr2[k].arg # a
  BY <1>2 DEF Ownership, OneFrame
<1>7. Typed(h2, fr2)
  BY <1>1, <1>2 DEF Typed
<1>8. Objects(h2)
  BY <1>1 DEF Ownership, Objects
<1>9. Links(h2)
  BY <1>1, <1>3, <1>5 DEF Ownership, Links
<1>10. OneSlot(h2)
  BY <1>1, <1>3 DEF Ownership, OneSlot
<1>11. SlotOnly(h2, H \ {a}, 0)
  BY <1>1, <1>3 DEF Ownership, SlotOnly
<1>12. Handles(h2, H \ {a})
  BY <1>1 DEF Ownership, Handles
<1>13. Hand(h2, H \ {a}, 0)
  BY DEF Hand
<1>14. Stack(h2, fr2)
  BY <1>1, <1>2, <1>6 DEF Ownership, Stack
<1>15. OneFrame(fr2)
  BY <1>2 DEF Ownership, OneFrame
<1>16. \A l \in DOMAIN h : BytesOnly(h, l) => BytesOnly(h2, l)
  BY <1>1, <1>3, <1>5 DEF Ownership, Links, BytesOnly
<1>17. TensorBytes(h2)
  BY <1>1, <1>3, <1>16, SecondSlot DEF Ownership, TensorBytes, Links
<1>18. QuietInside(h2, fr2)
  <2> SUFFICES ASSUME NEW k \in DOMAIN fr2, Outer(fr2, k)
               PROVE  fr2[k].fn # "Release" /\ (fr2[k].fn = "List" => BytesOnly(h2, fr2[k].arg))
    BY DEF QuietInside
  <2>1. Outer(fr, k)
    BY <1>2 DEF Outer
  <2> QED
    BY <2>1, <1>2, <1>16 DEF Ownership, QuietInside, Stack
<1>19. Owned(h2, fr2, H \ {a}, 0)
  <2> SUFFICES ASSUME NEW b \in DOMAIN h, h2[b].freed = 0
               PROVE  \/ b \in H \ {a}
                      \/ \E k \in DOMAIN fr2 : fr2[k].arg = b
                      \/ \E o \in DOMAIN h2 : \E i \in DOMAIN h2[o].slots : h2[o].slots[i] = b
    BY <1>1 DEF Owned
  <2>1. b # a /\ h[b].freed = 0 /\ b # 0
    BY <1>1
  <2>2. \/ b \in H
        \/ \E k \in DOMAIN fr : fr[k].arg = b
        \/ \E o \in DOMAIN h : \E i \in DOMAIN h[o].slots : h[o].slots[i] = b
    BY <2>1 DEF Ownership, Owned
  <2>3. CASE b \in H
    BY <2>1, <2>3
  <2>4. CASE \E k \in DOMAIN fr : fr[k].arg = b
    BY <2>1, <2>4, <1>1, <1>2
  <2>5. CASE \E o \in DOMAIN h : \E i \in DOMAIN h[o].slots : h[o].slots[i] = b
    BY <2>1, <2>5, <1>1, <1>3
  <2> QED
    BY <2>2, <2>3, <2>4, <2>5
<1>20. Framed(h2, fr2)
  <2> SUFFICES ASSUME NEW b \in DOMAIN h, h2[b].marked, h2[b].freed = 0
               PROVE  \E k \in DOMAIN fr2 : fr2[k].arg = b
    BY <1>1 DEF Framed
  <2>1. b # a /\ h[b].marked /\ h[b].freed = 0
    BY <1>1
  <2>2. \E k \in DOMAIN fr : fr[k].arg = b
    BY <2>1 DEF Ownership, Framed
  <2> QED
    BY <2>1, <2>2, <1>2
<1> QED
  BY <1>7, <1>8, <1>9, <1>10, <1>11, <1>12, <1>13, <1>14, <1>15, <1>17, <1>18, <1>19, <1>20
     DEF Ownership, fr2

LEMMA NextFrame ==
  ASSUME NEW f \in FrameType
  PROVE  /\ [f EXCEPT !.next = @ + 1] \in FrameType
         /\ [f EXCEPT !.next = @ + 1].fn = f.fn /\ [f EXCEPT !.next = @ + 1].arg = f.arg
         /\ [f EXCEPT !.next = @ + 1].next = f.next + 1
<1>1. [f EXCEPT !.next = @ + 1] \in FrameType
  BY DEF FrameType
<1> QED
  BY <1>1 DEF FrameType

\* The loop goes on to the next slot, when the one before is empty.
LEMMA FrameAdvances ==
  ASSUME NEW h, NEW fr, NEW H, NEW hand, Ownership(h, fr, H, hand), fr # <<>>,
         NEW f, f = Last(fr), f.fn \in Compound,
         f.next \in DOMAIN h[f.arg].slots => h[f.arg].slots[f.next] = Null
  PROVE  Ownership(h, [fr EXCEPT ![Len(fr)].next = @ + 1], H, hand)
<1> DEFINE n == Len(fr)
           g == [f EXCEPT !.next = @ + 1]
           fr2 == [fr EXCEPT ![n] = g]
<1>1. /\ h \in Seq(ObjectType) /\ fr \in Seq(FrameType) /\ f = fr[n] /\ n \in DOMAIN fr
      /\ f \in FrameType /\ [fr EXCEPT ![Len(fr)].next = @ + 1] = fr2
  BY Popped DEF Ownership, Typed
<1>2. g \in FrameType /\ g.fn = f.fn /\ g.arg = f.arg /\ g.next = f.next + 1
  BY <1>1, NextFrame
<1> HIDE DEF g, n
<1>3. /\ fr2 \in Seq(FrameType) /\ DOMAIN fr2 = DOMAIN fr /\ fr2[n] = g
      /\ \A k \in DOMAIN fr : k # n => fr2[k] = fr[k]
  BY <1>1, <1>2
<1> HIDE DEF fr2
<1>4. \A k \in DOMAIN fr : fr2[k].fn = fr[k].fn /\ fr2[k].arg = fr[k].arg
  BY <1>1, <1>2, <1>3
<1>5. Stack(h, fr2)
  <2>1. f.arg \in DOMAIN h /\ FrameOK(h[f.arg], f) /\ h[f.arg].slots \in Seq(Nat)
    <3>1. f.arg \in DOMAIN h /\ FrameOK(h[f.arg], f)
      BY <1>1 DEF Ownership, Stack
    <3>2. h[f.arg] \in ObjectType
      BY <3>1, <1>1
    <3> QED
      BY <3>1, <3>2 DEF ObjectType
  <2>2. f.next \in Nat
    BY <1>1 DEF FrameType
  <2>3. FrameOK(h[f.arg], g)
    BY <2>1, <2>2, <1>2 DEF FrameOK, Compound
  <2> QED
    BY <2>1, <2>3, <1>2, <1>3 DEF Ownership, Stack
<1>6. OneFrame(fr2)
  BY <1>3, <1>4 DEF Ownership, OneFrame
<1>7. QuietInside(h, fr2)
  BY <1>3, <1>4 DEF Ownership, QuietInside, Outer
<1>8. Owned(h, fr2, H, hand)
  BY <1>3, <1>4 DEF Ownership, Owned
<1>9. Framed(h, fr2)
  BY <1>3, <1>4 DEF Ownership, Framed
<1> QED
  BY <1>1, <1>3, <1>5, <1>6, <1>7, <1>8, <1>9 DEF Ownership, Typed

WithoutSlot(h, a, n) == [h EXCEPT ![a].slots[n] = Null]

OneSlotLess(h, h2, a, n) ==
  /\ DOMAIN h2 = DOMAIN h /\ h2[a].slots[n] = Null
  /\ \A b \in DOMAIN h : h2[b].marked = h[b].marked
  /\ \A b \in DOMAIN h : b # a => h2[b] = h[b]
  /\ \A l \in DOMAIN h : BytesOnly(h, l) => BytesOnly(h2, l)

\* The loop takes a pointer out of a slot of what it destroys: it is in hand now.
LEMMA SlotEmptied ==
  ASSUME NEW h, NEW fr, NEW H, Ownership(h, fr, H, Null),
         NEW k0 \in DOMAIN fr, NEW a, a = fr[k0].arg, fr[k0].fn \in Compound,
         NEW n \in DOMAIN h[a].slots, h[a].slots[n] # Null
  PROVE  /\ Ownership(WithoutSlot(h, a, n), fr, H, h[a].slots[n])
         /\ OneSlotLess(h, WithoutSlot(h, a, n), a, n)
<1> USE DEF Null
<1> DEFINE p == h[a].slots[n]
           s == [h[a].slots EXCEPT ![n] = 0]
           r == [h[a] EXCEPT !.slots = s]
           h2 == [h EXCEPT ![a] = r]
<1>1. /\ h \in Seq(ObjectType) /\ fr \in Seq(FrameType) /\ a \in DOMAIN h /\ h[a] \in ObjectType
      /\ FrameOK(h[a], fr[k0])
  BY DEF Ownership, Typed, Stack
<1>2. h[a].slots \in Seq(Nat) /\ h[a].kind \in Compound /\ h[a].marked /\ h[a].freed = 0
  BY <1>1 DEF ObjectType, FrameOK, Compound
<1>3. WithoutSlot(h, a, n) = h2
  BY DEF WithoutSlot
<1>4. /\ s \in Seq(Nat) /\ DOMAIN s = DOMAIN h[a].slots /\ Len(s) = Len(h[a].slots)
      /\ \A i \in DOMAIN s : s[i] = IF i = n THEN 0 ELSE h[a].slots[i]
  BY <1>2
<1> HIDE DEF s
<1>5. /\ r \in ObjectType /\ r.kind = h[a].kind /\ r.slots = s /\ r.hook = h[a].hook
      /\ r.marked = h[a].marked /\ r.release = h[a].release /\ r.released = h[a].released
      /\ r.freed = h[a].freed
  BY <1>1, <1>4 DEF ObjectType
<1> HIDE DEF r
<1>6. /\ h2 \in Seq(ObjectType) /\ DOMAIN h2 = DOMAIN h /\ h2[a] = r
      /\ \A b \in DOMAIN h : b # a => h2[b] = h[b]
  BY <1>1, <1>5
<1> HIDE DEF h2
<1>7. \A b \in DOMAIN h :
         /\ h2[b].kind = h[b].kind /\ h2[b].marked = h[b].marked /\ h2[b].freed = h[b].freed
         /\ h2[b].release = h[b].release /\ DOMAIN h2[b].slots = DOMAIN h[b].slots
         /\ Len(h2[b].slots) = Len(h[b].slots)
         /\ \A i \in DOMAIN h[b].slots : h2[b].slots[i] = IF b = a /\ i = n THEN 0 ELSE h[b].slots[i]
  BY <1>4, <1>5, <1>6
<1>8. /\ p \in DOMAIN h /\ ~ h[p].marked /\ h[p].freed = 0 /\ p \notin H /\ p # 0
      /\ \A o \in DOMAIN h : \A i \in DOMAIN h[o].slots : h[o].slots[i] = p => o = a /\ i = n
  BY <1>1 DEF Ownership, Links, SlotOnly, OneSlot
<1> HIDE DEF p
<1>9. Typed(h2, fr)
  BY <1>1, <1>6 DEF Typed
<1>10. Objects(h2)
  <2>1. ObjectOK(h[a])
    BY <1>1 DEF Ownership, Objects
  <2>2. ObjectOK(r)
    BY <1>2, <1>4, <1>5, <2>1 DEF ObjectOK
  <2> QED
    BY <1>6, <2>2 DEF Ownership, Objects
<1>11. Links(h2)
  <2> SUFFICES ASSUME NEW o \in DOMAIN h, NEW i \in DOMAIN h[o].slots, h2[o].slots[i] # 0
               PROVE  /\ h2[o].slots[i] \in DOMAIN h
                      /\ h2[h2[o].slots[i]].kind = SlotKind(h[o].kind, i)
                      /\ ~ h2[h2[o].slots[i]].marked /\ h2[h2[o].slots[i]].freed = 0
    BY <1>6, <1>7 DEF Links
  <2>1. h2[o].slots[i] = h[o].slots[i]
    BY <1>7
  <2>2. /\ h[o].slots[i] \in DOMAIN h
        /\ h[h[o].slots[i]].kind = SlotKind(h[o].kind, i)
        /\ ~ h[h[o].slots[i]].marked /\ h[h[o].slots[i]].freed = 0
    BY <2>1 DEF Ownership, Links
  <2> QED
    BY <2>1, <2>2, <1>7
<1>12. OneSlot(h2)
  <2> SUFFICES ASSUME NEW o \in DOMAIN h, NEW q \in DOMAIN h,
                      NEW i \in DOMAIN h[o].slots, NEW j \in DOMAIN h[q].slots,
                      h2[o].slots[i] # Null, h2[o].slots[i] = h2[q].slots[j]
               PROVE  o = q /\ i = j
    BY <1>6, <1>7, SMTT(30) DEF OneSlot
  <2>1. h2[o].slots[i] = h[o].slots[i] /\ h2[q].slots[j] = h[q].slots[j]
    BY <1>7 DEF Null
  <2>2. OneSlot(h)
    BY DEF Ownership
  <2>3. h[o].slots[i] # Null /\ h[o].slots[i] = h[q].slots[j]
    BY <2>1
  <2>4. ASSUME OneSlot(h) PROVE o = q /\ i = j
    BY <2>3, <2>4 DEF OneSlot
  <2> QED
    BY <2>2, <2>4
<1>13. SlotOnly(h2, H, p)
  BY <1>6, <1>7, <1>8 DEF Ownership, SlotOnly
<1>14. Handles(h2, H)
  BY <1>6, <1>7 DEF Ownership, Handles
<1>15. Hand(h2, H, p)
  BY <1>6, <1>7, <1>8 DEF Hand
<1>16. Stack(h2, fr)
  <2> SUFFICES ASSUME NEW k \in DOMAIN fr PROVE FrameOK(h2[fr[k].arg], fr[k])
    BY <1>6 DEF Ownership, Stack
  <2>1. fr[k].arg \in DOMAIN h /\ FrameOK(h[fr[k].arg], fr[k])
    BY DEF Ownership, Stack
  <2> QED
    BY <2>1, <1>7 DEF FrameOK
<1>17. \A l \in DOMAIN h : BytesOnly(h, l) => BytesOnly(h2, l)
  BY <1>6, <1>7 DEF Ownership, Links, BytesOnly
<1>18. TensorBytes(h2)
  BY <1>1, <1>6, <1>7, <1>17, SecondSlot DEF Ownership, TensorBytes, Links
<1>19. QuietInside(h2, fr)
  BY <1>17 DEF Ownership, QuietInside, Stack
<1>20. Owned(h2, fr, H, p)
  <2> SUFFICES ASSUME NEW b \in DOMAIN h, h2[b].freed = 0, b # p
               PROVE  \/ b \in H
                      \/ \E k \in DOMAIN fr : fr[k].arg = b
                      \/ \E o \in DOMAIN h2 : \E i \in DOMAIN h2[o].slots : h2[o].slots[i] = b
    BY <1>6 DEF Owned
  <2>1. h[b].freed = 0 /\ b # 0
    BY <1>1, <1>7
  <2>2. \/ b \in H
        \/ \E k \in DOMAIN fr : fr[k].arg = b
        \/ \E o \in DOMAIN h : \E i \in DOMAIN h[o].slots : h[o].slots[i] = b
    BY <2>1 DEF Ownership, Owned
  <2>3. ASSUME NEW o \in DOMAIN h, NEW i \in DOMAIN h[o].slots, h[o].slots[i] = b
        PROVE  h2[o].slots[i] = b
    BY <2>3, <1>7 DEF p
  <2> QED
    BY <2>2, <2>3, <1>6, <1>7
<1>21. Framed(h2, fr)
  BY <1>6, <1>7 DEF Ownership, Framed
<1>22. Ownership(h2, fr, H, p)
  BY <1>9, <1>10, <1>11, <1>12, <1>13, <1>14, <1>15, <1>16, <1>18, <1>19, <1>20, <1>21
     DEF Ownership
<1> QED
  BY <1>1, <1>3, <1>6, <1>7, <1>17, <1>22 DEF p, OneSlotLess

-----------------------------------------------------------------------------
\* The allocations that make a handle are new, live and own each other: the last of them owns
\* all the rest.
New(h, h2) == DOMAIN h2 \ DOMAIN h

Fresh(h, h2) ==
  /\ h2 \in Seq(ObjectType) /\ DOMAIN h \subseteq DOMAIN h2 /\ Len(h2) \in New(h, h2)
  /\ \A b \in DOMAIN h : h2[b] = h[b]
  /\ \A a \in New(h, h2) :
        /\ ObjectOK(h2[a]) /\ ~ h2[a].marked /\ h2[a].freed = 0
        /\ a # Len(h2) => \E o \in DOMAIN h2 : \E i \in DOMAIN h2[o].slots : h2[o].slots[i] = a
        /\ h2[a].kind = "Tensor" => BytesOnly(h2, h2[a].slots[2])
        /\ \A i \in DOMAIN h2[a].slots :
              /\ h2[a].slots[i] \in New(h, h2) \ {Len(h2)}
              /\ h2[h2[a].slots[i]].kind = SlotKind(h2[a].kind, i)
              /\ \A o \in New(h, h2) : \A j \in DOMAIN h2[o].slots :
                    h2[o].slots[j] = h2[a].slots[i] => o = a /\ j = i

LEMMA CreateKeepsOwnership ==
  ASSUME NEW h, NEW fr, NEW H, Ownership(h, fr, H, Null), NEW h2, Fresh(h, h2)
  PROVE  Ownership(h2, fr, H \cup {Len(h2)}, Null)
<1> USE DEF Null
<1> DEFINE H2 == H \cup {Len(h2)}
           N == New(h, h2)
<1>1. /\ h \in Seq(ObjectType) /\ fr \in Seq(FrameType) /\ h2 \in Seq(ObjectType)
      /\ DOMAIN h2 = DOMAIN h \cup N /\ DOMAIN h \cap N = {}
      /\ Len(h2) \in N
      /\ \A b \in DOMAIN h : h2[b] = h[b]
  BY DEF Ownership, Typed, Fresh, New
<1>2. \A a \in N : ObjectOK(h2[a]) /\ ~ h2[a].marked /\ h2[a].freed = 0
  BY DEF Fresh
<1>3. \A a \in N : \A i \in DOMAIN h2[a].slots :
         /\ h2[a].slots[i] \in N \ {Len(h2)}
         /\ h2[h2[a].slots[i]].kind = SlotKind(h2[a].kind, i)
         /\ \A o \in N : \A j \in DOMAIN h2[o].slots :
               h2[o].slots[j] = h2[a].slots[i] => o = a /\ j = i
  BY DEF Fresh
<1>4. \A a \in N : a # Len(h2) =>
         \E o \in DOMAIN h2 : \E i \in DOMAIN h2[o].slots : h2[o].slots[i] = a
  BY DEF Fresh
<1>5. \A a \in N : h2[a].kind = "Tensor" => BytesOnly(h2, h2[a].slots[2])
  BY DEF Fresh
<1> HIDE DEF N
<1>6. \A o \in DOMAIN h : \A i \in DOMAIN h[o].slots : h[o].slots[i] # 0 => h[o].slots[i] \in DOMAIN h
  BY DEF Ownership, Links
<1>7. Typed(h2, fr)
  BY <1>1 DEF Typed
<1>8. Objects(h2)
  BY <1>1, <1>2 DEF Ownership, Objects
<1>9. Links(h2)
  <2> SUFFICES ASSUME NEW o \in DOMAIN h2, NEW i \in DOMAIN h2[o].slots, h2[o].slots[i] # 0
               PROVE  /\ h2[o].slots[i] \in DOMAIN h2
                      /\ h2[h2[o].slots[i]].kind = SlotKind(h2[o].kind, i)
                      /\ ~ h2[h2[o].slots[i]].marked /\ h2[h2[o].slots[i]].freed = 0
    BY DEF Links
  <2>1. CASE o \in N
    BY <2>1, <1>1, <1>2, <1>3
  <2>2. CASE o \in DOMAIN h
    BY <2>2, <1>1, <1>6 DEF Ownership, Links
  <2> QED
    BY <2>1, <2>2, <1>1
<1>10. OneSlot(h2)
  <2> SUFFICES ASSUME NEW o \in DOMAIN h2, NEW q \in DOMAIN h2, NEW i \in DOMAIN h2[o].slots,
                      NEW j \in DOMAIN h2[q].slots, h2[o].slots[i] # 0,
                      h2[o].slots[i] = h2[q].slots[j]
               PROVE  o = q /\ i = j
    BY DEF OneSlot
  <2>1. CASE o \in N /\ q \in N
    BY <2>1, <1>3
  <2>2. CASE o \in DOMAIN h /\ q \in DOMAIN h
    BY <2>2, <1>1 DEF Ownership, OneSlot
  <2>3. CASE o \in DOMAIN h /\ q \in N
    BY <2>3, <1>1, <1>3, <1>6
  <2>4. CASE o \in N /\ q \in DOMAIN h
    BY <2>4, <1>1, <1>3, <1>6
  <2> QED
    BY <2>1, <2>2, <2>3, <2>4, <1>1
<1>11. H \subseteq DOMAIN h
  BY DEF Ownership, Handles
<1>12. SlotOnly(h2, H2, 0)
  <2> SUFFICES ASSUME NEW o \in DOMAIN h2, NEW i \in DOMAIN h2[o].slots, h2[o].slots[i] # 0
               PROVE  h2[o].slots[i] \notin H2
    BY DEF SlotOnly
  <2>1. CASE o \in N
    BY <2>1, <1>1, <1>3, <1>11
  <2>2. CASE o \in DOMAIN h
    BY <2>2, <1>1, <1>6 DEF Ownership, SlotOnly
  <2> QED
    BY <2>1, <2>2, <1>1
<1>13. Handles(h2, H2)
  BY <1>1, <1>2 DEF Ownership, Handles
<1>14. Hand(h2, H2, 0)
  BY DEF Hand
<1>15. Stack(h2, fr)
  BY <1>1 DEF Ownership, Stack
<1>16. \A l \in DOMAIN h : BytesOnly(h, l) => BytesOnly(h2, l)
  BY <1>1, <1>6 DEF BytesOnly
<1>17. TensorBytes(h2)
  <2> SUFFICES ASSUME NEW t \in DOMAIN h2, h2[t].kind = "Tensor", h2[t].slots[2] # 0
               PROVE  BytesOnly(h2, h2[t].slots[2])
    BY DEF TensorBytes
  <2>1. CASE t \in N
    BY <2>1, <1>5
  <2>2. CASE t \in DOMAIN h
    <3>1. h2[t] = h[t] /\ 2 \in DOMAIN h[t].slots
      BY <2>2, <1>1, SecondSlot DEF Ownership
    <3>2. h[t].slots[2] \in DOMAIN h /\ BytesOnly(h, h[t].slots[2])
      BY <2>2, <3>1, <1>6 DEF Ownership, TensorBytes
    <3> QED
      BY <3>1, <3>2, <1>16
  <2> QED
    BY <2>1, <2>2, <1>1
<1>18. QuietInside(h2, fr)
  BY <1>16 DEF Ownership, QuietInside, Stack
<1>19. Owned(h2, fr, H2, 0)
  <2> SUFFICES ASSUME NEW b \in DOMAIN h2, h2[b].freed = 0
               PROVE  \/ b \in H2
                      \/ \E k \in DOMAIN fr : fr[k].arg = b
                      \/ \E o \in DOMAIN h2 : \E i \in DOMAIN h2[o].slots : h2[o].slots[i] = b
    BY DEF Owned
  <2>1. CASE b \in N
    BY <2>1, <1>4
  <2>2. CASE b \in DOMAIN h
    <3>1. h[b].freed = 0 /\ b # 0
      BY <2>2, <1>1
    <3>2. \/ b \in H
          \/ \E k \in DOMAIN fr : fr[k].arg = b
          \/ \E o \in DOMAIN h : \E i \in DOMAIN h[o].slots : h[o].slots[i] = b
      BY <2>2, <3>1 DEF Ownership, Owned
    <3>3. ASSUME NEW o \in DOMAIN h, NEW i \in DOMAIN h[o].slots, h[o].slots[i] = b
          PROVE  \E q \in DOMAIN h2 : \E j \in DOMAIN h2[q].slots : h2[q].slots[j] = b
      BY <3>3, <1>1
    <3> QED
      BY <3>2, <3>3
  <2> QED
    BY <2>1, <2>2, <1>1
<1>20. Framed(h2, fr)
  BY <1>1, <1>2 DEF Ownership, Framed
<1> QED
  BY <1>7, <1>8, <1>9, <1>10, <1>12, <1>13, <1>14, <1>15, <1>17, <1>18, <1>19, <1>20
     DEF Ownership

\* The allocations that the constructors and the readers make.
LEMMA ObjectFields ==
  ASSUME NEW kind \in Kinds, NEW slots \in Seq(Nat), NEW release \in Releases
  PROVE  /\ Object(kind, slots, release) \in ObjectType
         /\ Object(kind, slots, release).kind = kind /\ Object(kind, slots, release).slots = slots
         /\ Object(kind, slots, release).release = release
         /\ Object(kind, slots, release).hook <=> release # "None"
         /\ ~ Object(kind, slots, release).marked
         /\ Object(kind, slots, release).freed = 0 /\ Object(kind, slots, release).released = 0
<1> DEFINE b == release # "None"
<1>1. b \in BOOLEAN
  OBVIOUS
<1>2. Object(kind, slots, release) \in ObjectType
  BY <1>1 DEF Object, ObjectType
<1> QED
  BY <1>2 DEF Object

Plain(o, kind, slots, release) ==
  /\ o.kind = kind /\ o.slots = slots /\ o.release = release
  /\ (o.hook <=> release # "None") /\ ~ o.marked /\ o.freed = 0 /\ o.released = 0

LEMMA ObjectPlain ==
  ASSUME NEW kind \in Kinds, NEW slots \in Seq(Nat), NEW release \in Releases
  PROVE  Object(kind, slots, release) \in ObjectType
         /\ Plain(Object(kind, slots, release), kind, slots, release)
BY ObjectFields DEF Plain

LEMMA PlainOK ==
  ASSUME NEW kind, NEW slots, NEW release, NEW o, Plain(o, kind, slots, release),
         release # "None" => kind \in {"Buffer", "Context"}, kind = "Context" => release # "Bytes",
         kind \notin Compound => slots = <<>>, kind = "Tensor" => Len(slots) = 2,
         \A i \in DOMAIN slots : slots[i] # Null
  PROVE  ObjectOK(o)
BY DEF Plain, ObjectOK, Compound

LEMMA SingleFresh ==
  ASSUME NEW h \in Seq(ObjectType), NEW kind \in Kinds \ {"Tensor", "Item"}, NEW release \in Releases,
         release # "None" => kind \in {"Buffer", "Context"},
         kind = "Context" => release # "Bytes"
  PROVE  Fresh(h, h \o <<Object(kind, <<>>, release)>>)
<1> DEFINE o == Object(kind, <<>>, release)
           h2 == h \o <<o>>
<1>1. /\ o \in ObjectType /\ o.kind = kind /\ o.slots = <<>> /\ o.release = release
      /\ (o.hook <=> release # "None") /\ ~ o.marked /\ o.freed = 0 /\ o.released = 0
  <2> DEFINE e == <<>>
             r == Object(kind, e, release)
  <2>1. e \in Seq(Nat) /\ kind \in Kinds
    OBVIOUS
  <2> HIDE DEF e
  <2>2. /\ r \in ObjectType /\ r.kind = kind /\ r.slots = e /\ r.release = release
        /\ (r.hook <=> release # "None") /\ ~ r.marked /\ r.freed = 0 /\ r.released = 0
    BY <2>1, ObjectFields
  <2> QED
    BY <2>2 DEF e
<1> HIDE DEF o
<1>2. ObjectOK(o)
  BY <1>1 DEF ObjectOK, Compound
<1>3. /\ h2 \in Seq(ObjectType) /\ Len(h2) = Len(h) + 1 /\ DOMAIN h2 = DOMAIN h \cup {Len(h) + 1}
      /\ Len(h) + 1 \notin DOMAIN h
      /\ h2[Len(h) + 1] = o /\ \A b \in DOMAIN h : h2[b] = h[b]
  BY <1>1
<1> HIDE DEF h2
<1>4. New(h, h2) = {Len(h2)}
  BY <1>3 DEF New
<1>5. DOMAIN o.slots = {}
  BY <1>1
<1>6. Fresh(h, h2)
  BY <1>1, <1>2, <1>3, <1>4, <1>5 DEF Fresh
<1> QED
  BY <1>6 DEF h2, o

\* Where tensor_handle puts the buffers, the list, the descriptor and the tensor.
LEMMA TensorObjects ==
  ASSUME NEW base \in Nat, NEW n \in Nat
  PROVE  LET t == tensor_handle(base, n)
             bases == [i \in 1 .. n |-> base + i]
         IN  /\ t \in Seq(ObjectType) /\ Len(t) = n + 3
             /\ \A k \in 1 .. n : t[k] = Object("Buffer", <<>>, "Bytes")
             /\ t[n + 1] = Object("List", bases, "None")
             /\ t[n + 2] = Object("Descriptor", <<>>, "None")
             /\ t[n + 3] = Object("Tensor", <<base + n + 2, base + n + 1>>, "None")
<1> DEFINE bases == [i \in 1 .. n |-> base + i]
           pair == <<base + n + 2, base + n + 1>>
           B == Object("Buffer", <<>>, "Bytes")
           L == Object("List", bases, "None")
           D == Object("Descriptor", <<>>, "None")
           T == Object("Tensor", pair, "None")
           bufs == [i \in 1 .. n |-> B]
           rest == <<L, D, T>>
<1>1. bases \in Seq(Nat) /\ pair \in Seq(Nat) /\ <<>> \in Seq(Nat)
  OBVIOUS
<1> HIDE DEF bases, pair
<1>2. B \in ObjectType /\ L \in ObjectType /\ D \in ObjectType /\ T \in ObjectType
  BY <1>1, ObjectFields DEF Kinds, Releases
<1> HIDE DEF B, L, D, T
<1>3. bufs \in Seq(ObjectType) /\ Len(bufs) = n /\ \A k \in 1 .. n : bufs[k] = B
  BY <1>2
<1>4. rest \in Seq(ObjectType) /\ Len(rest) = 3 /\ rest[1] = L /\ rest[2] = D /\ rest[3] = T
  BY <1>2
<1>5. tensor_handle(base, n) = bufs \o rest
  BY DEF tensor_handle, B, L, D, T, bases, pair
<1> HIDE DEF bufs, rest
<1>6. /\ bufs \o rest \in Seq(ObjectType) /\ Len(bufs \o rest) = n + 3
      /\ \A k \in 1 .. n : (bufs \o rest)[k] = B
      /\ \A k \in 1 .. 3 : (bufs \o rest)[n + k] = rest[k]
  <2>1. /\ bufs \o rest \in Seq(ObjectType) /\ Len(bufs \o rest) = Len(bufs) + Len(rest)
        /\ \A i \in 1 .. Len(bufs) : (bufs \o rest)[i] = bufs[i]
        /\ \A i \in 1 .. Len(rest) : (bufs \o rest)[Len(bufs) + i] = rest[i]
    <3>1. bufs \in Seq(ObjectType) /\ rest \in Seq(ObjectType)
      BY <1>3, <1>4
    <3> QED
      BY <3>1
  <2> QED
    BY <1>3, <1>4, <2>1
<1>7. (bufs \o rest)[n + 1] = L /\ (bufs \o rest)[n + 2] = D /\ (bufs \o rest)[n + 3] = T
  BY <1>4, <1>6
<1> QED
  BY <1>5, <1>6, <1>7 DEF B, L, D, T, bases, pair

LEMMA Extended ==
  ASSUME NEW h \in Seq(ObjectType), NEW t \in Seq(ObjectType), Len(t) # 0
  PROVE  /\ h \o t \in Seq(ObjectType) /\ Len(h \o t) = Len(h) + Len(t)
         /\ New(h, h \o t) = (Len(h) + 1) .. (Len(h) + Len(t))
         /\ DOMAIN h \subseteq DOMAIN (h \o t)
         /\ \A b \in DOMAIN h : (h \o t)[b] = h[b]
         /\ \A k \in 1 .. Len(t) : (h \o t)[Len(h) + k] = t[k]
<1>1. /\ h \o t \in Seq(ObjectType) /\ Len(h \o t) = Len(h) + Len(t)
      /\ DOMAIN h = 1 .. Len(h) /\ DOMAIN (h \o t) = 1 .. (Len(h) + Len(t))
      /\ \A b \in 1 .. Len(h) : (h \o t)[b] = h[b]
      /\ \A k \in 1 .. Len(t) : (h \o t)[Len(h) + k] = t[k]
  OBVIOUS
<1>2. New(h, h \o t) = (Len(h) + 1) .. (Len(h) + Len(t))
  <2>1. Len(h) \in Nat /\ Len(t) \in Nat
    OBVIOUS
  <2> QED
    BY <1>1, <2>1 DEF New
<1> QED
  BY <1>1, <1>2

\* A tensor that was read owns its descriptor and its list, and the list its buffers.
LEMMA TensorFresh ==
  ASSUME NEW h \in Seq(ObjectType), NEW n \in Nat
  PROVE  Fresh(h, h \o tensor_handle(Len(h), n))
<1> DEFINE b == Len(h)
           t == tensor_handle(b, n)
           h2 == h \o t
           bases == [i \in 1 .. n |-> b + i]
           pair == <<b + n + 2, b + n + 1>>
<1>1. b \in Nat /\ bases \in Seq(Nat) /\ pair \in Seq(Nat) /\ <<>> \in Seq(Nat)
  OBVIOUS
<1>2. /\ DOMAIN bases = 1 .. n /\ (\A i \in 1 .. n : bases[i] = b + i)
      /\ DOMAIN pair = {1, 2} /\ pair[1] = b + n + 2 /\ pair[2] = b + n + 1 /\ Len(pair) = 2
  BY <1>1
<1>3. /\ t \in Seq(ObjectType) /\ Len(t) = n + 3
      /\ \A k \in 1 .. n : t[k] = Object("Buffer", <<>>, "Bytes")
      /\ t[n + 1] = Object("List", bases, "None")
      /\ t[n + 2] = Object("Descriptor", <<>>, "None")
      /\ t[n + 3] = Object("Tensor", pair, "None")
  BY <1>1, TensorObjects
<1> HIDE DEF b, t, bases, pair
<1>4. /\ h2 \in Seq(ObjectType) /\ Len(h2) = b + n + 3
      /\ New(h, h2) = (b + 1) .. (b + n + 3)
      /\ DOMAIN h \subseteq DOMAIN h2
      /\ \A k \in DOMAIN h : h2[k] = h[k]
      /\ \A k \in 1 .. (n + 3) : h2[b + k] = t[k]
  <2>1. /\ h2 \in Seq(ObjectType) /\ Len(h2) = Len(h) + Len(t)
        /\ New(h, h2) = (Len(h) + 1) .. (Len(h) + Len(t))
        /\ DOMAIN h \subseteq DOMAIN h2
        /\ \A k \in DOMAIN h : h2[k] = h[k]
        /\ \A k \in 1 .. Len(t) : h2[Len(h) + k] = t[k]
    <3>1. t \in Seq(ObjectType) /\ Len(t) # 0
      BY <1>3
    <3> QED
      BY <3>1, Extended
  <2>2. b + (n + 3) = b + n + 3
    BY <1>1
  <2> QED
    BY <1>3, <2>1, <2>2 DEF b
<1> HIDE DEF h2
<1>5. /\ \A k \in 1 .. n : h2[b + k] = Object("Buffer", <<>>, "Bytes")
      /\ h2[b + n + 1] = Object("List", bases, "None")
      /\ h2[b + n + 2] = Object("Descriptor", <<>>, "None")
      /\ h2[b + n + 3] = Object("Tensor", pair, "None")
  <2>1. b + (n + 1) = b + n + 1 /\ b + (n + 2) = b + n + 2 /\ b + (n + 3) = b + n + 3
    BY <1>1
  <2> QED
    BY <1>3, <1>4, <2>1
<1>6. /\ \A k \in 1 .. n : Plain(h2[b + k], "Buffer", <<>>, "Bytes")
      /\ Plain(h2[b + n + 1], "List", bases, "None")
      /\ Plain(h2[b + n + 2], "Descriptor", <<>>, "None")
      /\ Plain(h2[b + n + 3], "Tensor", pair, "None")
  <2>1. Plain(Object("Buffer", <<>>, "Bytes"), "Buffer", <<>>, "Bytes")
    BY <1>1, ObjectPlain DEF Kinds, Releases
  <2>2. Plain(Object("List", bases, "None"), "List", bases, "None")
    BY <1>1, ObjectPlain DEF Kinds, Releases
  <2>3. Plain(Object("Descriptor", <<>>, "None"), "Descriptor", <<>>, "None")
    BY <1>1, ObjectPlain DEF Kinds, Releases
  <2>4. Plain(Object("Tensor", pair, "None"), "Tensor", pair, "None")
    BY <1>1, ObjectPlain DEF Kinds, Releases
  <2> QED
    BY <1>5, <2>1, <2>2, <2>3, <2>4
<1>7. \A a \in New(h, h2) : \/ \E k \in 1 .. n : a = b + k
                            \/ a = b + n + 1 \/ a = b + n + 2 \/ a = b + n + 3
  <2> SUFFICES ASSUME NEW a \in (b + 1) .. (b + n + 3), a # b + n + 1, a # b + n + 2, a # b + n + 3
               PROVE  \E k \in 1 .. n : a = b + k
    BY <1>4
  <2>1. a - b \in 1 .. n /\ a = b + (a - b)
    BY <1>1
  <2> QED
    BY <2>1
<1>8. /\ \A k \in 1 .. n : ObjectOK(h2[b + k])
      /\ ObjectOK(h2[b + n + 1]) /\ ObjectOK(h2[b + n + 2]) /\ ObjectOK(h2[b + n + 3])
  <2>1. \A i \in DOMAIN <<>> : <<>>[i] # 0
    OBVIOUS
  <2>2. \A k \in 1 .. n : ObjectOK(h2[b + k])
    BY <1>6, <2>1, PlainOK DEF Compound, Null
  <2>3. ObjectOK(h2[b + n + 1])
    BY <1>1, <1>2, <1>6, PlainOK DEF Compound, Null
  <2>4. ObjectOK(h2[b + n + 2])
    BY <1>6, <2>1, PlainOK DEF Compound, Null
  <2>5. ObjectOK(h2[b + n + 3])
    <3>1. \A i \in DOMAIN pair : pair[i] # 0
      BY <1>1, <1>2
    <3> QED
      BY <1>2, <1>6, <3>1, PlainOK DEF Compound, Null
  <2> QED
    BY <2>2, <2>3, <2>4, <2>5
<1>9. ASSUME NEW a \in New(h, h2)
      PROVE  /\ ObjectOK(h2[a]) /\ ~ h2[a].marked /\ h2[a].freed = 0
             /\ a # Len(h2) => \E o \in DOMAIN h2 : \E i \in DOMAIN h2[o].slots : h2[o].slots[i] = a
             /\ h2[a].kind = "Tensor" => BytesOnly(h2, h2[a].slots[2])
  <2>1. ObjectOK(h2[a]) /\ ~ h2[a].marked /\ h2[a].freed = 0
    BY <1>6, <1>7, <1>8 DEF Plain
  <2>2. a # Len(h2) => \E o \in DOMAIN h2 : \E i \in DOMAIN h2[o].slots : h2[o].slots[i] = a
    <3>1. b + n + 1 \in DOMAIN h2 /\ b + n + 3 \in DOMAIN h2
      BY <1>1, <1>4
    <3>2. CASE a \in {b + n + 1, b + n + 2}
      BY <1>2, <1>6, <3>1, <3>2 DEF Plain
    <3>3. CASE \E k \in 1 .. n : a = b + k
      BY <1>2, <1>6, <3>1, <3>3 DEF Plain
    <3> QED
      BY <1>4, <1>7, <3>2, <3>3
  <2>3. h2[a].kind = "Tensor" => BytesOnly(h2, h2[a].slots[2])
    <3>1. BytesOnly(h2, b + n + 1)
      BY <1>2, <1>6 DEF BytesOnly, Plain
    <3> QED
      BY <1>2, <1>6, <1>7, <3>1 DEF Plain
  <2> QED
    BY <2>1, <2>2, <2>3
<1>10. ASSUME NEW a \in New(h, h2), NEW i \in DOMAIN h2[a].slots
       PROVE  \/ a = b + n + 1 /\ i \in 1 .. n /\ h2[a].slots[i] = b + i
              \/ a = b + n + 3 /\ i = 1 /\ h2[a].slots[i] = b + n + 2
              \/ a = b + n + 3 /\ i = 2 /\ h2[a].slots[i] = b + n + 1
  BY <1>2, <1>6, <1>7, <1>10 DEF Plain
<1>11. ASSUME NEW a \in New(h, h2), NEW i \in DOMAIN h2[a].slots
       PROVE  /\ h2[a].slots[i] \in New(h, h2) \ {Len(h2)}
              /\ h2[h2[a].slots[i]].kind = SlotKind(h2[a].kind, i)
              /\ \A o \in New(h, h2) : \A j \in DOMAIN h2[o].slots :
                    h2[o].slots[j] = h2[a].slots[i] => o = a /\ j = i
  <2>0. \/ a = b + n + 1 /\ i \in 1 .. n /\ h2[a].slots[i] = b + i
        \/ a = b + n + 3 /\ i = 1 /\ h2[a].slots[i] = b + n + 2
        \/ a = b + n + 3 /\ i = 2 /\ h2[a].slots[i] = b + n + 1
    BY <1>10
  <2>1. h2[a].slots[i] \in New(h, h2) \ {Len(h2)}
    <3>1. CASE i \in 1 .. n /\ h2[a].slots[i] = b + i
      BY <1>1, <1>4, <3>1
    <3>2. CASE h2[a].slots[i] \in {b + n + 1, b + n + 2}
      BY <1>1, <1>4, <3>2
    <3> QED
      BY <2>0, <3>1, <3>2
  <2>2. h2[h2[a].slots[i]].kind = SlotKind(h2[a].kind, i)
    BY <1>6, <1>10, <1>11 DEF Plain, SlotKind
  <2>3. ASSUME NEW o \in New(h, h2), NEW j \in DOMAIN h2[o].slots, h2[o].slots[j] = h2[a].slots[i]
        PROVE  o = a /\ j = i
    <3>1. \/ o = b + n + 1 /\ j \in 1 .. n /\ h2[o].slots[j] = b + j
          \/ o = b + n + 3 /\ j = 1 /\ h2[o].slots[j] = b + n + 2
          \/ o = b + n + 3 /\ j = 2 /\ h2[o].slots[j] = b + n + 1
      BY <1>10
    <3> QED
      BY <1>1, <2>0, <2>3, <3>1
  <2> QED
    BY <2>1, <2>2, <2>3
<1>12. Len(h2) \in New(h, h2)
  BY <1>1, <1>4
<1>13. Fresh(h, h2)
  BY <1>4, <1>9, <1>11, <1>12 DEF Fresh
<1> QED
  BY <1>13 DEF h2, t, b

ItemAt(h2, b) ==
  /\ Plain(h2[b + 1], "List", <<>>, "None")
  /\ Plain(h2[b + 2], "Descriptor", <<>>, "None")
  /\ Plain(h2[b + 3], "Tensor", <<b + 2, b + 1>>, "None")
  /\ Plain(h2[b + 4], "Buffer", <<>>, "Bytes")
  /\ Plain(h2[b + 5], "List", <<b + 4>>, "None")
  /\ Plain(h2[b + 6], "Descriptor", <<>>, "None")
  /\ Plain(h2[b + 7], "Tensor", <<b + 6, b + 5>>, "None")
  /\ Plain(h2[b + 8], "Item", <<b + 3, b + 7>>, "None")

\* The item that was read: the objects of its head and of its member, each owned once.
LEMMA ItemObjects ==
  ASSUME NEW h \in Seq(ObjectType), NEW b, b = Len(h)
  PROVE  LET head   == tensor_handle(b, 0)
             member == tensor_handle(b + Len(head), 1)
             nodes  == <<b + Len(head), b + Len(head) + Len(member)>>
             h2     == h \o (head \o member \o <<Object("Item", nodes, "None")>>)
         IN  /\ h2 \in Seq(ObjectType) /\ Len(h2) = b + 8
             /\ New(h, h2) = (b + 1) .. (b + 8)
             /\ DOMAIN h \subseteq DOMAIN h2
             /\ \A k \in DOMAIN h : h2[k] = h[k]
             /\ ItemAt(h2, b)
<1> DEFINE head   == tensor_handle(b, 0)
           member == tensor_handle(b + Len(head), 1)
           nodes  == <<b + Len(head), b + Len(head) + Len(member)>>
           item   == Object("Item", nodes, "None")
           both   == head \o member
           all    == both \o <<item>>
           h2     == h \o all
<1>1. b \in Nat
  OBVIOUS
<1>2. /\ head \in Seq(ObjectType) /\ Len(head) = 3
      /\ head[1] = Object("List", <<>>, "None") /\ head[2] = Object("Descriptor", <<>>, "None")
      /\ head[3] = Object("Tensor", <<b + 2, b + 1>>, "None")
  <2>1. /\ head \in Seq(ObjectType) /\ Len(head) = 0 + 3
        /\ head[0 + 1] = Object("List", [i \in 1 .. 0 |-> b + i], "None")
        /\ head[0 + 2] = Object("Descriptor", <<>>, "None")
        /\ head[0 + 3] = Object("Tensor", <<b + 0 + 2, b + 0 + 1>>, "None")
    BY <1>1, TensorObjects
  <2>2. [i \in 1 .. 0 |-> b + i] = <<>> /\ b + 0 + 2 = b + 2 /\ b + 0 + 1 = b + 1
        /\ 0 + 1 = 1 /\ 0 + 2 = 2 /\ 0 + 3 = 3
    BY <1>1
  <2> QED
    BY <2>1, <2>2
<1> HIDE DEF head
<1>3. /\ member \in Seq(ObjectType) /\ Len(member) = 4
      /\ member[1] = Object("Buffer", <<>>, "Bytes") /\ member[2] = Object("List", <<b + 4>>, "None")
      /\ member[3] = Object("Descriptor", <<>>, "None")
      /\ member[4] = Object("Tensor", <<b + 6, b + 5>>, "None")
  <2> DEFINE c == b + Len(head)
  <2>1. c = b + 3 /\ c \in Nat
    BY <1>1, <1>2
  <2> HIDE DEF c
  <2>2. /\ member \in Seq(ObjectType) /\ Len(member) = 1 + 3
        /\ \A k \in 1 .. 1 : member[k] = Object("Buffer", <<>>, "Bytes")
        /\ member[1 + 1] = Object("List", [i \in 1 .. 1 |-> c + i], "None")
        /\ member[1 + 2] = Object("Descriptor", <<>>, "None")
        /\ member[1 + 3] = Object("Tensor", <<c + 1 + 2, c + 1 + 1>>, "None")
    BY <2>1, TensorObjects DEF c
  <2>3. [i \in 1 .. 1 |-> c + i] = <<b + 4>> /\ c + 1 + 2 = b + 6 /\ c + 1 + 1 = b + 5
        /\ 1 + 1 = 2 /\ 1 + 2 = 3 /\ 1 + 3 = 4 /\ 1 \in 1 .. 1
    BY <1>1, <2>1
  <2> QED
    BY <2>2, <2>3
<1> HIDE DEF member
<1>4. nodes = <<b + 3, b + 7>> /\ nodes \in Seq(Nat)
  BY <1>1, <1>2, <1>3
<1> HIDE DEF nodes
<1>5. item \in ObjectType
  BY <1>4, ObjectPlain DEF Kinds, Releases
<1>6. item = Object("Item", <<b + 3, b + 7>>, "None")
  BY <1>4
<1> HIDE DEF item
<1>7. /\ both \in Seq(ObjectType) /\ Len(both) = 7
      /\ both[1] = head[1] /\ both[2] = head[2] /\ both[3] = head[3]
      /\ both[4] = member[1] /\ both[5] = member[2] /\ both[6] = member[3] /\ both[7] = member[4]
  <2>1. head \in Seq(ObjectType) /\ Len(head) = 3 /\ member \in Seq(ObjectType) /\ Len(member) = 4
    BY <1>2, <1>3
  <2>2. /\ both \in Seq(ObjectType) /\ Len(both) = Len(head) + Len(member)
        /\ \A k \in 1 .. Len(head) : both[k] = head[k]
        /\ \A k \in 1 .. Len(member) : both[Len(head) + k] = member[k]
    <3>1. head \in Seq(ObjectType) /\ member \in Seq(ObjectType)
      BY <2>1
    <3> QED
      BY <3>1
  <2>3. /\ both[3 + 1] = member[1] /\ both[3 + 2] = member[2]
        /\ both[3 + 3] = member[3] /\ both[3 + 4] = member[4]
    BY <2>1, <2>2
  <2> QED
    BY <2>1, <2>2, <2>3
<1> HIDE DEF both
<1>8. /\ all \in Seq(ObjectType) /\ Len(all) = 8 /\ all[8] = item
      /\ \A k \in 1 .. 7 : all[k] = both[k]
  <2>1. both \in Seq(ObjectType) /\ Len(both) = 7
    BY <1>7
  <2> DEFINE one == <<item>>
  <2>2. one \in Seq(ObjectType) /\ Len(one) = 1 /\ one[1] = item
    BY <1>5
  <2> HIDE DEF one
  <2>3. /\ both \o one \in Seq(ObjectType) /\ Len(both \o one) = Len(both) + Len(one)
        /\ \A k \in 1 .. Len(both) : (both \o one)[k] = both[k]
        /\ \A k \in 1 .. Len(one) : (both \o one)[Len(both) + k] = one[k]
    <3>1. both \in Seq(ObjectType) /\ one \in Seq(ObjectType)
      BY <2>1, <2>2
    <3> QED
      BY <3>1
  <2>4. (both \o one)[7 + 1] = item
    BY <2>1, <2>2, <2>3
  <2> QED
    BY <2>1, <2>2, <2>3, <2>4 DEF one
<1> HIDE DEF all
<1>9. /\ h2 \in Seq(ObjectType) /\ Len(h2) = b + 8
      /\ New(h, h2) = (b + 1) .. (b + 8)
      /\ DOMAIN h \subseteq DOMAIN h2
      /\ \A k \in DOMAIN h : h2[k] = h[k]
      /\ \A k \in 1 .. 8 : h2[b + k] = all[k]
  <2>1. all \in Seq(ObjectType) /\ Len(all) # 0
    BY <1>8
  <2>2. /\ h2 \in Seq(ObjectType) /\ Len(h2) = Len(h) + Len(all)
        /\ New(h, h2) = (Len(h) + 1) .. (Len(h) + Len(all))
        /\ DOMAIN h \subseteq DOMAIN h2
        /\ \A k \in DOMAIN h : h2[k] = h[k]
        /\ \A k \in 1 .. Len(all) : h2[Len(h) + k] = all[k]
    BY <2>1, Extended
  <2> QED
    BY <1>8, <2>2
<1> HIDE DEF h2
<1>10. ItemAt(h2, b)
  <2>1. /\ h2[b + 1] = Object("List", <<>>, "None") /\ h2[b + 2] = Object("Descriptor", <<>>, "None")
        /\ h2[b + 3] = Object("Tensor", <<b + 2, b + 1>>, "None")
        /\ h2[b + 4] = Object("Buffer", <<>>, "Bytes") /\ h2[b + 5] = Object("List", <<b + 4>>, "None")
        /\ h2[b + 6] = Object("Descriptor", <<>>, "None")
        /\ h2[b + 7] = Object("Tensor", <<b + 6, b + 5>>, "None")
        /\ h2[b + 8] = Object("Item", <<b + 3, b + 7>>, "None")
    <3>1. /\ h2[b + 1] = all[1] /\ h2[b + 2] = all[2] /\ h2[b + 3] = all[3] /\ h2[b + 4] = all[4]
          /\ h2[b + 5] = all[5] /\ h2[b + 6] = all[6] /\ h2[b + 7] = all[7] /\ h2[b + 8] = all[8]
      BY <1>9
    <3>2. /\ all[1] = both[1] /\ all[2] = both[2] /\ all[3] = both[3] /\ all[4] = both[4]
          /\ all[5] = both[5] /\ all[6] = both[6] /\ all[7] = both[7]
      BY <1>8
    <3> QED
      BY <1>2, <1>3, <1>6, <1>7, <1>8, <3>1, <3>2
  <2>2. \A kind \in Kinds : \A slots \in Seq(Nat) : \A release \in Releases :
           Plain(Object(kind, slots, release), kind, slots, release)
    BY ObjectPlain
  <2>3. /\ <<>> \in Seq(Nat) /\ <<b + 2, b + 1>> \in Seq(Nat) /\ <<b + 4>> \in Seq(Nat)
        /\ <<b + 6, b + 5>> \in Seq(Nat) /\ <<b + 3, b + 7>> \in Seq(Nat)
    BY <1>1
  <2> QED
    BY <2>1, <2>2, <2>3 DEF Kinds, Releases, ItemAt
<1> QED
  BY <1>9, <1>10 DEF h2, all, both, item, nodes, member, head

LEMMA ItemFresh ==
  ASSUME NEW h, NEW b \in Nat, NEW h2 \in Seq(ObjectType), Len(h2) = b + 8,
         New(h, h2) = (b + 1) .. (b + 8), DOMAIN h \subseteq DOMAIN h2,
         \A k \in DOMAIN h : h2[k] = h[k], ItemAt(h2, b)
  PROVE  Fresh(h, h2)
<1>1. \A a \in New(h, h2) : a \in {b + 1, b + 2, b + 3, b + 4, b + 5, b + 6, b + 7, b + 8}
  OBVIOUS
<1>2. /\ DOMAIN h2[b + 1].slots = {} /\ DOMAIN h2[b + 2].slots = {} /\ DOMAIN h2[b + 4].slots = {}
      /\ DOMAIN h2[b + 6].slots = {} /\ DOMAIN h2[b + 5].slots = {1}
      /\ DOMAIN h2[b + 3].slots = {1, 2} /\ DOMAIN h2[b + 7].slots = {1, 2}
      /\ DOMAIN h2[b + 8].slots = {1, 2} /\ Len(h2[b + 3].slots) = 2 /\ Len(h2[b + 7].slots) = 2
      /\ h2[b + 5].slots[1] = b + 4
      /\ h2[b + 3].slots[1] = b + 2 /\ h2[b + 3].slots[2] = b + 1
      /\ h2[b + 7].slots[1] = b + 6 /\ h2[b + 7].slots[2] = b + 5
      /\ h2[b + 8].slots[1] = b + 3 /\ h2[b + 8].slots[2] = b + 7
  BY DEF Plain, ItemAt
<1>3. ASSUME NEW a \in New(h, h2), NEW i \in DOMAIN h2[a].slots
      PROVE  \/ a = b + 5 /\ i = 1 /\ h2[a].slots[i] = b + 4
             \/ a = b + 3 /\ i = 1 /\ h2[a].slots[i] = b + 2
             \/ a = b + 3 /\ i = 2 /\ h2[a].slots[i] = b + 1
             \/ a = b + 7 /\ i = 1 /\ h2[a].slots[i] = b + 6
             \/ a = b + 7 /\ i = 2 /\ h2[a].slots[i] = b + 5
             \/ a = b + 8 /\ i = 1 /\ h2[a].slots[i] = b + 3
             \/ a = b + 8 /\ i = 2 /\ h2[a].slots[i] = b + 7
  BY <1>1, <1>2
<1>4. ASSUME NEW a \in New(h, h2)
      PROVE  ~ h2[a].marked /\ h2[a].freed = 0 /\ ObjectOK(h2[a])
  <2>1. \A i \in DOMAIN h2[a].slots : h2[a].slots[i] # 0
    BY <1>3
  <2>2. \E kind, slots, release :
           /\ Plain(h2[a], kind, slots, release)
           /\ release # "None" => kind \in {"Buffer", "Context"}
           /\ kind = "Context" => release # "Bytes"
           /\ kind \notin Compound => slots = <<>>
           /\ kind = "Tensor" => Len(slots) = 2
    BY <1>1, <1>4 DEF Compound, ItemAt
  <2> QED
    BY <2>1, <2>2, PlainOK DEF Plain, Null
<1>5. ASSUME NEW a \in New(h, h2), a # Len(h2)
      PROVE  \E o \in DOMAIN h2 : \E i \in DOMAIN h2[o].slots : h2[o].slots[i] = a
  <2>1. b + 3 \in DOMAIN h2 /\ b + 5 \in DOMAIN h2 /\ b + 7 \in DOMAIN h2 /\ b + 8 \in DOMAIN h2
    OBVIOUS
  <2> QED
    BY <1>1, <1>2, <1>5, <2>1
<1>6. ASSUME NEW a \in New(h, h2), h2[a].kind = "Tensor"
      PROVE  BytesOnly(h2, h2[a].slots[2])
  <2>1. BytesOnly(h2, b + 1) /\ BytesOnly(h2, b + 5)
    BY <1>2 DEF BytesOnly, Plain, ItemAt
  <2>2. a \in {b + 3, b + 7}
    BY <1>1, <1>6 DEF Plain, ItemAt
  <2> QED
    BY <1>2, <2>1, <2>2
<1>7. ASSUME NEW a \in New(h, h2), NEW i \in DOMAIN h2[a].slots
      PROVE  /\ h2[a].slots[i] \in New(h, h2) \ {Len(h2)}
             /\ h2[h2[a].slots[i]].kind = SlotKind(h2[a].kind, i)
             /\ \A o \in New(h, h2) : \A j \in DOMAIN h2[o].slots :
                   h2[o].slots[j] = h2[a].slots[i] => o = a /\ j = i
  <2>1. \/ a = b + 5 /\ i = 1 /\ h2[a].slots[i] = b + 4
        \/ a = b + 3 /\ i = 1 /\ h2[a].slots[i] = b + 2
        \/ a = b + 3 /\ i = 2 /\ h2[a].slots[i] = b + 1
        \/ a = b + 7 /\ i = 1 /\ h2[a].slots[i] = b + 6
        \/ a = b + 7 /\ i = 2 /\ h2[a].slots[i] = b + 5
        \/ a = b + 8 /\ i = 1 /\ h2[a].slots[i] = b + 3
        \/ a = b + 8 /\ i = 2 /\ h2[a].slots[i] = b + 7
    BY <1>3
  <2>2. h2[a].slots[i] \in New(h, h2) \ {Len(h2)}
    BY <2>1
  <2>3. h2[h2[a].slots[i]].kind = SlotKind(h2[a].kind, i)
    BY <2>1 DEF Plain, SlotKind, ItemAt
  <2>4. ASSUME NEW o \in New(h, h2), NEW j \in DOMAIN h2[o].slots, h2[o].slots[j] = h2[a].slots[i]
        PROVE  o = a /\ j = i
    <3>1. \/ o = b + 5 /\ j = 1 /\ h2[o].slots[j] = b + 4
          \/ o = b + 3 /\ j = 1 /\ h2[o].slots[j] = b + 2
          \/ o = b + 3 /\ j = 2 /\ h2[o].slots[j] = b + 1
          \/ o = b + 7 /\ j = 1 /\ h2[o].slots[j] = b + 6
          \/ o = b + 7 /\ j = 2 /\ h2[o].slots[j] = b + 5
          \/ o = b + 8 /\ j = 1 /\ h2[o].slots[j] = b + 3
          \/ o = b + 8 /\ j = 2 /\ h2[o].slots[j] = b + 7
      BY <1>3
    <3> QED
      BY <2>1, <2>4, <3>1
  <2> QED
    BY <2>2, <2>3, <2>4
<1> QED
  <2>1. Len(h2) \in New(h, h2)
    OBVIOUS
  <2> QED
    BY <2>1, <1>4, <1>5, <1>6, <1>7 DEF Fresh

-----------------------------------------------------------------------------
\* A list that nobody destroys takes over a buffer.
Pushed(h, l, x) == [h EXCEPT ![l].slots = Append(@, x)]

LEMMA PushKeepsOwnership ==
  ASSUME NEW h, NEW fr, NEW H, Ownership(h, fr, H, Null),
         NEW l \in H, NEW x \in H, h[l].kind = "List", h[x].kind = "Buffer", ~ h[l].marked
  PROVE  Ownership(Pushed(h, l, x), fr, H \ {x}, Null) /\ KeepsSlots(h, Pushed(h, l, x))
<1> USE DEF Null
<1> DEFINE s0 == h[l].slots
           s == Append(s0, x)
           m == Len(s0) + 1
           r == [h[l] EXCEPT !.slots = s]
           h2 == [h EXCEPT ![l] = r]
<1>1. /\ h \in Seq(ObjectType) /\ fr \in Seq(FrameType) /\ l \in DOMAIN h /\ h[l] \in ObjectType
      /\ h[l].freed = 0 /\ x \in DOMAIN h /\ h[x].freed = 0 /\ ~ h[x].marked /\ x # l /\ x # 0
      /\ x \in Nat
  BY DEF Ownership, Typed, Handles, NulledOnEntry
<1>2. s0 \in Seq(Nat)
  BY <1>1 DEF ObjectType
<1>3. /\ s \in Seq(Nat) /\ DOMAIN s = DOMAIN s0 \cup {m} /\ m \notin DOMAIN s0 /\ s[m] = x
      /\ \A i \in DOMAIN s0 : s[i] = s0[i]
  BY <1>1, <1>2
<1>4. Pushed(h, l, x) = h2
  BY DEF Pushed
<1> HIDE DEF s, m
<1>5. /\ r \in ObjectType /\ r.kind = h[l].kind /\ r.slots = s /\ r.hook = h[l].hook
      /\ r.marked = h[l].marked /\ r.release = h[l].release /\ r.released = h[l].released
      /\ r.freed = h[l].freed
  BY <1>1, <1>3 DEF ObjectType
<1> HIDE DEF r
<1>6. /\ h2 \in Seq(ObjectType) /\ DOMAIN h2 = DOMAIN h /\ h2[l] = r
      /\ \A b \in DOMAIN h : b # l => h2[b] = h[b]
  BY <1>1, <1>5
<1> HIDE DEF h2
<1>7. \A b \in DOMAIN h :
         /\ h2[b].kind = h[b].kind /\ h2[b].marked = h[b].marked /\ h2[b].freed = h[b].freed
         /\ h2[b].release = h[b].release
         /\ \A i \in DOMAIN h[b].slots : i \in DOMAIN h2[b].slots /\ h2[b].slots[i] = h[b].slots[i]
  BY <1>3, <1>5, <1>6
<1>8. \A b \in DOMAIN h : \A i \in DOMAIN h2[b].slots :
         \/ i \in DOMAIN h[b].slots /\ h2[b].slots[i] = h[b].slots[i]
         \/ b = l /\ i = m /\ h2[b].slots[i] = x
  BY <1>3, <1>5, <1>6
<1>9. /\ \A b \in DOMAIN h : \A i \in DOMAIN h[b].slots :
            h[b].slots[i] # 0 => h[b].slots[i] \notin H /\ h[b].slots[i] \in DOMAIN h
      /\ \A k \in DOMAIN fr : fr[k].arg # l
  BY <1>1 DEF Ownership, SlotOnly, Links, Stack, FrameOK
<1>10. Typed(h2, fr)
  BY <1>1, <1>6 DEF Typed
<1>11. Objects(h2)
  <2>1. ObjectOK(h[l])
    BY <1>1 DEF Ownership, Objects
  <2>2. ObjectOK(r)
    BY <1>1, <1>5, <2>1 DEF ObjectOK, Compound
  <2> QED
    BY <1>6, <2>2 DEF Ownership, Objects
<1>12. Links(h2)
  <2> SUFFICES ASSUME NEW o \in DOMAIN h, NEW i \in DOMAIN h2[o].slots, h2[o].slots[i] # 0
               PROVE  /\ h2[o].slots[i] \in DOMAIN h
                      /\ h2[h2[o].slots[i]].kind = SlotKind(h2[o].kind, i)
                      /\ ~ h2[h2[o].slots[i]].marked /\ h2[h2[o].slots[i]].freed = 0
    BY <1>6 DEF Links
  <2>1. CASE i \in DOMAIN h[o].slots /\ h2[o].slots[i] = h[o].slots[i]
    BY <2>1, <1>7 DEF Ownership, Links
  <2>2. CASE o = l /\ i = m /\ h2[o].slots[i] = x
    BY <2>2, <1>1, <1>7 DEF SlotKind
  <2> QED
    BY <2>1, <2>2, <1>8
<1>13. OneSlot(h2)
  <2> SUFFICES ASSUME NEW o \in DOMAIN h, NEW q \in DOMAIN h, NEW i \in DOMAIN h2[o].slots,
                      NEW j \in DOMAIN h2[q].slots, h2[o].slots[i] # 0,
                      h2[o].slots[i] = h2[q].slots[j]
               PROVE  o = q /\ i = j
    BY <1>6 DEF OneSlot
  <2>1. CASE i \in DOMAIN h[o].slots /\ h2[o].slots[i] = h[o].slots[i]
             /\ j \in DOMAIN h[q].slots /\ h2[q].slots[j] = h[q].slots[j]
    <3>1. i \in DOMAIN h[o].slots /\ j \in DOMAIN h[q].slots
          /\ h[o].slots[i] # 0 /\ h[o].slots[i] = h[q].slots[j]
      BY <2>1
    <3>2. OneSlot(h)
      BY DEF Ownership
    <3> QED
      BY <3>1, <3>2 DEF OneSlot
  <2>2. ASSUME NEW c \in DOMAIN h, NEW k \in DOMAIN h[c].slots, h[c].slots[k] = x
        PROVE  FALSE
    BY <2>2, <1>1, <1>9
  <2> QED
    BY <2>1, <2>2, <1>8
<1>14. SlotOnly(h2, H \ {x}, 0)
  BY <1>6, <1>8, <1>9 DEF SlotOnly
<1>15. Handles(h2, H \ {x})
  BY <1>6, <1>7 DEF Ownership, Handles
<1>16. Hand(h2, H \ {x}, 0)
  BY DEF Hand
<1>17. Stack(h2, fr)
  BY <1>6, <1>9 DEF Ownership, Stack
<1>18. \A b \in DOMAIN h : b # l /\ BytesOnly(h, b) => BytesOnly(h2, b)
  BY <1>6, <1>7, <1>9 DEF BytesOnly
<1>19. TensorBytes(h2)
  <2> SUFFICES ASSUME NEW t \in DOMAIN h, h2[t].kind = "Tensor", h2[t].slots[2] # 0
               PROVE  BytesOnly(h2, h2[t].slots[2])
    BY <1>6 DEF TensorBytes
  <2>1. h[t].kind = "Tensor" /\ 2 \in DOMAIN h[t].slots /\ h2[t].slots[2] = h[t].slots[2]
    BY <1>1, <1>7, SecondSlot DEF Ownership
  <2>2. BytesOnly(h, h[t].slots[2])
    BY <2>1 DEF Ownership, TensorBytes
  <2> QED
    BY <2>1, <2>2, <1>9, <1>18
<1>20. QuietInside(h2, fr)
  BY <1>9, <1>18 DEF Ownership, QuietInside, Stack
<1>21. Owned(h2, fr, H \ {x}, 0)
  <2> SUFFICES ASSUME NEW b \in DOMAIN h, h2[b].freed = 0
               PROVE  \/ b \in H \ {x}
                      \/ \E k \in DOMAIN fr : fr[k].arg = b
                      \/ \E o \in DOMAIN h2 : \E i \in DOMAIN h2[o].slots : h2[o].slots[i] = b
    BY <1>6 DEF Owned
  <2>1. h[b].freed = 0 /\ b # 0
    BY <1>1, <1>7
  <2>2. \/ b \in H
        \/ \E k \in DOMAIN fr : fr[k].arg = b
        \/ \E o \in DOMAIN h : \E i \in DOMAIN h[o].slots : h[o].slots[i] = b
    BY <2>1 DEF Ownership, Owned
  <2>3. h2[l].slots[m] = x /\ m \in DOMAIN h2[l].slots
    BY <1>3, <1>5, <1>6
  <2>4. ASSUME NEW o \in DOMAIN h, NEW i \in DOMAIN h[o].slots, h[o].slots[i] = b
        PROVE  i \in DOMAIN h2[o].slots /\ h2[o].slots[i] = b
    BY <2>4, <1>7
  <2> QED
    BY <2>2, <2>3, <2>4, <1>1, <1>6
<1>22. Framed(h2, fr)
  BY <1>6, <1>7 DEF Ownership, Framed
<1>23. Ownership(h2, fr, H \ {x}, 0)
  BY <1>10, <1>11, <1>12, <1>13, <1>14, <1>15, <1>16, <1>17, <1>19, <1>20, <1>21, <1>22
     DEF Ownership
<1> QED
  BY <1>4, <1>6, <1>7, <1>23 DEF KeepsSlots

-----------------------------------------------------------------------------
\* A borrowed pointer stays in its owner's slots while the sentinel of the owner is alive.
LEMMA BorrowsKept ==
  ASSUME NEW h, NEW h2, NEW B, NEW B2, Borrows(h, B), B2 \subseteq B, KeepsSlots(h, h2)
  PROVE  Borrows(h2, B2)
BY DEF Borrows, KeepsSlots

LEMMA InitSafe == Init => IInv
<1> SUFFICES ASSUME Init PROVE IInv
  OBVIOUS
<1>1. created = 0 /\ heap = <<>> /\ held = {} /\ borrowed = {} /\ frames = <<>>
  BY DEF Init
<1>2. DOMAIN heap = {} /\ DOMAIN frames = {}
  BY <1>1
<1>3. Typed(heap, frames)
  BY <1>1 DEF Typed
<1>4. Ownership(heap, frames, held, Null)
  BY <1>1, <1>2, <1>3 DEF Ownership, Objects, Links, OneSlot, SlotOnly, Handles, Hand, Stack,
     OneFrame, TensorBytes, QuietInside, Owned, Framed
<1> QED
  BY <1>1, <1>4, BoundsAssumption DEF IInv, Borrows

\* The C program gets a new handle.
LEMMA CreateSafe ==
  ASSUME IInv, NEW objects, Create(objects), Fresh(heap, heap \o objects)
  PROVE  IInv'
<1>1. /\ heap' = heap \o objects /\ held' = held \cup {Len(heap')} /\ frames' = frames
      /\ borrowed' = borrowed /\ created' \in 0 .. MaxCreated
  BY BoundsAssumption DEF Create, IInv
<1>2. Fresh(heap, heap')
  BY <1>1
<1>3. Ownership(heap', frames', held', Null)
  BY <1>1, <1>2, CreateKeepsOwnership DEF IInv
<1>4. Borrows(heap', borrowed')
  <2>1. KeepsSlots(heap, heap')
    BY <1>2 DEF Fresh, KeepsSlots
  <2> QED
    BY <1>1, <2>1, BorrowsKept DEF IInv
<1> QED
  BY <1>1, <1>3, <1>4 DEF IInv

LEMMA ConstructSafe ==
  ASSUME IInv,
         \/ hurray_buffer_from_ptr \/ hurray_buffer_list_new \/ hurray_descriptor_decode
         \/ hurray_tensor_context_new \/ HandOutTensor \/ HandOutItem
  PROVE  IInv'
<1>1. heap \in Seq(ObjectType)
  BY DEF IInv, Ownership, Typed
<1>2. ASSUME NEW kind \in Kinds \ {"Tensor", "Item"}, NEW release \in Releases,
             release # "None" => kind \in {"Buffer", "Context"}, kind = "Context" => release # "Bytes",
             Create(<<Object(kind, <<>>, release)>>)
      PROVE  IInv'
  BY <1>1, <1>2, SingleFresh, CreateSafe
<1>3. CASE hurray_buffer_from_ptr
  BY <1>2, <1>3 DEF hurray_buffer_from_ptr, Kinds, Releases
<1>4. CASE hurray_buffer_list_new
  BY <1>2, <1>4 DEF hurray_buffer_list_new, Kinds, Releases
<1>5. CASE hurray_descriptor_decode
  BY <1>2, <1>5 DEF hurray_descriptor_decode, Kinds, Releases
<1>6. CASE hurray_tensor_context_new
  BY <1>2, <1>6 DEF hurray_tensor_context_new, Kinds, Releases
<1>7. CASE HandOutTensor
  <2>1. PICK n \in 0 .. MaxBuffers : Create(tensor_handle(Len(heap), n))
    BY <1>7 DEF HandOutTensor
  <2>2. n \in Nat
    BY BoundsAssumption
  <2> QED
    BY <1>1, <2>1, <2>2, TensorFresh, CreateSafe
<1>8. CASE HandOutItem
  <2> DEFINE b      == Len(heap)
             head   == tensor_handle(b, 0)
             member == tensor_handle(b + Len(head), 1)
             nodes  == <<b + Len(head), b + Len(head) + Len(member)>>
             all    == head \o member \o <<Object("Item", nodes, "None")>>
             h2     == heap \o all
  <2>1. Create(all)
    BY <1>8 DEF HandOutItem
  <2>2. /\ h2 \in Seq(ObjectType) /\ Len(h2) = b + 8
        /\ New(heap, h2) = (b + 1) .. (b + 8)
        /\ DOMAIN heap \subseteq DOMAIN h2
        /\ \A k \in DOMAIN heap : h2[k] = heap[k]
        /\ ItemAt(h2, b)
    BY <1>1, ItemObjects
  <2> HIDE DEF all
  <2>3. b \in Nat
    BY <1>1
  <2>4. Fresh(heap, h2)
    BY <2>2, <2>3, ItemFresh
  <2> QED
    BY <2>1, <2>4, CreateSafe
<1> QED
  BY <1>3, <1>4, <1>5, <1>6, <1>7, <1>8

LEMMA PushSafe ==
  ASSUME IInv, NEW l \in held, NEW b \in held, hurray_buffer_list_push(l, b) PROVE IInv'
<1>1. /\ heap' = Pushed(heap, l, b) /\ held' = held \ {b}
      /\ frames' = frames /\ borrowed' = borrowed /\ created' = created
      /\ heap[l].kind = "List" /\ heap[b].kind = "Buffer" /\ ~ heap[l].marked
      /\ Ownership(heap, frames, held, Null)
  BY DEF hurray_buffer_list_push, IInv, Pushed
<1>2. Ownership(heap', frames, held \ {b}, Null) /\ KeepsSlots(heap, heap')
  <2>1. Ownership(Pushed(heap, l, b), frames, held \ {b}, Null) /\ KeepsSlots(heap, Pushed(heap, l, b))
    BY <1>1, PushKeepsOwnership
  <2> QED
    BY <1>1, <2>1
<1>3. Borrows(heap', borrowed')
  BY <1>1, <1>2, BorrowsKept DEF IInv
<1> QED
  BY <1>1, <1>2, <1>3 DEF IInv

\* While the C program runs, no tensor and no item is being destroyed.
LEMMA CallerIsOutside ==
  ASSUME IInv, CallerRuns
  PROVE  /\ ~ Outer(frames, Len(frames) + 1)
         /\ \A a \in DOMAIN heap : heap[a].kind \in {"Tensor", "Item"} /\ heap[a].freed = 0 =>
               ~ heap[a].marked
<1>1. frames \in Seq(FrameType) /\ QuietInside(heap, frames) /\ Stack(heap, frames)
      /\ Framed(heap, frames)
  BY DEF IInv, Ownership, Typed
<1>2. ASSUME NEW j \in DOMAIN frames, frames[j].fn \in {"Tensor", "Item"} PROVE FALSE
  <2>1. frames # <<>> /\ Last(frames) = frames[Len(frames)] /\ Len(frames) \in DOMAIN frames
        /\ DOMAIN frames = 1 .. Len(frames)
    <3>1. frames # <<>>
      BY <1>2
    <3> QED
      BY <1>1, <3>1, Popped
  <2>2. frames[Len(frames)].fn = "Release"
    BY <2>1 DEF CallerRuns
  <2>3. j < Len(frames)
    BY <1>1, <1>2, <2>1, <2>2
  <2>4. Outer(frames, Len(frames))
    BY <1>2, <2>3 DEF Outer
  <2> QED
    BY <1>1, <2>1, <2>2, <2>4 DEF QuietInside
<1>3. ~ Outer(frames, Len(frames) + 1)
  BY <1>2 DEF Outer
<1>4. ASSUME NEW a \in DOMAIN heap, heap[a].kind \in {"Tensor", "Item"}, heap[a].freed = 0, heap[a].marked
      PROVE  FALSE
  <2>1. PICK k \in DOMAIN frames : frames[k].arg = a
    BY <1>1, <1>4 DEF Framed
  <2>2. FrameOK(heap[a], frames[k])
    BY <1>1, <2>1 DEF Stack
  <2> QED
    BY <1>2, <1>4, <2>2 DEF FrameOK
<1> QED
  BY <1>3, <1>4

\* A getter hands out what is in a slot.
LEMMA BorrowSafe ==
  ASSUME IInv, NEW o \in DOMAIN heap, NEW i \in DOMAIN heap[o].slots, heap[o].slots[i] # Null,
         Borrow(o, heap[o].slots[i])
  PROVE  IInv'
<1> DEFINE p == heap[o].slots[i]
<1>1. p \in DOMAIN heap /\ ~ heap[p].marked
  BY DEF IInv, Ownership, Links
<1>2. borrowed' = {[ptr |-> p, owner |-> o, fresh |-> ~ heap[p].marked]}
      /\ created' = created /\ heap' = heap /\ held' = held /\ frames' = frames
  BY DEF Borrow
<1>3. Borrows(heap, borrowed')
  <2> SUFFICES ASSUME NEW b \in borrowed'
               PROVE  /\ b.ptr \in DOMAIN heap /\ b.owner \in DOMAIN heap /\ b.fresh
                      /\ \E j \in DOMAIN heap[b.owner].slots : heap[b.owner].slots[j] = b.ptr
    BY DEF Borrows
  <2>1. b = [ptr |-> p, owner |-> o, fresh |-> ~ heap[p].marked]
    BY <1>2
  <2>2. b.ptr = p /\ b.owner = o
    BY <2>1
  <2>3. b.fresh = (~ heap[p].marked)
    BY <2>1, Zenon
  <2> QED
    BY <1>1, <2>2, <2>3
<1> QED
  BY <1>2, <1>3 DEF IInv

LEMMA KnownTyped ==
  ASSUME IInv, NEW kind, NEW a \in Known(kind)
  PROVE  a \in DOMAIN heap /\ heap[a].kind = kind /\ heap[a].freed = 0
BY DEF IInv, Ownership, Handles, Borrows, Known, Live

LEMMA GetterSafe ==
  ASSUME IInv,
         \/ \E l \in Known("List") : hurray_buffer_list_get(l)
         \/ \E t \in Known("Tensor") : TensorGet(t)
         \/ \E it \in Known("Item") : hurray_item_node(it)
  PROVE  IInv'
<1>1. ASSUME NEW l \in Known("List"), hurray_buffer_list_get(l) PROVE IInv'
  <2>1. l \in DOMAIN heap
    BY KnownTyped
  <2> QED
    BY <1>1, <2>1, BorrowSafe DEF hurray_buffer_list_get
<1>2. ASSUME NEW t \in Known("Tensor"), TensorGet(t) PROVE IInv'
  <2>1. t \in DOMAIN heap /\ heap[t].kind = "Tensor" /\ heap[t].freed = 0
    BY KnownTyped
  <2>2. ~ heap[t].marked
    BY <1>2, <2>1, CallerIsOutside DEF TensorGet
  <2>3. heap[t] \in ObjectType /\ ObjectOK(heap[t])
    BY <2>1 DEF IInv, Ownership, Typed, Objects
  <2>4. DOMAIN heap[t].slots = 1 .. 2
    BY <2>1, <2>3 DEF ObjectOK, ObjectType
  <2>5. \A i \in 1 .. 2 : heap[t].slots[i] # Null
    BY <2>1, <2>2, <2>3, <2>4 DEF ObjectOK
  <2> QED
    BY <1>2, <2>1, <2>4, <2>5, BorrowSafe DEF TensorGet
<1>3. ASSUME NEW it \in Known("Item"), hurray_item_node(it) PROVE IInv'
  <2>1. it \in DOMAIN heap /\ heap[it].kind = "Item" /\ heap[it].freed = 0
    BY KnownTyped
  <2>2. ~ heap[it].marked
    BY <1>3, <2>1, CallerIsOutside DEF hurray_item_node
  <2>3. \A i \in DOMAIN heap[it].slots : heap[it].slots[i] # Null
    BY <2>1, <2>2 DEF IInv, Ownership, Objects, ObjectOK
  <2> QED
    BY <1>3, <2>1, <2>3, BorrowSafe DEF hurray_item_node
<1> QED
  BY <1>1, <1>2, <1>3

-----------------------------------------------------------------------------
\* Destroying one allocation leaves the slots of the others.
LEMMA SameKeepsSlots ==
  ASSUME NEW h, NEW h2, NEW a \in DOMAIN h, Same(h, h2, a), h[a].marked => h2[a].marked
  PROVE  KeepsSlots(h, h2)
BY DEF Same, KeepsSlots

\* The C program destroys a handle it holds.
LEMMA DestroySafe ==
  ASSUME Debug, IInv, NEW a \in held, Destroy(a) PROVE IInv'
<1> DEFINE H2 == IF heap[a].kind \in NulledOnEntry THEN held \ {a} ELSE held
           e == Enter(heap, frames, a)
<1>1. /\ heap' = e.heap /\ frames' = e.frames /\ held' = H2 /\ created' = created
      /\ borrowed' \subseteq borrowed /\ CallerRuns
  BY DEF Destroy
<1>2. /\ a \in DOMAIN heap /\ heap[a].freed = 0 /\ Ownership(heap, frames, held, Null)
      /\ heap[a].kind \in NulledOnEntry => ~ heap[a].marked
      /\ heap \in Seq(ObjectType) /\ a # Null /\ ObjectOK(heap[a])
  BY DEF IInv, Ownership, Handles, Typed, Null, Objects
<1>3. CASE heap[a].marked
  <2>1. e = [heap |-> heap, frames |-> frames] /\ H2 = held
    BY <1>2, <1>3 DEF Enter
  <2>2. heap' = heap /\ frames' = frames /\ held' = held
    BY <1>1, <2>1
  <2>3. KeepsSlots(heap, heap)
    BY DEF KeepsSlots
  <2> QED
    BY <1>1, <2>2, <2>3, BorrowsKept DEF IInv
<1>4. CASE ~ heap[a].marked
  <2>1. Ownership(heap, frames, H2, a)
    <3>1. SlotOnly(heap, H2, a)
      BY DEF IInv, Ownership, SlotOnly
    <3>2. Handles(heap, H2)
      BY DEF IInv, Ownership, Handles
    <3>3. Hand(heap, H2, a)
      BY <1>2, <1>4 DEF Hand
    <3>4. Owned(heap, frames, H2, a)
      <4> SUFFICES ASSUME NEW b \in DOMAIN heap, heap[b].freed = 0, b # a
                   PROVE  \/ b \in H2
                          \/ \E k \in DOMAIN frames : frames[k].arg = b
                          \/ \E o \in DOMAIN heap : \E i \in DOMAIN heap[o].slots : heap[o].slots[i] = b
        BY DEF Owned
      <4>1. b # 0
        BY <1>2
      <4>2. \/ b \in held
            \/ \E k \in DOMAIN frames : frames[k].arg = b
            \/ \E o \in DOMAIN heap : \E i \in DOMAIN heap[o].slots : heap[o].slots[i] = b
        BY <1>2, <4>1 DEF Ownership, Owned, Null
      <4> QED
        BY <4>2
    <3> QED
      BY <1>2, <3>1, <3>2, <3>3, <3>4 DEF Ownership
  <2>2. ~ Outer(frames, Len(frames) + 1)
    BY <1>1, CallerIsOutside
  <2>3. Ownership(e.heap, e.frames, H2, Null) /\ Same(heap, e.heap, a)
    <3> HIDE DEF H2
    <3> QED
      BY <1>2, <2>1, <2>2, EnterKeepsOwnership
  <2>4. KeepsSlots(heap, e.heap)
    BY <1>2, <1>4, <2>3, SameKeepsSlots
  <2> HIDE DEF e, H2
  <2>5. Borrows(heap', borrowed')
    BY <1>1, <2>4, BorrowsKept DEF IInv
  <2> QED
    BY <1>1, <2>3, <2>5 DEF IInv
<1> QED
  BY <1>3, <1>4

\* A teardown loop empties the next slot and destroys what was in it.
LEMMA TakeSlotSafe ==
  ASSUME IInv, frames # <<>>, Top.fn \in Compound, TakeSlot PROVE IInv'
<1> DEFINE a == Top.arg
           n == Top.next
           p == heap[a].slots[n]
           fr == [frames EXCEPT ![Len(frames)].next = @ + 1]
           h == WithoutSlot(heap, a, n)
<1>1. /\ heap \in Seq(ObjectType) /\ frames \in Seq(FrameType)
      /\ Ownership(heap, frames, held, Null)
      /\ Top = Last(frames) /\ Top = frames[Len(frames)] /\ Len(frames) \in DOMAIN frames
      /\ Top \in FrameType /\ Last(frames) = frames[Len(frames)] /\ DOMAIN frames = 1 .. Len(frames)
  BY Popped DEF IInv, Ownership, Typed, Top
<1>2. /\ a \in DOMAIN heap /\ FrameOK(heap[a], Top) /\ heap[a].kind = Top.fn /\ heap[a].marked
      /\ Top.next >= 1 /\ Top.next \in Nat
  BY <1>1 DEF Ownership, Stack, FrameOK, Compound, FrameType
<1>3. n \in DOMAIN heap[a].slots
  <2>1. heap[a] \in ObjectType
    BY <1>1, <1>2
  <2>2. heap[a].slots \in Seq(Nat)
    BY <2>1 DEF ObjectType
  <2> QED
    BY <1>2, <2>2 DEF TakeSlot, Slots
<1>4. held' = held /\ borrowed' = borrowed /\ created' = created
  BY DEF TakeSlot
<1>5. CASE p = Null
  <2>1. heap' = heap /\ frames' = fr
    BY <1>5 DEF TakeSlot, Slots, Advanced
  <2>2. Ownership(heap, fr, held, Null)
    BY <1>1, <1>5, FrameAdvances
  <2> QED
    BY <1>4, <2>1, <2>2 DEF IInv
<1>6. CASE p # Null
  <2> DEFINE e == Enter(h, fr, p)
  <2>1. heap' = e.heap /\ frames' = e.frames
    BY <1>6 DEF TakeSlot, Slots, Advanced, Emptied, WithoutSlot
  <2>2. /\ p \in DOMAIN heap /\ ~ heap[p].marked /\ p # a /\ ObjectOK(heap[p])
        /\ heap[p].kind = SlotKind(heap[a].kind, n)
    BY <1>1, <1>2, <1>3, <1>6 DEF Ownership, Links, Objects
  <2>3. /\ Ownership(h, frames, held, p) /\ DOMAIN h = DOMAIN heap /\ h[a].slots[n] = Null
        /\ \A b \in DOMAIN heap : h[b].marked = heap[b].marked
        /\ \A b \in DOMAIN heap : b # a => h[b] = heap[b]
        /\ \A l \in DOMAIN heap : BytesOnly(heap, l) => BytesOnly(h, l)
    <3>1. /\ a = frames[Len(frames)].arg /\ frames[Len(frames)].fn \in Compound
          /\ heap[a].slots[n] # Null /\ n \in DOMAIN heap[a].slots
          /\ Ownership(heap, frames, held, Null) /\ Len(frames) \in DOMAIN frames
      BY <1>1, <1>3, <1>6
    <3> HIDE DEF a, n
    <3>2. Ownership(h, frames, held, p) /\ OneSlotLess(heap, h, a, n)
      BY <3>1, SlotEmptied
    <3> QED
      BY <3>2 DEF OneSlotLess
  <2> HIDE DEF h, p
  <2>4. Ownership(h, fr, held, p)
    BY <1>1, <2>3, FrameAdvances
  <2>5. h[p].release = "Caller" => ~ Outer(fr, Len(fr) + 1)
    <3> SUFFICES ASSUME heap[p].release = "Caller", Outer(fr, Len(fr) + 1) PROVE FALSE
      BY <2>2, <2>3
    <3>1. heap[p].kind = "Buffer" /\ Top.fn = "List"
      BY <1>2, <2>2 DEF ObjectOK, SlotKind, Compound
    <3>2. DOMAIN fr = DOMAIN frames /\ \A j \in DOMAIN frames : j # Len(frames) => fr[j] = frames[j]
      BY <1>1
    <3>3. fr[Len(frames)].fn = "List"
      BY <1>1, <3>1, NextFrame DEF FrameType
    <3> HIDE DEF fr
    <3>4. Outer(frames, Len(frames))
      BY <1>1, <3>2, <3>3 DEF Outer
    <3>5. BytesOnly(heap, a)
      BY <1>1, <3>1, <3>4 DEF Ownership, QuietInside
    <3> QED
      BY <1>3, <1>6, <3>5 DEF BytesOnly, p
  <2>6. h[p].kind = "List" => BytesOnly(h, p)
    <3> SUFFICES ASSUME heap[p].kind = "List" PROVE BytesOnly(heap, p)
      BY <2>2, <2>3
    <3>1. heap[a].kind = "Tensor" /\ n # 1
      BY <1>2, <2>2 DEF SlotKind, Compound
    <3>2. ObjectOK(heap[a]) /\ heap[a] \in ObjectType
      BY <1>1, <1>2 DEF Ownership, Objects
    <3>3. n = 2
      BY <1>3, <3>1, <3>2 DEF ObjectOK, ObjectType
    <3> QED
      BY <1>1, <1>2, <1>6, <3>1, <3>3 DEF Ownership, TensorBytes, p
  <2>8. Ownership(e.heap, e.frames, held, Null) /\ Same(h, e.heap, p)
    BY <1>6, <2>4, <2>5, <2>6, EnterKeepsOwnership
  <2>9. KeepsSlots(heap, e.heap)
    BY <1>2, <2>2, <2>3, <2>8 DEF Same, KeepsSlots
  <2>10. Borrows(heap', borrowed')
    BY <1>4, <2>1, <2>9, BorrowsKept DEF IInv
  <2> HIDE DEF e
  <2> QED
    BY <1>4, <2>1, <2>8, <2>10 DEF IInv
<1> QED
  BY <1>5, <1>6

\* Freeing what is marked and has only empty slots.
LEMMA FreeOK ==
  ASSUME NEW h \in Seq(ObjectType), NEW a \in DOMAIN h, ObjectOK(h[a]), h[a].marked,
         h[a].freed = 0, \A i \in DOMAIN h[a].slots : h[a].slots[i] = Null
  PROVE  ObjectOK(Free(h, a)[a]) /\ Free(h, a)[a].marked /\ Free(h, a)[a].freed = 1
<1> DEFINE o == h[a]
           r == Free(h, a)[a]
<1>1. /\ Same(h, Free(h, a), a) /\ r.marked = o.marked
      /\ r.release = o.release /\ r.released = o.released /\ r.freed = o.freed + 1
  BY Freed
<1>2. r.marked
  BY <1>1, Zenon
<1>3. r.kind = o.kind /\ r.slots = o.slots /\ r.hook = o.hook /\ r.freed = 1
  BY <1>1 DEF Same
<1>4. ObjectOK(o) /\ o.marked
  OBVIOUS
<1>5. ObjectOK(r)
  <2> HIDE DEF o, r
  <2>1. \A i \in DOMAIN r.slots : r.slots[i] = Null
    BY <1>3 DEF o
  <2> QED
    BY <1>1, <1>2, <1>3, <1>4, <2>1 DEF ObjectOK
<1> QED
  BY <1>2, <1>3, <1>5

\* The end of a teardown loop: every slot was emptied, and the box goes.
LEMMA EndLoopSafe ==
  ASSUME IInv, frames # <<>>, Top.fn \in Compound, EndLoop PROVE IInv'
<1> DEFINE a == Top.arg
           h == Free(heap, a)
<1>1. /\ heap \in Seq(ObjectType) /\ frames \in Seq(FrameType)
      /\ Ownership(heap, frames, held, Null)
      /\ Top = Last(frames) /\ Top = frames[Len(frames)] /\ Len(frames) \in DOMAIN frames
      /\ Top \in FrameType
  BY Popped DEF IInv, Ownership, Typed, Top
<1>2. a \in DOMAIN heap /\ FrameOK(heap[a], Top) /\ ObjectOK(heap[a])
  BY <1>1 DEF Ownership, Stack, Objects
<1>3. /\ heap[a].marked /\ heap[a].freed = 0
      /\ \A j \in DOMAIN heap[a].slots : j < Top.next => heap[a].slots[j] = Null
  BY <1>2 DEF FrameOK, Compound
<1>4. \A j \in DOMAIN heap[a].slots : heap[a].slots[j] = Null
  <2>1. heap[a] \in ObjectType
    BY <1>1, <1>2
  <2>2. heap[a].slots \in Seq(Nat) /\ Top.next \in Nat
    BY <1>1, <2>1 DEF ObjectType, FrameType
  <2> QED
    BY <1>3, <2>2 DEF EndLoop, Slots
<1>5. Same(heap, h, a) /\ ObjectOK(h[a]) /\ h[a].marked /\ h[a].freed = 1
  BY <1>1, <1>2, <1>3, <1>4, Freed, FreeOK
<1>6. /\ heap' = h /\ frames' = Front(frames) /\ held' = held \ {a} /\ created' = created
      /\ borrowed' \subseteq borrowed
  BY DEF EndLoop
<1> HIDE DEF h
<1>7. Ownership(h, Front(frames), held \ {a}, Null)
  BY <1>1, <1>5, FrameReturns
<1>8. Borrows(heap', borrowed')
  BY <1>2, <1>5, <1>6, SameKeepsSlots, BorrowsKept DEF IInv
<1> QED
  BY <1>6, <1>7, <1>8 DEF IInv

\* A release callback returns: the box of a buffer goes now, that of a context is gone.
LEMMA ReleaseReturnsSafe ==
  ASSUME IInv, ReleaseReturns PROVE IInv'
<1> DEFINE a == Top.arg
           h == IF heap[a].kind = "Buffer" THEN Free(heap, a) ELSE heap
<1>1. /\ heap \in Seq(ObjectType) /\ frames \in Seq(FrameType) /\ frames # <<>>
      /\ Ownership(heap, frames, held, Null) /\ Top.fn = "Release"
      /\ Top = Last(frames) /\ Top = frames[Len(frames)] /\ Len(frames) \in DOMAIN frames
  BY Popped DEF IInv, Ownership, Typed, Top, ReleaseReturns, Running
<1>2. a \in DOMAIN heap /\ FrameOK(heap[a], Top) /\ ObjectOK(heap[a])
  BY <1>1 DEF Ownership, Stack, Objects
<1>3. /\ heap[a].marked
      /\ \/ heap[a].kind = "Buffer" /\ heap[a].freed = 0
         \/ heap[a].kind = "Context" /\ heap[a].freed = 1
  BY <1>1, <1>2 DEF FrameOK, Compound
<1>4. held \ {a} = held
  BY <1>1, <1>3 DEF Ownership, Handles, NulledOnEntry
<1>5. Same(heap, h, a) /\ ObjectOK(h[a]) /\ h[a].marked /\ h[a].freed = 1
  <2>1. CASE heap[a].kind = "Buffer"
    <3>1. \A i \in DOMAIN heap[a].slots : heap[a].slots[i] = Null
      BY <1>2, <2>1 DEF ObjectOK, Compound
    <3> QED
      BY <1>1, <1>2, <1>3, <2>1, <3>1, Freed, FreeOK
  <2>2. CASE heap[a].kind = "Context"
    BY <1>1, <1>2, <1>3, <2>2 DEF Same
  <2> QED
    BY <1>3, <2>1, <2>2
<1>6. /\ heap' = h /\ frames' = Front(frames) /\ held' = held /\ created' = created
      /\ borrowed' = borrowed
  BY <1>4 DEF ReleaseReturns
<1> HIDE DEF h
<1>7. Ownership(h, Front(frames), held, Null)
  <2>1. Ownership(h, Front(frames), held \ {a}, Null)
    BY <1>1, <1>5, FrameReturns
  <2> QED
    BY <1>4, <2>1
<1>8. Borrows(heap', borrowed')
  BY <1>2, <1>5, <1>6, SameKeepsSlots, BorrowsKept DEF IInv
<1> QED
  BY <1>6, <1>7, <1>8 DEF IInv

LEMMA NextSafe == ASSUME Debug, IInv, [Next]_vars PROVE IInv'
<1>1. ASSUME NEW fn \in Compound, Running(fn), TakeSlot \/ EndLoop PROVE IInv'
  BY <1>1, TakeSlotSafe, EndLoopSafe DEF Running
<1>2. CASE Library
  BY <1>1, <1>2, ReleaseReturnsSafe
     DEF Library, hurray_buffer_list_destroy, hurray_tensor_destroy, hurray_item_destroy, Compound
<1>3. CASE \E a \in held : Destroy(a)
  BY <1>3, DestroySafe
<1>4. CASE \E l, b \in held : hurray_buffer_list_push(l, b)
  BY <1>4, PushSafe
<1>5. CASE UNCHANGED vars
  BY <1>5 DEF vars, IInv
<1> QED
  BY <1>2, <1>3, <1>4, <1>5, ConstructSafe, GetterSafe DEF Next

-----------------------------------------------------------------------------
\* With no handle held and no call under way, whatever is alive is in a slot of something alive,
\* of a kind that may hold it; nothing holds an item, so nothing is alive.
LEMMA NothingIsLeft ==
  ASSUME IInv, held = {}, frames = <<>>, NEW a \in DOMAIN heap PROVE heap[a].freed = 1
<1> DEFINE Alive(x, kind) == x \in DOMAIN heap /\ heap[x].freed = 0 /\ heap[x].kind = kind
<1>1. /\ heap \in Seq(ObjectType) /\ Objects(heap) /\ Links(heap)
      /\ Owned(heap, frames, held, Null) /\ DOMAIN frames = {}
  BY DEF IInv, Ownership, Typed
<1>2. ASSUME NEW x \in DOMAIN heap, heap[x].freed = 0
      PROVE  \E o \in DOMAIN heap : \E i \in DOMAIN heap[o].slots :
                heap[o].freed = 0 /\ heap[o].kind \in Compound
                /\ heap[x].kind = SlotKind(heap[o].kind, i)
  <2>1. x # Null
    BY <1>1 DEF Null
  <2>2. PICK o \in DOMAIN heap : \E i \in DOMAIN heap[o].slots : heap[o].slots[i] = x
    BY <1>1, <1>2, <2>1 DEF Owned
  <2>3. PICK i \in DOMAIN heap[o].slots : heap[o].slots[i] = x
    BY <2>2
  <2>4. heap[x].kind = SlotKind(heap[o].kind, i)
    BY <1>1, <2>1, <2>3 DEF Links
  <2>5. heap[o] \in ObjectType /\ ObjectOK(heap[o])
    BY <1>1 DEF Objects
  <2>6. heap[o].freed \in Nat
    BY <2>5 DEF ObjectType
  <2>7. heap[o].freed = 0 /\ heap[o].kind \in Compound
    BY <2>1, <2>3, <2>5, <2>6 DEF ObjectOK
  <2> QED
    BY <2>4, <2>7
<1>3. \A x : ~ Alive(x, "Item")
  BY <1>2 DEF SlotKind, Compound
<1>4. \A x : ~ Alive(x, "Tensor")
  BY <1>2, <1>3 DEF SlotKind, Compound
<1>5. \A x : ~ Alive(x, "List")
  BY <1>2, <1>4 DEF SlotKind, Compound
<1>6. heap[a].freed # 0
  BY <1>2, <1>3, <1>4, <1>5 DEF Compound
<1>7. heap[a] \in ObjectType /\ ObjectOK(heap[a])
  BY <1>1 DEF Objects
<1>8. heap[a].freed \in Nat
  BY <1>7 DEF ObjectType
<1> QED
  BY <1>6, <1>7, <1>8 DEF ObjectOK

LEMMA InvariantFrees == IInv => FreedExactlyOnce
<1> SUFFICES ASSUME IInv PROVE FreedExactlyOnce
  OBVIOUS
<1>1. Address = DOMAIN heap /\ heap \in Seq(ObjectType)
  BY DEF Address, IInv, Ownership, Typed
<1>2. ASSUME NEW a \in DOMAIN heap PROVE ObjectOK(heap[a]) /\ heap[a] \in ObjectType
  BY <1>1 DEF IInv, Ownership, Objects
<1>3. FreedOnce
  <2> SUFFICES ASSUME NEW a \in DOMAIN heap PROVE heap[a].freed <= 1 /\ heap[a].released <= 1
    BY <1>1 DEF FreedOnce
  <2> QED
    BY <1>2 DEF ObjectOK, ObjectType
<1>4. NothingLeaks
  <2> SUFFICES ASSUME held = {}, frames = <<>>, NEW a \in DOMAIN heap
               PROVE  heap[a].freed > 0 /\ (heap[a].hook => heap[a].released > 0)
    BY <1>1 DEF NothingLeaks
  <2>1. heap[a].freed = 1
    BY NothingIsLeft
  <2> QED
    BY <1>2, <2>1 DEF ObjectOK
<1> QED
  BY <1>3, <1>4 DEF FreedExactlyOnce

LEMMA InvariantPoints == IInv => PointersAreGood
<1> SUFFICES ASSUME IInv PROVE PointersAreGood
  OBVIOUS
<1>1. Address = DOMAIN heap /\ heap \in Seq(ObjectType)
  BY DEF Address, IInv, Ownership, Typed
<1>2. TypeOK
  <2>1. ASSUME NEW a \in DOMAIN heap
        PROVE  /\ heap[a].kind \in Kinds /\ heap[a].release \in Releases
               /\ heap[a].marked \in BOOLEAN
    <3>1. heap[a] \in ObjectType
      BY <1>1
    <3> QED
      BY <3>1 DEF ObjectType
  <2>2. \A a \in DOMAIN heap : \A i \in DOMAIN heap[a].slots :
           heap[a].slots[i] # Null =>
              heap[a].slots[i] \in DOMAIN heap
              /\ heap[heap[a].slots[i]].kind = SlotKind(heap[a].kind, i)
    BY DEF IInv, Ownership, Links
  <2>3. /\ held \subseteq DOMAIN heap
        /\ \A b \in borrowed : b.ptr \in DOMAIN heap /\ b.owner \in DOMAIN heap
        /\ \A i \in DOMAIN frames : frames[i].arg \in DOMAIN heap
        /\ created \in 0 .. MaxCreated
    BY DEF IInv, Ownership, Handles, Borrows, Stack
  <2> QED
    BY <1>1, <2>1, <2>2, <2>3 DEF TypeOK
<1>3. BorrowedIsLive
  <2> SUFFICES ASSUME NEW b \in borrowed
               PROVE  b.fresh /\ (~ heap[b.owner].marked => heap[b.ptr].freed = 0)
    BY DEF BorrowedIsLive, Live
  <2>1. /\ b.ptr \in DOMAIN heap /\ b.owner \in DOMAIN heap /\ b.fresh
        /\ ~ heap[b.owner].marked =>
              \E i \in DOMAIN heap[b.owner].slots : heap[b.owner].slots[i] = b.ptr
    BY DEF IInv, Borrows
  <2>2. b.ptr # Null
    BY <1>1, <2>1 DEF Null
  <2> QED
    BY <2>1, <2>2 DEF IInv, Ownership, Links
<1>4. NoDanglingHandle
  BY DEF IInv, Ownership, Handles, NoDanglingHandle, Live
<1> QED
  BY <1>2, <1>3, <1>4 DEF PointersAreGood

\* With the sentinels compiled in, every handle of the C ABI is freed exactly once and every
\* release callback called exactly once, whatever the callbacks call: the destroy functions of
\* buffer.rs, buffer_list.rs, stream/tensor.rs, item.rs and tensor_context.rs, for any number of
\* handles and lists of any length.
THEOREM HandlesFreedOnce == Debug => (Spec => []FreedExactlyOnce)
<1>1. ASSUME Debug PROVE Spec => []FreedExactlyOnce
  <2>1. IInv /\ [Next]_vars => IInv'
    BY <1>1, NextSafe
  <2> QED
    BY <2>1, InitSafe, InvariantFrees, PTL DEF Spec
<1> QED
  BY <1>1

\* With the sentinels compiled in, no pointer a C program may still use dangles: what a getter
\* handed out is alive until the destruction of its owner begins, and a handle variable that is
\* not null points to a handle that is not freed, inside a release callback too.
THEOREM PointersStayGood == Debug => (Spec => []PointersAreGood)
<1>1. ASSUME Debug PROVE Spec => []PointersAreGood
  <2>1. IInv /\ [Next]_vars => IInv'
    BY <1>1, NextSafe
  <2> QED
    BY <2>1, InitSafe, InvariantPoints, PTL DEF Spec
<1> QED
  BY <1>1
=============================================================================
