--------------------------- MODULE PyMemory_proof ---------------------------
(***************************************************************************)
(* No Python object points into freed memory, everything is released once, *)
(* and what is declared of shared bytes is true of them: proof, for any    *)
(* number of objects, buffers of any number and size, and any order in     *)
(* which the program makes, hands on and drops them.                       *)
(*                                                                         *)
(* The invariant (IInv) is that of reference counting: the count of an     *)
(* object is the number of references to it, where the references are      *)
(* those of the objects that still own theirs, the names of the program,   *)
(* and a call under way.  With it: references lead to older objects, so    *)
(* that there are no cycles, and what an object points to is its own or    *)
(* kept by a reference of its.  A call counts a reference before somebody  *)
(* owns it, or gives it up before it is uncounted: Loose is the invariant  *)
(* in between, and each operation is a chain of steps from Loose to Loose. *)
(***************************************************************************)
EXTENDS PyMemory, FiniteSetTheorems, TLAPS

Kinds == {"Array", "Tensor", "Matrix", "Managed", "DlCapsule", "Native", "Producer"}
BufferType == [block : Nat, align : Nat, synced : BOOLEAN]
BlockType  == [len : Nat, align : Nat, synced : BOOLEAN, live : BOOLEAN]
ObjectType == [kind : Kinds, bufs : Seq(BufferType), refs : Seq(Nat), owns : SUBSET Nat,
               dense : BOOLEAN, rc : Int, freed : Nat, name : {"fresh", "used"},
               list : Nat, ctx : Nat]

\* The object still owns the references it has.
Holding(o) == o.freed = 0 /\ o.name = "fresh"

\* A capsule that was never handed out.
Failed(o) == o.kind = "Native" /\ Holding(o) /\ o.refs = <<>>

ObjectOK(o) ==
  /\ o.name = "used" => o.kind \in {"DlCapsule", "Native"}
  /\ o.freed <= 1
  /\ o.freed = 1 => o.rc = 0 /\ o.refs = <<>> /\ o.bufs = <<>> /\ o.owns = {}
  /\ o.kind # "Native" => o.list = 0 /\ o.ctx = 0
  /\ o.kind = "Native" => IF Holding(o) THEN o.list = 0 /\ o.ctx + Len(o.refs) = 1
                                        ELSE o.list = 1 /\ o.ctx = 1
  /\ o.freed = 0 /\ o.kind \in {"Array", "Managed"} => Len(o.bufs) = 1
  /\ o.freed = 0 /\ o.kind \in {"Managed", "DlCapsule", "Producer"} => Len(o.refs) = 1
  /\ o.freed = 0 /\ o.kind = "Tensor" /\ o.dense => Len(o.bufs) > 0
  /\ o.kind \in {"Matrix", "DlCapsule", "Producer"} => o.bufs = <<>>
  /\ o.kind # "Tensor" => \A i \in DOMAIN o.refs : o.refs[i] # NoBase

Objects(h) == \A o \in DOMAIN h : ObjectOK(h[o])

MayRefer(k, l) ==
  \/ k = "Tensor" /\ l \in {"Array", "Matrix", "Tensor", "Producer"}
  \/ k \in {"Array", "DlCapsule"} /\ l = "Managed"
  \/ k = "Matrix" /\ l = "Array"
  \/ k \in {"Managed", "Native"} /\ l = "Tensor"
  \/ k = "Producer" /\ l \in {"Tensor", "Native"}

Links(h) ==
  \A o \in DOMAIN h : \A i \in DOMAIN h[o].refs :
     h[o].refs[i] # NoBase => h[o].refs[i] \in DOMAIN h /\ MayRefer(h[o].kind, h[h[o].refs[i]].kind)

\* A reference to x: <<o, i>> is the i-th of object o.
Owning(h, o, i, x) ==
  o \in DOMAIN h /\ Holding(h[o]) /\ i \in DOMAIN h[o].refs /\ h[o].refs[i] = x

References(h, H, c, x) ==
  {e \in Nat \X Nat : \/ Owning(h, e[1], e[2], x)
                      \/ e = <<0, 0>> /\ x \in H
                      \/ e = <<0, 1>> /\ c # <<>> /\ c[1].cap = x}

Counts(h, H, c) ==
  \A x \in DOMAIN h :
     IsFiniteSet(References(h, H, c, x)) /\ h[x].rc = Cardinality(References(h, H, c, x))

\* An allocation that is live goes with one object.
Owners(m, h) ==
  /\ \A o \in DOMAIN h : \A b \in h[o].owns : b \in DOMAIN m /\ m[b].live
  /\ \A o, p \in DOMAIN h : \A b \in h[o].owns : b \in h[p].owns => o = p
  /\ \A b \in DOMAIN m : m[b].live => \E o \in DOMAIN h : b \in h[o].owns

\* What an object of kind k declares of a buffer is so.
Declares(k, u, block) ==
  /\ k \in {"Tensor", "Native"} /\ block.len > 0 =>
       MIN_BUFFER_ALIGNMENT <= u.align /\ u.align <= block.align
  /\ u.synced => block.synced
  /\ k \in {"Array", "Managed"} => block.synced

Points(m, h) ==
  \A o \in DOMAIN h : \A i \in DOMAIN h[o].bufs :
     h[o].bufs[i].block \in DOMAIN m /\ Declares(h[o].kind, h[o].bufs[i], m[h[o].bufs[i].block])

Newest(h) == \A o \in DOMAIN h : Failed(h[o]) => o = Len(h) /\ h[o].rc = 0

Source(h, obj) == IF h[obj].kind = "Tensor" THEN obj ELSE h[obj].refs[1]

Calling(h, H, c) ==
  c # <<>> => /\ c[1].obj \in H /\ h[c[1].obj].kind \in {"Tensor", "Producer"}
              /\ c[1].cap \in DOMAIN h /\ h[c[1].cap].kind = "Native"

Static(m, h) ==
  /\ m \in Seq(BlockType) /\ h \in Seq(ObjectType)
  /\ Objects(h) /\ Links(h) /\ Owners(m, h) /\ Points(m, h) /\ Newest(h)

\* References lead to older objects, through a matrix too.
Older(h) ==
  \A o \in DOMAIN h : \A i \in DOMAIN h[o].refs :
     Holding(h[o]) /\ h[o].kind # "Matrix" /\ h[o].refs[i] # NoBase =>
        /\ h[o].refs[i] < o
        /\ h[h[o].refs[i]].kind = "Matrix" =>
             \A j \in DOMAIN h[h[o].refs[i]].refs : h[h[o].refs[i]].refs[j] < o

PointsTo(o, b) == \E i \in DOMAIN o.bufs : o.bufs[i].block = b

\* A reference to r keeps b: r points to it, or what r refers to does.
Covers(h, r, b) ==
  IF h[r].kind \in {"Matrix", "Producer"} THEN \E j \in DOMAIN h[r].refs : PointsTo(h[h[r].refs[j]], b)
  ELSE PointsTo(h[r], b)

Kept(m, h) ==
  \A o \in DOMAIN h : \A b \in DOMAIN m : Holding(h[o]) /\ PointsTo(h[o], b) =>
     /\ m[b].live
     /\ ~ Failed(h[o]) =>
          b \in h[o].owns \/ \E i \in DOMAIN h[o].refs : h[o].refs[i] # NoBase /\ Covers(h, h[o].refs[i], b)

NotFleeting(h, c) ==
  /\ \A o \in DOMAIN h : \A i \in DOMAIN h[o].refs :
        h[o].kind = "Producer" => h[h[o].refs[i]].kind = "Tensor"
  /\ c # <<>> => h[c[1].cap].bufs = h[Source(h, c[1].obj)].bufs

Handlers ==
  /\ saved \in Seq({"default", "aligned"})
  /\ \A i \in DOMAIN saved : saved[i] = "default" <=> i = 1
  /\ handler \in {"default", "aligned"} /\ (handler = "aligned" <=> saved # <<>>)
  /\ Len(saved) <= MaxNesting

-----------------------------------------------------------------------------
\* Counting

\* A set of natural numbers that is not empty has a least element.
LEMMA Least ==
  ASSUME NEW T, T \subseteq Nat, T # {}
  PROVE  \E x \in T : \A y \in T : x <= y
<1>1. \E x \in T : \A y \in T : ~ (<<y, x>> \in OpToRel(<, Nat))
  BY NatLessThanWellFounded, WFMin
<1>2. PICK x \in T : \A y \in T : ~ (<<y, x>> \in OpToRel(<, Nat))
  BY <1>1
<1>3. \A y \in T : ~ (y < x)
  BY <1>2 DEF OpToRel
<1> QED
  BY <1>3

\* A set of natural numbers up to n that is not empty has a greatest element.
LEMMA Greatest ==
  ASSUME NEW n \in Nat, NEW T, T \subseteq 1 .. n, T # {}
  PROVE  \E x \in T : \A y \in T : y <= x
<1> DEFINE M == {m \in 0 .. n : n - m \in T}
<1>1. \A y \in T : n - y \in M
  OBVIOUS
<1>2. M \subseteq Nat /\ M # {}
  <2>1. M \subseteq Nat
    OBVIOUS
  <2> QED
    BY <1>1, <2>1
<1>3. PICK m \in M : \A k \in M : m <= k
  BY <1>2, Least
<1> QED
  BY <1>1, <1>3

\* The occurrences of a value in a sequence are finitely many.
LEMMA OccurrencesFinite ==
  ASSUME NEW S, NEW s \in Seq(S), NEW x
  PROVE  IsFiniteSet({i \in DOMAIN s : s[i] = x}) /\ Occurrences(s, x) \in Nat
<1>1. IsFiniteSet(DOMAIN s)
  BY FS_Interval
<1>2. IsFiniteSet({i \in DOMAIN s : s[i] = x})
  BY <1>1, FS_Subset
<1> QED
  BY <1>2, FS_CardinalityType DEF Occurrences

\* A sequence of one element.
LEMMA OccurrencesOfOne ==
  ASSUME NEW y, NEW x
  PROVE  Occurrences(<<y>>, x) = IF x = y THEN 1 ELSE 0
<1>1. {i \in DOMAIN <<y>> : <<y>>[i] = x} = IF x = y THEN {1} ELSE {}
  OBVIOUS
<1> QED
  BY <1>1, FS_EmptySet, FS_Singleton DEF Occurrences

\* The references to x of an object o that refers to s.
Column(o, s, x) == {<<o, i>> : i \in {j \in DOMAIN s : s[j] = x}}

\* An object's references to x are as many as the occurrences of x among them.
LEMMA OneOwner ==
  ASSUME NEW S, NEW s \in Seq(S), NEW x, NEW o
  PROVE  IsFiniteSet(Column(o, s, x)) /\ Cardinality(Column(o, s, x)) = Occurrences(s, x)
<1> DEFINE I == {j \in DOMAIN s : s[j] = x}
           G == {<<o, i>> : i \in I}
           f == [i \in I |-> <<o, i>>]
<1>1. IsFiniteSet(I)
  BY OccurrencesFinite
<1>2. f \in Bijection(I, G)
  BY DEF Bijection, Injection, Surjection, IsInjective
<1>3. ExistsBijection(I, G)
  BY <1>2 DEF ExistsBijection
<1> QED
  BY <1>1, <1>3, FS_Bijection DEF Occurrences, Column

\* A sequence with an element more.
LEMMA Appended ==
  ASSUME NEW S, NEW s \in Seq(S), NEW e \in S
  PROVE  /\ Append(s, e) \in Seq(S) /\ Len(Append(s, e)) = Len(s) + 1
         /\ DOMAIN Append(s, e) = DOMAIN s \cup {Len(s) + 1}
         /\ Len(s) + 1 \notin DOMAIN s /\ Len(s) + 1 \in Nat \ {0} /\ 0 \notin DOMAIN s
         /\ Append(s, e)[Len(s) + 1] = e
         /\ \A i \in DOMAIN s : Append(s, e)[i] = s[i]
         /\ DOMAIN s = 1 .. Len(s) /\ Len(s) \in Nat
OBVIOUS

\* A count that follows its references.
LEMMA Balance ==
  ASSUME NEW T, IsFiniteSet(T), NEW G, IsFiniteSet(G), G \cap T = {}, NEW L, L \subseteq T
  PROVE  /\ IsFiniteSet((T \ L) \cup G)
         /\ Cardinality((T \ L) \cup G) = Cardinality(T) - Cardinality(L) + Cardinality(G)
<1>1. IsFiniteSet(T \ L) /\ Cardinality(T \ L) = Cardinality(T) - Cardinality(T \cap L)
  BY FS_Difference
<1>2. T \cap L = L /\ (T \ L) \cap G = {}
  OBVIOUS
<1>3. IsFiniteSet(L)
  BY FS_Subset
<1>4. /\ Cardinality(T) \in Nat /\ Cardinality(L) \in Nat /\ Cardinality(G) \in Nat
      /\ Cardinality({}) = 0
  BY <1>3, FS_CardinalityType, FS_EmptySet
<1>5. /\ IsFiniteSet((T \ L) \cup G)
      /\ Cardinality((T \ L) \cup G) =
           Cardinality(T \ L) + Cardinality(G) - Cardinality((T \ L) \cap G)
  BY <1>1, FS_Union
<1>6. /\ Cardinality(T \cap L) = Cardinality(L)
      /\ Cardinality((T \ L) \cap G) = Cardinality({})
  BY <1>2
<1>7. /\ Cardinality(T \ L) = Cardinality(T) - Cardinality(L)
      /\ Cardinality((T \ L) \cup G) = Cardinality(T \ L) + Cardinality(G) - 0
  BY <1>1, <1>4, <1>5, <1>6, Zenon
<1> HIDE <1>2, <1>6
<1> QED
  BY <1>4, <1>5, <1>7

-----------------------------------------------------------------------------
\* Objects, but for their counts

Alike(o, p) ==
  /\ p.kind = o.kind /\ p.bufs = o.bufs /\ p.refs = o.refs /\ p.owns = o.owns
  /\ p.dense <=> o.dense
  /\ p.freed = o.freed /\ p.name = o.name /\ p.list = o.list /\ p.ctx = o.ctx

Recounted(h, g, s, d) ==
  /\ g \in Seq(ObjectType) /\ Len(g) = Len(h) /\ DOMAIN g = DOMAIN h
  /\ \A o \in DOMAIN h : Alike(h[o], g[o]) /\ g[o].rc = h[o].rc + d * Occurrences(s, o)

LEMMA RecountedOne ==
  ASSUME NEW o \in ObjectType, NEW n \in Int
  PROVE  LET p == [o EXCEPT !.rc = n] IN p \in ObjectType /\ Alike(o, p) /\ p.rc = n
BY DEF ObjectType, Alike

LEMMA FunctionIsSeq ==
  ASSUME NEW S, NEW n \in Nat, NEW f \in [1 .. n -> S]
  PROVE  f \in Seq(S) /\ Len(f) = n
OBVIOUS

\* Counted changes counts only.
LEMMA CountedRecounts ==
  ASSUME NEW h \in Seq(ObjectType), NEW s \in Seq(Nat), NEW d \in {-1, 1}
  PROVE  Recounted(h, Counted(h, s, d), s, d)
<1> DEFINE n(o) == h[o].rc + d * Occurrences(s, o)
           p(o) == [h[o] EXCEPT !.rc = n(o)]
           g == [o \in DOMAIN h |-> p(o)]
<1>1. Counted(h, s, d) = g
  BY DEF Counted
<1>2. ASSUME NEW o \in DOMAIN h PROVE n(o) \in Int /\ h[o] \in ObjectType
  <2>1. Occurrences(s, o) \in Nat
    BY OccurrencesFinite
  <2>2. h[o] \in ObjectType
    OBVIOUS
  <2>3. h[o].rc \in Int
    BY <2>2 DEF ObjectType
  <2> QED
    BY <2>1, <2>2, <2>3
<1> HIDE DEF n
<1>3. ASSUME NEW o \in DOMAIN h
      PROVE  p(o) \in ObjectType /\ Alike(h[o], p(o)) /\ p(o).rc = n(o)
  BY <1>2, RecountedOne
<1> HIDE DEF p
<1>4. DOMAIN g = DOMAIN h /\ \A o \in DOMAIN h : g[o] = p(o)
  OBVIOUS
<1>5. g \in Seq(ObjectType) /\ Len(g) = Len(h)
  <2>1. Len(h) \in Nat /\ DOMAIN h = 1 .. Len(h)
    OBVIOUS
  <2>2. g \in [1 .. Len(h) -> ObjectType]
    BY <1>3, <2>1
  <2> QED
    BY <2>1, <2>2, FunctionIsSeq
<1> HIDE DEF g
<1> QED
  BY <1>1, <1>3, <1>4, <1>5 DEF Recounted, n

\* The references that nobody owns yet, or any more, are counted with s.
CountsWith(h, H, c, s) ==
  \A x \in DOMAIN h :
     /\ IsFiniteSet(References(h, H, c, x))
     /\ h[x].rc = Cardinality(References(h, H, c, x)) + Occurrences(s, x)

LEMMA CountsAlone ==
  ASSUME NEW h, NEW H, NEW c
  PROVE  Counts(h, H, c) <=> CountsWith(h, H, c, <<>>)
<1>1. \A x : Occurrences(<<>>, x) = 0
  BY FS_EmptySet DEF Occurrences
<1>2. \A x : IsFiniteSet(References(h, H, c, x)) => Cardinality(References(h, H, c, x)) \in Nat
  BY FS_CardinalityType
<1> QED
  BY <1>1, <1>2 DEF Counts, CountsWith

LEMMA SameReferences ==
  ASSUME NEW h, NEW g, NEW H, NEW c, DOMAIN g = DOMAIN h, \A o \in DOMAIN h : Alike(h[o], g[o]),
         NEW x
  PROVE  References(g, H, c, x) = References(h, H, c, x)
<1>1. \A o, i : Owning(g, o, i, x) <=> Owning(h, o, i, x)
  BY DEF Owning, Alike, Holding
<1> QED
  BY <1>1 DEF References

\* Objects get references, which somebody will own.
LEMMA CountsUp ==
  ASSUME NEW h \in Seq(ObjectType), NEW g, NEW H, NEW c, NEW s \in Seq(Nat),
         Recounted(h, g, s, 1), CountsWith(h, H, c, <<>>)
  PROVE  CountsWith(g, H, c, s)
<1> SUFFICES ASSUME NEW x \in DOMAIN h
             PROVE  /\ IsFiniteSet(References(g, H, c, x))
                    /\ g[x].rc = Cardinality(References(g, H, c, x)) + Occurrences(s, x)
  BY DEF CountsWith, Recounted
<1>1. References(g, H, c, x) = References(h, H, c, x)
  <2>1. DOMAIN g = DOMAIN h /\ \A o \in DOMAIN h : Alike(h[o], g[o])
    BY DEF Recounted
  <2> QED
    BY <2>1, SameReferences
<1>2. /\ IsFiniteSet(References(h, H, c, x))
      /\ h[x].rc = Cardinality(References(h, H, c, x))
  BY CountsAlone DEF Counts
<1>3. g[x].rc = h[x].rc + 1 * Occurrences(s, x)
  BY DEF Recounted
<1>4. Occurrences(s, x) \in Nat /\ Cardinality(References(h, H, c, x)) \in Nat
  BY <1>2, OccurrencesFinite, FS_CardinalityType
<1> QED
  BY <1>1, <1>2, <1>3, <1>4

\* Objects lose references that nobody owns any more.
LEMMA CountsDown ==
  ASSUME NEW h \in Seq(ObjectType), NEW g, NEW H, NEW c, NEW s \in Seq(Nat),
         Recounted(h, g, s, -1), CountsWith(h, H, c, s)
  PROVE  CountsWith(g, H, c, <<>>)
<1> SUFFICES ASSUME NEW x \in DOMAIN h
             PROVE  /\ IsFiniteSet(References(g, H, c, x))
                    /\ g[x].rc = Cardinality(References(g, H, c, x))
  BY CountsAlone DEF Counts, Recounted
<1>1. References(g, H, c, x) = References(h, H, c, x)
  <2>1. DOMAIN g = DOMAIN h /\ \A o \in DOMAIN h : Alike(h[o], g[o])
    BY DEF Recounted
  <2> QED
    BY <2>1, SameReferences
<1>2. /\ IsFiniteSet(References(h, H, c, x))
      /\ h[x].rc = Cardinality(References(h, H, c, x)) + Occurrences(s, x)
  BY DEF CountsWith
<1>3. g[x].rc = h[x].rc + (-1) * Occurrences(s, x)
  BY DEF Recounted
<1>4. Occurrences(s, x) \in Nat /\ Cardinality(References(h, H, c, x)) \in Nat
  BY <1>2, OccurrencesFinite, FS_CardinalityType
<1> QED
  BY <1>1, <1>2, <1>3, <1>4

\* A name or a call has references of its own.
LEMMA NamesAreApart ==
  ASSUME NEW h \in Seq(ObjectType), NEW o, NEW i, NEW x, Owning(h, o, i, x)
  PROVE  o \in Nat /\ i \in Nat /\ <<o, i>> # <<0, 0>> /\ <<o, i>> # <<0, 1>>
<1>1. o \in DOMAIN h /\ h[o] \in ObjectType
  BY DEF Owning
<1>2. h[o].refs \in Seq(Nat) /\ i \in DOMAIN h[o].refs
  BY <1>1 DEF Owning, ObjectType
<1> QED
  BY <1>1, <1>2

\* An object that was made owns what was counted for it, and nobody owns it yet.
LEMMA CountsAppend ==
  ASSUME NEW h \in Seq(ObjectType), NEW H, H \subseteq DOMAIN h, NEW c,
         c # <<>> => c[1].cap \in DOMAIN h,
         NEW p \in ObjectType, Holding(p), Links(h),
         \A i \in DOMAIN p.refs : p.refs[i] \in DOMAIN h \cup {NoBase},
         NEW s, CountsWith(h, H, c, p.refs), p.rc = Occurrences(s, Len(h) + 1),
         \A x \in DOMAIN h : Occurrences(s, x) = 0, s \in Seq(Nat)
  PROVE  CountsWith(Append(h, p), H, c, s)
<1> DEFINE g == Append(h, p)
           n == Len(h) + 1
<1>1. /\ DOMAIN g = DOMAIN h \cup {n} /\ n \notin DOMAIN h /\ n \in Nat \ {0} /\ g[n] = p
      /\ \A o \in DOMAIN h : g[o] = h[o]
      /\ p.refs \in Seq(Nat) /\ 0 \notin DOMAIN h
  <2>1. p.refs \in Seq(Nat)
    BY DEF ObjectType
  <2> QED
    BY <2>1, Appended
<1> HIDE DEF g, n
<1> SUFFICES ASSUME NEW x \in DOMAIN g
             PROVE  /\ IsFiniteSet(References(g, H, c, x))
                    /\ g[x].rc = Cardinality(References(g, H, c, x)) + Occurrences(s, x)
  BY DEF CountsWith, g
<1>2. ASSUME x \in DOMAIN h
      PROVE  /\ IsFiniteSet(References(g, H, c, x))
             /\ g[x].rc = Cardinality(References(g, H, c, x)) + Occurrences(s, x)
  <2> DEFINE T == References(h, H, c, x)
             G == Column(n, p.refs, x)
  <2>1. IsFiniteSet(G) /\ Cardinality(G) = Occurrences(p.refs, x)
    BY <1>1, OneOwner
  <2>2. IsFiniteSet(T) /\ h[x].rc = Cardinality(T) + Occurrences(p.refs, x)
    BY <1>2 DEF CountsWith
  <2>3. \A o, i : Owning(g, o, i, x) <=> Owning(h, o, i, x) \/ <<o, i>> \in G
    BY <1>1 DEF Owning, Column
  <2>4. \A e \in G : e \in Nat \X Nat /\ e[1] = n
    BY <1>1 DEF Column
  <2>5. G \cap T = {} /\ {} \subseteq T
    BY <1>1, <2>4 DEF References, Owning
  <2>6. References(g, H, c, x) = (T \ {}) \cup G
    BY <1>1, <2>3, <2>4 DEF References
  <2> HIDE DEF T, G
  <2>7. /\ IsFiniteSet((T \ {}) \cup G)
        /\ Cardinality((T \ {}) \cup G) = Cardinality(T) - Cardinality({}) + Cardinality(G)
    BY <2>1, <2>2, <2>5, Balance
  <2>8. Cardinality(T) \in Nat /\ Occurrences(p.refs, x) \in Nat /\ Cardinality({}) = 0
    BY <1>1, <2>2, OccurrencesFinite, FS_CardinalityType, FS_EmptySet
  <2>9. g[x] = h[x] /\ Occurrences(s, x) = 0
    BY <1>1, <1>2
  <2> QED
    BY <2>1, <2>2, <2>6, <2>7, <2>8, <2>9
<1>3. ASSUME x = n
      PROVE  /\ IsFiniteSet(References(g, H, c, x))
             /\ g[x].rc = Cardinality(References(g, H, c, x)) + Occurrences(s, x)
  <2>1. \A o, i : ~ Owning(g, o, i, n)
    <3> SUFFICES ASSUME NEW o, NEW i, Owning(g, o, i, n) PROVE FALSE
      OBVIOUS
    <3>1. CASE o = n
      BY <1>1, <3>1 DEF Owning, NoBase
    <3>2. CASE o \in DOMAIN h
      BY <1>1, <3>2 DEF Owning, Links, NoBase
    <3> QED
      BY <1>1, <3>1, <3>2 DEF Owning
  <2>2. n \notin H /\ ~ (c # <<>> /\ c[1].cap = n)
    BY <1>1
  <2>3. References(g, H, c, n) = {}
    BY <2>1, <2>2 DEF References
  <2>4. p.rc = Occurrences(s, n) /\ Occurrences(s, n) \in Nat
    BY OccurrencesFinite DEF n
  <2> QED
    BY <1>1, <1>3, <2>3, <2>4, FS_EmptySet
<1> QED
  BY <1>1, <1>2, <1>3

\* The program names an object it was given.
LEMMA CountsHold ==
  ASSUME NEW h \in Seq(ObjectType), NEW H, NEW c, NEW y, y \notin H,
         CountsWith(h, H, c, <<y>>)
  PROVE  CountsWith(h, H \cup {y}, c, <<>>)
<1> SUFFICES ASSUME NEW x \in DOMAIN h
             PROVE  /\ IsFiniteSet(References(h, H \cup {y}, c, x))
                    /\ h[x].rc = Cardinality(References(h, H \cup {y}, c, x))
  BY CountsAlone DEF Counts
<1> DEFINE T == References(h, H, c, x)
           U == References(h, H \cup {y}, c, x)
<1>1. IsFiniteSet(T) /\ h[x].rc = Cardinality(T) + IF x = y THEN 1 ELSE 0
  BY OccurrencesOfOne DEF CountsWith
<1>2. Cardinality(T) \in Nat
  BY <1>1, FS_CardinalityType
<1>3. CASE x # y
  <2>1. U = T
    BY <1>3 DEF References
  <2> QED
    BY <1>1, <1>2, <1>3, <2>1
<1>4. CASE x = y
  <2>1. U = T \cup {<<0, 0>>}
    BY <1>4 DEF References
  <2>2. <<0, 0>> \notin T
    BY <1>4, NamesAreApart DEF References
  <2> HIDE DEF T, U
  <2>3. IsFiniteSet(U) /\ Cardinality(U) = Cardinality(T) + 1
    BY <1>1, <2>1, <2>2, FS_AddElement
  <2> QED
    BY <1>1, <1>2, <1>4, <2>3 DEF U
<1> QED
  BY <1>3, <1>4

\* The program forgets a name.
LEMMA CountsUnhold ==
  ASSUME NEW h \in Seq(ObjectType), NEW H, NEW c, NEW y \in H,
         CountsWith(h, H, c, <<>>)
  PROVE  CountsWith(h, H \ {y}, c, <<y>>)
<1> SUFFICES ASSUME NEW x \in DOMAIN h
             PROVE  /\ IsFiniteSet(References(h, H \ {y}, c, x))
                    /\ h[x].rc = Cardinality(References(h, H \ {y}, c, x)) + IF x = y THEN 1 ELSE 0
  BY OccurrencesOfOne DEF CountsWith
<1> DEFINE T == References(h, H, c, x)
           U == References(h, H \ {y}, c, x)
<1>1. IsFiniteSet(T) /\ h[x].rc = Cardinality(T)
  BY CountsAlone DEF Counts
<1>2. Cardinality(T) \in Nat
  BY <1>1, FS_CardinalityType
<1>3. CASE x # y
  <2>1. U = T
    BY <1>3 DEF References
  <2> QED
    BY <1>1, <1>2, <1>3, <2>1
<1>4. CASE x = y
  <2>1. \A o, i : Owning(h, o, i, x) => <<o, i>> # <<0, 0>>
    BY NamesAreApart
  <2>2. U = T \ {<<0, 0>>} /\ <<0, 0>> \in T
    BY <1>4, <2>1 DEF References
  <2> HIDE DEF T, U
  <2>3. IsFiniteSet(U) /\ Cardinality(U) = Cardinality(T) - 1
    BY <1>1, <2>2, FS_RemoveElement
  <2> QED
    BY <1>1, <1>2, <1>4, <2>3 DEF U
<1> QED
  BY <1>3, <1>4

\* A call keeps the capsule it was given.
LEMMA CountsCall ==
  ASSUME NEW h \in Seq(ObjectType), NEW H, NEW c, c # <<>>,
         CountsWith(h, H, <<>>, <<c[1].cap>>)
  PROVE  CountsWith(h, H, c, <<>>)
<1> SUFFICES ASSUME NEW x \in DOMAIN h
             PROVE  /\ IsFiniteSet(References(h, H, c, x))
                    /\ h[x].rc = Cardinality(References(h, H, c, x))
  BY CountsAlone DEF Counts
<1> DEFINE T == References(h, H, <<>>, x)
           U == References(h, H, c, x)
<1>1. IsFiniteSet(T) /\ h[x].rc = Cardinality(T) + IF x = c[1].cap THEN 1 ELSE 0
  BY OccurrencesOfOne DEF CountsWith
<1>2. Cardinality(T) \in Nat
  BY <1>1, FS_CardinalityType
<1>3. CASE x # c[1].cap
  <2>1. U = T
    BY <1>3 DEF References
  <2> QED
    BY <1>1, <1>2, <1>3, <2>1
<1>4. CASE x = c[1].cap
  <2>1. U = T \cup {<<0, 1>>}
    BY <1>4 DEF References
  <2>2. <<0, 1>> \notin T
    <3>1. \A o, i : Owning(h, o, i, x) => <<o, i>> # <<0, 1>>
      BY NamesAreApart
    <3> QED
      BY <3>1 DEF References
  <2> HIDE DEF T, U
  <2>3. IsFiniteSet(U) /\ Cardinality(U) = Cardinality(T) + 1
    BY <1>1, <2>1, <2>2, FS_AddElement
  <2> QED
    BY <1>1, <1>2, <1>4, <2>3 DEF U
<1> QED
  BY <1>3, <1>4

\* The call ends.
LEMMA CountsUncall ==
  ASSUME NEW h \in Seq(ObjectType), NEW H, NEW c, c # <<>>,
         CountsWith(h, H, c, <<>>)
  PROVE  CountsWith(h, H, <<>>, <<c[1].cap>>)
<1> SUFFICES ASSUME NEW x \in DOMAIN h
             PROVE  /\ IsFiniteSet(References(h, H, <<>>, x))
                    /\ h[x].rc = Cardinality(References(h, H, <<>>, x))
                                   + IF x = c[1].cap THEN 1 ELSE 0
  BY OccurrencesOfOne DEF CountsWith
<1> DEFINE T == References(h, H, c, x)
           U == References(h, H, <<>>, x)
<1>1. IsFiniteSet(T) /\ h[x].rc = Cardinality(T)
  BY CountsAlone DEF Counts
<1>2. Cardinality(T) \in Nat
  BY <1>1, FS_CardinalityType
<1>3. CASE x # c[1].cap
  <2>1. U = T
    BY <1>3 DEF References
  <2> QED
    BY <1>1, <1>2, <1>3, <2>1
<1>4. CASE x = c[1].cap
  <2>1. \A o, i : Owning(h, o, i, x) => <<o, i>> # <<0, 1>>
    BY NamesAreApart
  <2>2. U = T \ {<<0, 1>>} /\ <<0, 1>> \in T
    BY <1>4, <2>1 DEF References
  <2> HIDE DEF T, U
  <2>3. IsFiniteSet(U) /\ Cardinality(U) = Cardinality(T) - 1
    BY <1>1, <2>2, FS_RemoveElement
  <2> QED
    BY <1>1, <1>2, <1>4, <2>3 DEF U
<1> QED
  BY <1>3, <1>4

Owned(o) == IF Holding(o) THEN o.refs ELSE <<>>

\* An object gives up the references it owned: those of t are passed on.
LEMMA CountsLetGo ==
  ASSUME NEW h \in Seq(ObjectType), NEW g \in Seq(ObjectType), NEW H, NEW c, NEW k \in DOMAIN h,
         DOMAIN g = DOMAIN h, \A o \in DOMAIN h : o # k => Alike(h[o], g[o]), ~ Holding(g[k]),
         NEW t \in Seq(Nat),
         \A o \in DOMAIN h : g[o].rc = h[o].rc - Occurrences(Owned(h[k]), o) + Occurrences(t, o),
         CountsWith(h, H, c, <<>>)
  PROVE  CountsWith(g, H, c, t)
<1> SUFFICES ASSUME NEW x \in DOMAIN h
             PROVE  /\ IsFiniteSet(References(g, H, c, x))
                    /\ g[x].rc = Cardinality(References(g, H, c, x)) + Occurrences(t, x)
  BY DEF CountsWith
<1> DEFINE T == References(h, H, c, x)
           L == Column(k, Owned(h[k]), x)
           U == References(g, H, c, x)
<1>1. IsFiniteSet(T) /\ h[x].rc = Cardinality(T)
  BY CountsAlone DEF Counts
<1>2. h[k] \in ObjectType /\ k \in Nat \ {0}
  OBVIOUS
<1>3. h[k].refs \in Seq(Nat)
  BY <1>2 DEF ObjectType
<1>4. Owned(h[k]) \in Seq(Nat)
  BY <1>3 DEF Owned
<1>5. IsFiniteSet(L) /\ Cardinality(L) = Occurrences(Owned(h[k]), x)
  BY <1>4, OneOwner
<1>6. \A o, i : o # k => (Owning(g, o, i, x) <=> Owning(h, o, i, x))
  BY DEF Owning, Alike, Holding
<1>7. \A i : ~ Owning(g, k, i, x)
  BY DEF Owning
<1>8. \A i : Owning(h, k, i, x) <=> <<k, i>> \in L
  BY <1>3 DEF Owning, Column, Owned
<1>9. \A e \in L : e \in Nat \X Nat /\ e[1] = k /\ e = <<k, e[2]>>
  BY <1>2, <1>4 DEF Column
<1>10. L \subseteq T
  BY <1>8, <1>9 DEF References
<1> HIDE DEF L
<1>11. U = T \ L
  <2>1. \A o, i : Owning(g, o, i, x) <=> Owning(h, o, i, x) /\ <<o, i>> \notin L
    BY <1>6, <1>7, <1>8, <1>9
  <2>2. <<0, 0>> \notin L /\ <<0, 1>> \notin L
    BY <1>2, <1>9
  <2>3. ASSUME NEW e PROVE e \in U <=> e \in T /\ e \notin L
    <3>1. e \in Nat \X Nat => e = <<e[1], e[2]>>
      OBVIOUS
    <3>2. e \in Nat \X Nat => (Owning(g, e[1], e[2], x) <=> Owning(h, e[1], e[2], x) /\ e \notin L)
      BY <2>1, <3>1
    <3> QED
      BY <2>2, <3>2 DEF References
  <2> HIDE DEF T, U
  <2> QED
    BY <2>3
<1> HIDE DEF T, U
<1>12. /\ IsFiniteSet(T \ L)
       /\ Cardinality(T \ L) = Cardinality(T) - Cardinality(L)
  <2>1. IsFiniteSet(T \ L) /\ Cardinality(T \ L) = Cardinality(T) - Cardinality(T \cap L)
    BY <1>1, FS_Difference
  <2>2. T \cap L = L
    BY <1>10
  <2> QED
    BY <2>1, <2>2
<1>13. /\ Cardinality(T) \in Nat /\ Cardinality(L) \in Nat
       /\ Occurrences(t, x) \in Nat
  BY <1>1, <1>5, FS_CardinalityType, OccurrencesFinite
<1>14. g[x].rc = h[x].rc - Occurrences(Owned(h[k]), x) + Occurrences(t, x)
  OBVIOUS
<1>15. IsFiniteSet(U) /\ Cardinality(U) = Cardinality(T) - Cardinality(L)
  BY <1>11, <1>12
<1> QED
  BY <1>1, <1>5, <1>13, <1>14, <1>15 DEF U

\* An attribute of an object is assigned.
LEMMA CountsAssign ==
  ASSUME NEW h \in Seq(ObjectType), NEW g \in Seq(ObjectType), NEW H, NEW c, NEW k \in DOMAIN h,
         Holding(h[k]), NEW n \in DOMAIN h[k].refs, NEW a \in Nat,
         DOMAIN g = DOMAIN h, \A o \in DOMAIN h : o # k => Alike(h[o], g[o]), Holding(g[k]),
         DOMAIN g[k].refs = DOMAIN h[k].refs, g[k].refs[n] = a,
         \A j \in DOMAIN h[k].refs : j # n => g[k].refs[j] = h[k].refs[j],
         \A o \in DOMAIN h : g[o].rc = h[o].rc - Occurrences(<<h[k].refs[n]>>, o) + Occurrences(<<a>>, o),
         CountsWith(h, H, c, <<>>)
  PROVE  CountsWith(g, H, c, <<>>)
<1> SUFFICES ASSUME NEW x \in DOMAIN h
             PROVE  /\ IsFiniteSet(References(g, H, c, x))
                    /\ g[x].rc = Cardinality(References(g, H, c, x))
  BY CountsAlone DEF Counts
<1> DEFINE T == References(h, H, c, x)
           old == h[k].refs[n]
           e == <<k, n>>
           U == References(g, H, c, x)
<1>1. IsFiniteSet(T) /\ h[x].rc = Cardinality(T) /\ Cardinality(T) \in Nat
  BY CountsAlone, FS_CardinalityType DEF Counts
<1>2. h[k] \in ObjectType /\ k \in Nat \ {0}
  OBVIOUS
<1>3. h[k].refs \in Seq(Nat) /\ n \in Nat
  <2>1. h[k].refs \in Seq(Nat)
    BY <1>2 DEF ObjectType
  <2> QED
    BY <2>1
<1>4. g[x].rc = h[x].rc - (IF x = old THEN 1 ELSE 0) + (IF x = a THEN 1 ELSE 0)
  BY OccurrencesOfOne
<1>5. \A o, i : <<o, i>> # e => (Owning(g, o, i, x) <=> Owning(h, o, i, x))
  BY DEF Owning, Alike, Holding
<1>6. Owning(h, k, n, x) <=> x = old
  BY DEF Owning
<1>7. Owning(g, k, n, x) <=> x = a
  BY DEF Owning
<1>8. e \in Nat \X Nat /\ e # <<0, 0>> /\ e # <<0, 1>> /\ e[1] = k /\ e[2] = n
  BY <1>2, <1>3
<1>9. e \in T <=> x = old
  BY <1>6, <1>8 DEF References
<1>10. e \in U <=> x = a
  BY <1>7, <1>8 DEF References
<1>11. \A d : d # e => (d \in U <=> d \in T)
  BY <1>5 DEF References
<1> HIDE DEF T, U, old, e
<1>12. CASE x # a
  <2>1. U = T \ {e}
    BY <1>10, <1>11, <1>12
  <2>2. IsFiniteSet(U) /\ Cardinality(U) = IF e \in T THEN Cardinality(T) - 1 ELSE Cardinality(T)
    BY <1>1, <2>1, FS_RemoveElement
  <2> QED
    BY <1>1, <1>4, <1>9, <1>12, <2>2 DEF U
<1>13. CASE x = a
  <2>1. U = T \cup {e}
    BY <1>10, <1>11, <1>13
  <2>2. IsFiniteSet(U) /\ Cardinality(U) = IF e \in T THEN Cardinality(T) ELSE Cardinality(T) + 1
    BY <1>1, <2>1, FS_AddElement
  <2> QED
    BY <1>1, <1>4, <1>9, <1>13, <2>2 DEF U
<1> QED
  BY <1>12, <1>13

-----------------------------------------------------------------------------
\* What does not depend on the counts

\* An object nobody refers to.
LEMMA UnreferredHasNoOwner ==
  ASSUME NEW h \in Seq(ObjectType), NEW H, NEW c, Counts(h, H, c), NEW x \in DOMAIN h, h[x].rc = 0
  PROVE  /\ x \notin H /\ ~ (c # <<>> /\ c[1].cap = x)
         /\ \A o, i : ~ Owning(h, o, i, x)
<1>1. References(h, H, c, x) = {}
  BY FS_EmptySet DEF Counts
<1>2. \A o, i : Owning(h, o, i, x) => <<o, i>> \in Nat \X Nat
  BY NamesAreApart
<1>3. \A o, i : Owning(h, o, i, x) => <<o, i>> \in References(h, H, c, x)
  BY <1>2 DEF References
<1>4. x \in H => <<0, 0>> \in References(h, H, c, x)
  BY DEF References
<1>5. c # <<>> /\ c[1].cap = x => <<0, 1>> \in References(h, H, c, x)
  BY DEF References
<1> QED
  BY <1>1, <1>3, <1>4, <1>5

LEMMA AlikeOK ==
  ASSUME NEW o, NEW p, Alike(o, p), ObjectOK(o), o.freed = 1 => p.rc = 0
  PROVE  ObjectOK(p)
BY DEF Alike, ObjectOK, Holding

LEMMA StaticRecount ==
  ASSUME NEW m, NEW h, NEW g, NEW s, NEW d \in {-1, 1}, Static(m, h), Recounted(h, g, s, d),
         \A x \in DOMAIN h : h[x].freed = 1 \/ Failed(h[x]) => Occurrences(s, x) = 0
  PROVE  Static(m, g)
<1>1. /\ h \in Seq(ObjectType) /\ g \in Seq(ObjectType) /\ DOMAIN g = DOMAIN h /\ Len(g) = Len(h)
      /\ \A o \in DOMAIN h : Alike(h[o], g[o]) /\ g[o].rc = h[o].rc + d * Occurrences(s, o)
  BY DEF Static, Recounted
<1>2. ASSUME NEW x \in DOMAIN h, h[x].freed = 1 \/ Failed(h[x]) PROVE g[x].rc = h[x].rc
  <2>1. h[x] \in ObjectType
    BY <1>1
  <2>2. h[x].rc \in Int
    BY <2>1 DEF ObjectType
  <2>3. g[x].rc = h[x].rc + d * 0
    BY <1>1, <1>2
  <2> QED
    BY <2>2, <2>3
<1>3. Objects(g)
  <2> SUFFICES ASSUME NEW x \in DOMAIN h PROVE ObjectOK(g[x])
    BY <1>1 DEF Objects
  <2>1. ObjectOK(h[x]) /\ Alike(h[x], g[x])
    BY <1>1 DEF Static, Objects
  <2>2. h[x].freed = 1 => g[x].rc = 0
    BY <1>2, <2>1 DEF ObjectOK
  <2> QED
    BY <2>1, <2>2, AlikeOK
<1>4. Links(g)
  <2>1. \A o \in DOMAIN h : g[o].refs = h[o].refs /\ g[o].kind = h[o].kind
    BY <1>1 DEF Alike
  <2>2. Links(h)
    BY DEF Static
  <2> QED
    BY <1>1, <2>1, <2>2 DEF Links
<1>5. Owners(m, g)
  BY <1>1 DEF Static, Owners, Alike
<1>6. Points(m, g)
  BY <1>1 DEF Static, Points, Alike
<1>7. Newest(g)
  <2> SUFFICES ASSUME NEW x \in DOMAIN h, Failed(g[x]) PROVE x = Len(h) /\ g[x].rc = 0
    BY <1>1 DEF Newest
  <2>1. Failed(h[x])
    BY <1>1 DEF Failed, Alike, Holding
  <2> QED
    BY <1>2, <2>1 DEF Static, Newest
<1> QED
  BY <1>1, <1>3, <1>4, <1>5, <1>6, <1>7 DEF Static

\* What an object that is made brings with it: m becomes m2.
NewObject(m, m2, h, p) ==
  /\ p \in ObjectType /\ ObjectOK(p) /\ p.freed = 0 /\ (Failed(p) => p.rc = 0)
  /\ \A i \in DOMAIN p.refs :
        p.refs[i] # NoBase => p.refs[i] \in DOMAIN h /\ MayRefer(p.kind, h[p.refs[i]].kind)
  /\ \A i \in DOMAIN p.bufs :
        p.bufs[i].block \in DOMAIN m2 /\ Declares(p.kind, p.bufs[i], m2[p.bufs[i].block])
  /\ m2 \in Seq(BlockType) /\ DOMAIN m \subseteq DOMAIN m2 /\ \A b \in DOMAIN m : m2[b] = m[b]
  /\ \A b \in DOMAIN m2 : b \notin DOMAIN m => (m2[b].live <=> b \in p.owns)
  /\ \A b \in p.owns : b \in DOMAIN m2 /\ b \notin DOMAIN m

LEMMA StaticAppend ==
  ASSUME NEW m, NEW m2, NEW h, NEW p, Static(m, h), NewObject(m, m2, h, p),
         \A o \in DOMAIN h : ~ Failed(h[o])
  PROVE  Static(m2, Append(h, p))
<1> DEFINE g == Append(h, p)
           n == Len(h) + 1
<1>1. /\ g \in Seq(ObjectType) /\ Len(g) = n /\ DOMAIN g = DOMAIN h \cup {n} /\ n \notin DOMAIN h
      /\ g[n] = p /\ \A o \in DOMAIN h : g[o] = h[o]
  BY Appended DEF Static, NewObject
<1> HIDE DEF g, n
<1>2. Objects(g)
  BY <1>1 DEF Static, Objects, NewObject
<1>3. Links(g)
  <2> SUFFICES ASSUME NEW o \in DOMAIN g, NEW i \in DOMAIN g[o].refs, g[o].refs[i] # NoBase
               PROVE  g[o].refs[i] \in DOMAIN g /\ MayRefer(g[o].kind, g[g[o].refs[i]].kind)
    BY DEF Links
  <2>1. CASE o = n
    BY <1>1, <2>1 DEF NewObject
  <2>2. CASE o \in DOMAIN h
    BY <1>1, <2>2 DEF Static, Links
  <2> QED
    BY <1>1, <2>1, <2>2
<1>4. Owners(m2, g)
  <2>1. ASSUME NEW o \in DOMAIN h, NEW b \in h[o].owns
        PROVE  b \in DOMAIN m /\ m[b].live /\ b \notin p.owns
    BY DEF Static, Owners, NewObject
  <2>2. \A o \in DOMAIN g : \A b \in g[o].owns : b \in DOMAIN m2 /\ m2[b].live
    BY <1>1, <2>1 DEF NewObject
  <2>3. \A o, q \in DOMAIN g : \A b \in g[o].owns : b \in g[q].owns => o = q
    BY <1>1, <2>1 DEF Static, Owners
  <2>4. \A b \in DOMAIN m2 : m2[b].live => \E o \in DOMAIN g : b \in g[o].owns
    <3> SUFFICES ASSUME NEW b \in DOMAIN m2, m2[b].live PROVE \E o \in DOMAIN g : b \in g[o].owns
      OBVIOUS
    <3>1. CASE b \in DOMAIN m
      <4>1. m[b].live
        BY <3>1 DEF NewObject
      <4>2. PICK o \in DOMAIN h : b \in h[o].owns
        BY <3>1, <4>1 DEF Static, Owners
      <4> QED
        BY <1>1, <4>2
    <3>2. CASE b \notin DOMAIN m
      BY <1>1, <3>2 DEF NewObject
    <3> QED
      BY <3>1, <3>2
  <2> QED
    BY <2>2, <2>3, <2>4 DEF Owners
<1>5. Points(m2, g)
  <2> SUFFICES ASSUME NEW o \in DOMAIN g, NEW i \in DOMAIN g[o].bufs
               PROVE  /\ g[o].bufs[i].block \in DOMAIN m2
                      /\ Declares(g[o].kind, g[o].bufs[i], m2[g[o].bufs[i].block])
    BY DEF Points
  <2>1. CASE o = n
    BY <1>1, <2>1 DEF NewObject
  <2>2. CASE o \in DOMAIN h
    BY <1>1, <2>2 DEF Static, Points, NewObject
  <2> QED
    BY <1>1, <2>1, <2>2
<1>6. Newest(g)
  BY <1>1 DEF Newest, NewObject
<1> QED
  BY <1>1, <1>2, <1>3, <1>4, <1>5, <1>6 DEF Static, NewObject, g

-----------------------------------------------------------------------------
\* Who keeps the bytes

LEMMA OlderAlike ==
  ASSUME NEW h, NEW g, DOMAIN g = DOMAIN h, \A o \in DOMAIN h : Alike(h[o], g[o]),
         Links(h), Older(h)
  PROVE  Older(g)
<1>1. \A o \in DOMAIN h : g[o].refs = h[o].refs /\ g[o].kind = h[o].kind /\ (Holding(g[o]) <=> Holding(h[o]))
  BY DEF Alike, Holding
<1> QED
  BY <1>1 DEF Older, Links

LEMMA OlderAppend ==
  ASSUME NEW m, NEW m2, NEW h, NEW p, Static(m, h), NewObject(m, m2, h, p), Older(h)
  PROVE  Older(Append(h, p))
<1> DEFINE g == Append(h, p)
           n == Len(h) + 1
<1>1. /\ DOMAIN g = DOMAIN h \cup {n} /\ n \notin DOMAIN h
      /\ g[n] = p /\ \A o \in DOMAIN h : g[o] = h[o]
      /\ DOMAIN h = 1 .. Len(h) /\ Len(h) \in Nat
  BY Appended DEF Static, NewObject
<1>2. \A o \in DOMAIN h : o < n
  BY <1>1
<1>3. 0 < n
  BY <1>1
<1> HIDE DEF g, n
<1> SUFFICES ASSUME NEW o \in DOMAIN g, NEW i \in DOMAIN g[o].refs,
                    Holding(g[o]), g[o].kind # "Matrix", g[o].refs[i] # NoBase
             PROVE  /\ g[o].refs[i] < o
                    /\ g[g[o].refs[i]].kind = "Matrix" =>
                         \A j \in DOMAIN g[g[o].refs[i]].refs : g[g[o].refs[i]].refs[j] < o
  BY DEF Older, g
<1>4. CASE o = n
  <2>1. p.refs[i] \in DOMAIN h /\ i \in DOMAIN p.refs
    BY <1>1, <1>4 DEF NewObject
  <2>2. \A j \in DOMAIN h[p.refs[i]].refs : h[p.refs[i]].refs[j] < n
    BY <1>2, <1>3, <2>1 DEF Static, Links, NoBase
  <2> QED
    BY <1>1, <1>2, <1>4, <2>1, <2>2
<1>5. CASE o \in DOMAIN h
  <2>1. h[o].refs[i] \in DOMAIN h
    BY <1>1, <1>5 DEF Static, Links
  <2> QED
    BY <1>1, <1>5, <2>1 DEF Older
<1> QED
  BY <1>1, <1>4, <1>5

\* What a matrix or a producer refers to.
LEMMA ThroughIsNotNull ==
  ASSUME NEW m, NEW h, Static(m, h), NEW r \in DOMAIN h, h[r].kind # "Tensor",
         NEW j \in DOMAIN h[r].refs
  PROVE  h[r].refs[j] \in DOMAIN h /\ MayRefer(h[r].kind, h[h[r].refs[j]].kind)
BY DEF Static, Links, Objects, ObjectOK

LEMMA CoversAlike ==
  ASSUME NEW m, NEW h, NEW g, Static(m, h), DOMAIN h \subseteq DOMAIN g,
         \A o \in DOMAIN h : g[o].refs = h[o].refs /\ g[o].kind = h[o].kind /\ g[o].bufs = h[o].bufs,
         NEW r \in DOMAIN h, NEW b, Covers(h, r, b)
  PROVE  Covers(g, r, b)
BY ThroughIsNotNull DEF Covers, PointsTo

LEMMA KeptAlike ==
  ASSUME NEW m, NEW h, NEW g, DOMAIN g = DOMAIN h, \A o \in DOMAIN h : Alike(h[o], g[o]),
         Static(m, h), Kept(m, h)
  PROVE  Kept(m, g)
<1>1. \A o \in DOMAIN h : /\ g[o].refs = h[o].refs /\ g[o].kind = h[o].kind /\ g[o].bufs = h[o].bufs
                          /\ g[o].owns = h[o].owns
                          /\ Holding(g[o]) <=> Holding(h[o])
  BY DEF Alike, Holding
<1> SUFFICES ASSUME NEW o \in DOMAIN h, NEW b \in DOMAIN m, Holding(g[o]), PointsTo(g[o], b)
             PROVE  /\ m[b].live
                    /\ ~ Failed(g[o]) =>
                         \/ b \in g[o].owns
                         \/ \E i \in DOMAIN g[o].refs : g[o].refs[i] # NoBase /\ Covers(g, g[o].refs[i], b)
  BY DEF Kept
<1>2. Holding(h[o]) /\ PointsTo(h[o], b) /\ (Failed(h[o]) => Failed(g[o]))
  BY <1>1 DEF PointsTo, Failed
<1>3. m[b].live
  BY <1>2 DEF Kept
<1>4. ASSUME ~ Failed(g[o]), b \notin h[o].owns
      PROVE  \E i \in DOMAIN h[o].refs : h[o].refs[i] # NoBase /\ Covers(g, h[o].refs[i], b)
  <2>1. PICK i \in DOMAIN h[o].refs : h[o].refs[i] # NoBase /\ Covers(h, h[o].refs[i], b)
    BY <1>2, <1>4 DEF Kept
  <2>2. h[o].refs[i] \in DOMAIN h
    BY <2>1 DEF Static, Links
  <2>3. Covers(g, h[o].refs[i], b)
    BY <1>1, <2>1, <2>2, CoversAlike
  <2> QED
    BY <2>1, <2>3
<1> QED
  BY <1>1, <1>3, <1>4

\* The bytes of an object that is made are there, and somebody keeps them for it.
KeptNew(m2, h, p) ==
  \A b \in DOMAIN m2 : Holding(p) /\ PointsTo(p, b) =>
     /\ m2[b].live
     /\ ~ Failed(p) =>
          b \in p.owns \/ \E i \in DOMAIN p.refs : p.refs[i] # NoBase /\ Covers(h, p.refs[i], b)

LEMMA KeptAppend ==
  ASSUME NEW m, NEW m2, NEW h, NEW p, Static(m, h), NewObject(m, m2, h, p), Kept(m, h),
         KeptNew(m2, h, p)
  PROVE  Kept(m2, Append(h, p))
<1> DEFINE g == Append(h, p)
           n == Len(h) + 1
<1>1. /\ DOMAIN g = DOMAIN h \cup {n} /\ n \notin DOMAIN h
      /\ g[n] = p /\ \A o \in DOMAIN h : g[o] = h[o]
  BY Appended DEF Static, NewObject
<1> HIDE DEF g, n
<1>2. ASSUME NEW r \in DOMAIN h, NEW b, Covers(h, r, b) PROVE Covers(g, r, b)
  BY <1>1, <1>2, CoversAlike
<1> SUFFICES ASSUME NEW o \in DOMAIN g, NEW b \in DOMAIN m2, Holding(g[o]), PointsTo(g[o], b)
             PROVE  /\ m2[b].live
                    /\ ~ Failed(g[o]) =>
                         \/ b \in g[o].owns
                         \/ \E i \in DOMAIN g[o].refs : g[o].refs[i] # NoBase /\ Covers(g, g[o].refs[i], b)
  BY DEF Kept, g
<1>3. CASE o = n
  <2>1. Holding(p) /\ PointsTo(p, b) /\ g[o] = p
    BY <1>1, <1>3
  <2>2. \A i \in DOMAIN p.refs : p.refs[i] # NoBase => p.refs[i] \in DOMAIN h
    BY DEF NewObject
  <2> QED
    BY <2>1, <2>2, <1>2 DEF KeptNew
<1>4. CASE o \in DOMAIN h
  <2>1. g[o] = h[o] /\ b \in DOMAIN m /\ m2[b] = m[b]
    BY <1>1, <1>4 DEF Static, Points, PointsTo, NewObject
  <2>2. \A i \in DOMAIN h[o].refs : h[o].refs[i] # NoBase => h[o].refs[i] \in DOMAIN h
    BY <1>4 DEF Static, Links
  <2> QED
    BY <1>4, <2>1, <2>2, <1>2 DEF Kept
<1> QED
  BY <1>1, <1>3, <1>4

-----------------------------------------------------------------------------
\* The invariant, while the references of s are counted and nobody owns them

OlderIf(h) == ~ Reassigns => Older(h)
KeptIf(m, h, c) == ~ Reassigns /\ ~ Fleeting => Kept(m, h) /\ NotFleeting(h, c)

Loose(m, h, H, c, s) ==
  /\ Static(m, h) /\ H \subseteq DOMAIN h /\ CountsWith(h, H, c, s) /\ Calling(h, H, c)
  /\ OlderIf(h) /\ KeptIf(m, h, c)

Alive(h, s) ==
  \A i \in DOMAIN s : s[i] # NoBase => s[i] \in DOMAIN h /\ h[s[i]].freed = 0 /\ h[s[i]].rc > 0

LEMMA OccurrencesNone ==
  ASSUME NEW s, NEW x, \A i \in DOMAIN s : s[i] # x
  PROVE  Occurrences(s, x) = 0
<1>1. {i \in DOMAIN s : s[i] = x} = {}
  OBVIOUS
<1> QED
  BY <1>1, FS_EmptySet DEF Occurrences

LEMMA SourceTyped ==
  ASSUME NEW m, NEW h, NEW H, NEW c, Static(m, h), H \subseteq DOMAIN h, Calling(h, H, c),
         c # <<>>, h[c[1].obj].freed = 0
  PROVE  Source(h, c[1].obj) \in DOMAIN h /\ c[1].obj \in DOMAIN h /\ c[1].cap \in DOMAIN h
<1>1. c[1].obj \in DOMAIN h /\ h[c[1].obj].kind \in {"Tensor", "Producer"} /\ c[1].cap \in DOMAIN h
  BY DEF Calling
<1>2. CASE h[c[1].obj].kind = "Producer"
  <2>1. h[c[1].obj] \in ObjectType /\ ObjectOK(h[c[1].obj])
    BY <1>1 DEF Static, Objects
  <2>2. Len(h[c[1].obj].refs) = 1 /\ h[c[1].obj].refs \in Seq(Nat)
    BY <1>2, <2>1 DEF ObjectOK, ObjectType
  <2>3. 1 \in DOMAIN h[c[1].obj].refs
    BY <2>2
  <2> QED
    BY <1>1, <1>2, <2>3, ThroughIsNotNull DEF Source
<1> QED
  BY <1>1, <1>2 DEF Source

\* A reference keeps an object.
LEMMA AliveWith ==
  ASSUME NEW h \in Seq(ObjectType), NEW H, NEW c, NEW s \in Seq(Nat), Objects(h), CountsWith(h, H, c, s),
         NEW x \in DOMAIN h,
         \/ x \in H
         \/ c # <<>> /\ c[1].cap = x
         \/ \E o, i : Owning(h, o, i, x)
         \/ Occurrences(s, x) > 0
  PROVE  h[x].freed = 0 /\ h[x].rc > 0
<1>1. IsFiniteSet(References(h, H, c, x)) /\ h[x].rc = Cardinality(References(h, H, c, x)) + Occurrences(s, x)
  BY DEF CountsWith
<1>2. Cardinality(References(h, H, c, x)) \in Nat /\ Occurrences(s, x) \in Nat
  BY <1>1, FS_CardinalityType, OccurrencesFinite
<1>3. References(h, H, c, x) # {} \/ Occurrences(s, x) > 0
  <2>1. CASE x \in H
    BY <2>1 DEF References
  <2>2. CASE c # <<>> /\ c[1].cap = x
    BY <2>2 DEF References
  <2>3. CASE \E o, i : Owning(h, o, i, x)
    <3>1. PICK o, i : Owning(h, o, i, x)
      BY <2>3
    <3>2. <<o, i>> \in Nat \X Nat
      BY <3>1, NamesAreApart
    <3> QED
      BY <3>1, <3>2 DEF References
  <2> QED
    BY <2>1, <2>2, <2>3
<1>4. h[x].rc > 0
  BY <1>1, <1>2, <1>3, FS_EmptySet
<1>5. h[x] \in ObjectType
  OBVIOUS
<1>6. h[x].freed \in Nat /\ h[x].freed <= 1 /\ (h[x].freed = 1 => h[x].rc = 0)
  BY <1>5 DEF Objects, ObjectOK, ObjectType
<1> QED
  BY <1>4, <1>6

\* Counting keeps everything else.
LEMMA LooseRecounted ==
  ASSUME NEW m, NEW h, NEW g, NEW H, NEW c, NEW s, NEW t, NEW d \in {-1, 1}, t \in Seq(Nat),
         Loose(m, h, H, c, t), Recounted(h, g, s, d),
         \A x \in DOMAIN h : h[x].freed = 1 \/ Failed(h[x]) => Occurrences(s, x) = 0
  PROVE  Static(m, g) /\ H \subseteq DOMAIN g /\ Calling(g, H, c) /\ OlderIf(g) /\ KeptIf(m, g, c)
<1>1. DOMAIN g = DOMAIN h /\ \A o \in DOMAIN h : Alike(h[o], g[o])
  BY DEF Recounted
<1>2. /\ Static(m, h) /\ H \subseteq DOMAIN h /\ Calling(h, H, c) /\ Links(h) /\ Objects(h)
      /\ h \in Seq(ObjectType) /\ CountsWith(h, H, c, t)
  BY DEF Loose, Static
<1>3. Static(m, g)
  BY <1>2, StaticRecount
<1>4. Calling(g, H, c)
  BY <1>1, <1>2 DEF Calling, Alike
<1>5. OlderIf(g)
  BY <1>1, <1>2, OlderAlike DEF Loose, OlderIf
<1>6. ASSUME ~ Reassigns, ~ Fleeting PROVE Kept(m, g) /\ NotFleeting(g, c)
  <2>1. Kept(m, h) /\ NotFleeting(h, c)
    BY <1>6 DEF Loose, KeptIf
  <2>2. Kept(m, g)
    BY <1>1, <1>2, <2>1, KeptAlike
  <2>3. ASSUME NEW o \in DOMAIN g, NEW i \in DOMAIN g[o].refs, g[o].kind = "Producer"
        PROVE  g[g[o].refs[i]].kind = "Tensor"
    <3>1. o \in DOMAIN h /\ g[o].refs = h[o].refs /\ h[o].kind = "Producer"
      BY <1>1, <2>3 DEF Alike
    <3>2. h[o].refs[i] \in DOMAIN h
      BY <1>2, <2>3, <3>1, ThroughIsNotNull
    <3>3. h[h[o].refs[i]].kind = "Tensor"
      BY <2>1, <2>3, <3>1 DEF NotFleeting
    <3> QED
      BY <1>1, <3>1, <3>2, <3>3 DEF Alike
  <2>4. ASSUME c # <<>> PROVE g[c[1].cap].bufs = g[Source(g, c[1].obj)].bufs
    <3>1. c[1].obj \in DOMAIN h /\ c[1].obj \in H
      BY <1>2, <2>4 DEF Calling
    <3>2. h[c[1].obj].freed = 0
      BY <1>2, <3>1, AliveWith
    <3>3. Source(h, c[1].obj) \in DOMAIN h /\ c[1].cap \in DOMAIN h
      BY <1>2, <2>4, <3>2, SourceTyped
    <3>4. Source(g, c[1].obj) = Source(h, c[1].obj)
      BY <1>1, <3>1 DEF Source, Alike
    <3> QED
      BY <1>1, <2>1, <2>4, <3>3, <3>4 DEF NotFleeting, Alike
  <2> QED
    BY <2>2, <2>3, <2>4 DEF NotFleeting
<1> QED
  BY <1>1, <1>2, <1>3, <1>4, <1>5, <1>6 DEF KeptIf

LEMMA LooseUp ==
  ASSUME NEW m, NEW h, NEW H, NEW c, NEW s \in Seq(Nat), Loose(m, h, H, c, <<>>), Alive(h, s)
  PROVE  Loose(m, Counted(h, s, 1), H, c, s)
<1> DEFINE g == Counted(h, s, 1)
<1>1. h \in Seq(ObjectType) /\ CountsWith(h, H, c, <<>>) /\ Static(m, h)
  BY DEF Loose, Static
<1>2. Recounted(h, g, s, 1)
  BY <1>1, CountedRecounts
<1> HIDE DEF g
<1>3. ASSUME NEW x \in DOMAIN h, h[x].freed = 1 \/ Failed(h[x]) PROVE Occurrences(s, x) = 0
  <2>1. Failed(h[x]) => h[x].rc = 0
    BY <1>1 DEF Static, Newest
  <2>2. x # 0
    BY <1>1
  <2>3. \A i \in DOMAIN s : s[i] # x
    BY <1>3, <2>1, <2>2 DEF Alive, NoBase
  <2> QED
    BY <2>3, OccurrencesNone
<1>4. CountsWith(g, H, c, s)
  BY <1>1, <1>2, CountsUp
<1>5. <<>> \in Seq(Nat)
  OBVIOUS
<1>6. Static(m, g) /\ H \subseteq DOMAIN g /\ Calling(g, H, c) /\ OlderIf(g) /\ KeptIf(m, g, c)
  BY <1>2, <1>3, <1>5, LooseRecounted
<1> QED
  BY <1>4, <1>6 DEF Loose, g

LEMMA LooseDown ==
  ASSUME NEW m, NEW h, NEW H, NEW c, NEW s \in Seq(Nat), Loose(m, h, H, c, s)
  PROVE  Loose(m, Counted(h, s, -1), H, c, <<>>)
<1> DEFINE g == Counted(h, s, -1)
<1>1. h \in Seq(ObjectType) /\ CountsWith(h, H, c, s) /\ Static(m, h) /\ Objects(h)
  BY DEF Loose, Static
<1>2. Recounted(h, g, s, -1)
  BY <1>1, CountedRecounts
<1> HIDE DEF g
<1>3. ASSUME NEW x \in DOMAIN h, h[x].freed = 1 \/ Failed(h[x]) PROVE Occurrences(s, x) = 0
  <2>1. h[x].rc = 0
    BY <1>1, <1>3 DEF Static, Newest, Objects, ObjectOK
  <2>2. ASSUME Occurrences(s, x) > 0 PROVE FALSE
    <3>1. h[x].rc > 0
      BY <1>1, <2>2, AliveWith
    <3> QED
      BY <2>1, <3>1
  <2>3. Occurrences(s, x) \in Nat
    BY OccurrencesFinite
  <2> QED
    BY <2>2, <2>3
<1>4. CountsWith(g, H, c, <<>>)
  BY <1>1, <1>2, CountsDown
<1>5. Static(m, g) /\ H \subseteq DOMAIN g /\ Calling(g, H, c) /\ OlderIf(g) /\ KeptIf(m, g, c)
  BY <1>2, <1>3, LooseRecounted
<1> QED
  BY <1>4, <1>5 DEF Loose, g

NotFailed(h) == \A o \in DOMAIN h : ~ Failed(h[o])

\* What an object that is made is over: bytes somebody keeps.
Keeps(m2, h, p) ==
  ~ Reassigns /\ ~ Fleeting =>
     /\ KeptNew(m2, h, p)
     /\ \A i \in DOMAIN p.refs : p.kind = "Producer" => h[p.refs[i]].kind = "Tensor"

LEMMA LooseAppend ==
  ASSUME NEW m, NEW m2, NEW h, NEW H, NEW c, NEW p, NEW s \in Seq(Nat),
         Loose(m, h, H, c, p.refs), NotFailed(h), NewObject(m, m2, h, p), Keeps(m2, h, p), Holding(p),
         p.rc = Occurrences(s, Len(h) + 1), \A x \in DOMAIN h : Occurrences(s, x) = 0
  PROVE  Loose(m2, Append(h, p), H, c, s)
<1> DEFINE g == Append(h, p)
           n == Len(h) + 1
<1>1. /\ Static(m, h) /\ h \in Seq(ObjectType) /\ Links(h) /\ H \subseteq DOMAIN h /\ Calling(h, H, c)
      /\ CountsWith(h, H, c, p.refs) /\ Objects(h)
      /\ p \in ObjectType
  BY DEF Loose, Static, NewObject
<1>2. /\ DOMAIN g = DOMAIN h \cup {n} /\ n \notin DOMAIN h
      /\ g[n] = p /\ \A o \in DOMAIN h : g[o] = h[o]
  BY <1>1, Appended
<1>3. Static(m2, g)
  BY <1>1, StaticAppend DEF NotFailed
<1>4. CountsWith(g, H, c, s)
  <2>1. \A i \in DOMAIN p.refs : p.refs[i] \in DOMAIN h \cup {NoBase}
    BY DEF NewObject
  <2>2. c # <<>> => c[1].cap \in DOMAIN h
    BY <1>1 DEF Calling
  <2> QED
    BY <1>1, <2>1, <2>2, CountsAppend
<1>5. OlderIf(g)
  BY <1>1, OlderAppend DEF Loose, OlderIf
<1> HIDE DEF g, n
<1>6. H \subseteq DOMAIN g /\ Calling(g, H, c)
  BY <1>1, <1>2 DEF Calling
<1>7. ASSUME ~ Reassigns, ~ Fleeting PROVE Kept(m2, g) /\ NotFleeting(g, c)
  <2>1. Kept(m, h) /\ NotFleeting(h, c) /\ KeptNew(m2, h, p)
    BY <1>7 DEF Loose, KeptIf, Keeps
  <2>2. Kept(m2, g)
    BY <1>1, <2>1, KeptAppend DEF g
  <2>3. ASSUME NEW o \in DOMAIN g, NEW i \in DOMAIN g[o].refs, g[o].kind = "Producer"
        PROVE  g[g[o].refs[i]].kind = "Tensor"
    <3>1. CASE o = n
      <4>1. p.refs[i] # NoBase /\ p.kind = "Producer" /\ i \in DOMAIN p.refs
        BY <1>2, <2>3, <3>1 DEF NewObject, ObjectOK
      <4>2. p.refs[i] \in DOMAIN h /\ h[p.refs[i]].kind = "Tensor"
        BY <1>7, <4>1 DEF NewObject, Keeps
      <4> QED
        BY <1>2, <3>1, <4>2
    <3>2. CASE o \in DOMAIN h
      <4>1. h[o].refs[i] \in DOMAIN h /\ h[h[o].refs[i]].kind = "Tensor" /\ g[o] = h[o]
        BY <1>1, <1>2, <2>1, <2>3, <3>2, ThroughIsNotNull DEF NotFleeting
      <4> QED
        BY <1>2, <4>1
    <3> QED
      BY <1>2, <3>1, <3>2
  <2>4. ASSUME c # <<>> PROVE g[c[1].cap].bufs = g[Source(g, c[1].obj)].bufs
    <3>1. c[1].obj \in DOMAIN h /\ c[1].obj \in H
      BY <1>1, <2>4 DEF Calling
    <3>2. h[c[1].obj].freed = 0
      <4>1. p.refs \in Seq(Nat)
        BY <1>1 DEF ObjectType
      <4> QED
        BY <1>1, <3>1, <4>1, AliveWith
    <3>3. Source(h, c[1].obj) \in DOMAIN h /\ c[1].cap \in DOMAIN h
      BY <1>1, <2>4, <3>2, SourceTyped
    <3>4. Source(g, c[1].obj) = Source(h, c[1].obj)
      BY <1>2, <3>1 DEF Source
    <3> QED
      BY <1>2, <2>1, <2>4, <3>3, <3>4 DEF NotFleeting
  <2> QED
    BY <2>2, <2>3, <2>4 DEF NotFleeting
<1> QED
  BY <1>3, <1>4, <1>5, <1>6, <1>7 DEF Loose, KeptIf, g

LEMMA LooseHold ==
  ASSUME NEW m, NEW h, NEW H, NEW c, NEW y \in DOMAIN h, y \notin H, Loose(m, h, H, c, <<y>>)
  PROVE  Loose(m, h, H \cup {y}, c, <<>>)
<1>1. h \in Seq(ObjectType) /\ CountsWith(h, H, c, <<y>>)
  BY DEF Loose, Static
<1>2. CountsWith(h, H \cup {y}, c, <<>>)
  BY <1>1, CountsHold
<1>3. Calling(h, H \cup {y}, c)
  BY DEF Loose, Calling
<1> QED
  BY <1>2, <1>3 DEF Loose

LEMMA LooseUnhold ==
  ASSUME NEW m, NEW h, NEW H, NEW y \in H, Loose(m, h, H, <<>>, <<>>)
  PROVE  Loose(m, h, H \ {y}, <<>>, <<y>>)
<1>1. h \in Seq(ObjectType) /\ CountsWith(h, H, <<>>, <<>>)
  BY DEF Loose, Static
<1>2. CountsWith(h, H \ {y}, <<>>, <<y>>)
  BY <1>1, CountsUnhold
<1>3. Calling(h, H \ {y}, <<>>)
  BY DEF Calling
<1> QED
  BY <1>2, <1>3 DEF Loose

LEMMA LooseCall ==
  ASSUME NEW m, NEW h, NEW H, NEW c, c # <<>>, Loose(m, h, H, <<>>, <<c[1].cap>>),
         Calling(h, H, c), ~ Fleeting => h[c[1].cap].bufs = h[Source(h, c[1].obj)].bufs
  PROVE  Loose(m, h, H, c, <<>>)
<1>1. h \in Seq(ObjectType) /\ CountsWith(h, H, <<>>, <<c[1].cap>>)
  BY DEF Loose, Static
<1>2. CountsWith(h, H, c, <<>>)
  BY <1>1, CountsCall
<1>3. KeptIf(m, h, c)
  BY DEF Loose, KeptIf, NotFleeting
<1> QED
  BY <1>2, <1>3 DEF Loose

LEMMA LooseUncall ==
  ASSUME NEW m, NEW h, NEW H, NEW c, c # <<>>, Loose(m, h, H, c, <<>>)
  PROVE  Loose(m, h, H, <<>>, <<c[1].cap>>)
<1>1. h \in Seq(ObjectType) /\ CountsWith(h, H, c, <<>>)
  BY DEF Loose, Static
<1>2. CountsWith(h, H, <<>>, <<c[1].cap>>)
  BY <1>1, CountsUncall
<1>3. KeptIf(m, h, <<>>)
  BY DEF Loose, KeptIf, NotFleeting
<1>4. Calling(h, H, <<>>)
  BY DEF Calling
<1> QED
  BY <1>2, <1>3, <1>4 DEF Loose

-----------------------------------------------------------------------------
\* Objects the program makes

IInv == Loose(mem, heap, held, call, <<>>) /\ Handlers

\* What the program has a name for.
LEMMA NamedAlive ==
  ASSUME NEW m, NEW h, NEW H, NEW c, Loose(m, h, H, c, <<>>), NEW o \in H
  PROVE  /\ o \in DOMAIN h /\ o \in Nat /\ o # NoBase /\ h[o] \in ObjectType /\ ObjectOK(h[o])
         /\ h[o].freed = 0 /\ h[o].rc > 0
         /\ h[o].kind \notin {"DlCapsule", "Native"} => Holding(h[o])
<1>1. /\ o \in DOMAIN h /\ h \in Seq(ObjectType) /\ Objects(h) /\ CountsWith(h, H, c, <<>>)
      /\ <<>> \in Seq(Nat)
  BY DEF Loose, Static
<1>2. o \in Nat /\ o # 0 /\ h[o] \in ObjectType /\ ObjectOK(h[o])
  BY <1>1 DEF Objects
<1>3. h[o].freed = 0 /\ h[o].rc > 0
  BY <1>1, AliveWith
<1>4. h[o].name \in {"fresh", "used"}
  BY <1>2 DEF ObjectType
<1> QED
  BY <1>1, <1>2, <1>3, <1>4 DEF Holding, ObjectOK, NoBase

\* What an object refers to that still owns its references.
LEMMA ReferredAlive ==
  ASSUME NEW m, NEW h, NEW H, NEW c, Loose(m, h, H, c, <<>>), NEW o \in DOMAIN h, Holding(h[o]),
         NEW i \in DOMAIN h[o].refs, h[o].refs[i] # NoBase
  PROVE  LET r == h[o].refs[i]
         IN  /\ r \in DOMAIN h /\ r \in Nat /\ h[r] \in ObjectType /\ ObjectOK(h[r])
             /\ MayRefer(h[o].kind, h[r].kind)
             /\ h[r].freed = 0 /\ h[r].rc > 0
             /\ h[r].kind \notin {"DlCapsule", "Native"} => Holding(h[r])
<1> DEFINE r == h[o].refs[i]
<1>1. /\ h \in Seq(ObjectType) /\ Objects(h) /\ CountsWith(h, H, c, <<>>) /\ <<>> \in Seq(Nat)
      /\ Links(h)
  BY DEF Loose, Static
<1>2. r \in DOMAIN h /\ MayRefer(h[o].kind, h[r].kind)
  BY <1>1 DEF Links
<1>3. Owning(h, o, i, r)
  BY DEF Owning
<1>4. r \in Nat /\ h[r] \in ObjectType /\ ObjectOK(h[r])
  BY <1>1, <1>2 DEF Objects
<1>5. h[r].freed = 0 /\ h[r].rc > 0
  BY <1>1, <1>2, <1>3, AliveWith
<1>6. h[r].name \in {"fresh", "used"}
  BY <1>4 DEF ObjectType
<1> QED
  BY <1>2, <1>4, <1>5, <1>6 DEF Holding, ObjectOK

\* Between the calls of the program there is no failed capsule.
LEMMA RunningNotFailed ==
  ASSUME Loose(mem, heap, held, call, <<>>), Garbage = {}
  PROVE  NotFailed(heap)
BY DEF Loose, Static, Newest, NotFailed, Garbage, Unfreed, Failed, Holding

\* Counting does not matter to what is made.
LEMMA NewAlike ==
  ASSUME NEW m, NEW m2, NEW h, NEW g, NEW p, Static(m, h),
         DOMAIN g = DOMAIN h, \A o \in DOMAIN h : Alike(h[o], g[o]),
         NewObject(m, m2, h, p), Keeps(m2, h, p), NotFailed(h)
  PROVE  NewObject(m, m2, g, p) /\ Keeps(m2, g, p) /\ NotFailed(g)
<1>1. NotFailed(g)
  BY DEF NotFailed, Failed, Alike, Holding
<1>2. ASSUME NEW i \in DOMAIN p.refs, p.refs[i] # NoBase
      PROVE  /\ p.refs[i] \in DOMAIN h /\ p.refs[i] \in DOMAIN g
             /\ g[p.refs[i]].kind = h[p.refs[i]].kind /\ MayRefer(p.kind, h[p.refs[i]].kind)
  BY <1>2 DEF NewObject, Alike
<1>3. NewObject(m, m2, g, p)
  BY <1>2 DEF NewObject
<1>4. ASSUME NEW i \in DOMAIN p.refs, p.kind = "Producer", h[p.refs[i]].kind = "Tensor"
      PROVE  g[p.refs[i]].kind = "Tensor"
  <2>1. p.refs[i] # NoBase
    BY <1>4 DEF NewObject, ObjectOK
  <2> QED
    BY <1>2, <1>4, <2>1
<1>5. ASSUME NEW i \in DOMAIN p.refs, NEW b, p.refs[i] # NoBase, Covers(h, p.refs[i], b)
      PROVE  Covers(g, p.refs[i], b)
  <2>1. \A o \in DOMAIN h : g[o].refs = h[o].refs /\ g[o].kind = h[o].kind /\ g[o].bufs = h[o].bufs
    BY DEF Alike
  <2> QED
    BY <1>2, <1>5, <2>1, CoversAlike
<1>6. KeptNew(m2, h, p) => KeptNew(m2, g, p)
  BY <1>5 DEF KeptNew
<1>7. Keeps(m2, g, p)
  BY <1>4, <1>6 DEF Keeps
<1> QED
  BY <1>1, <1>3, <1>7

\* A new object, which somebody will own.
LEMMA MadeLoose ==
  ASSUME NEW m, NEW m2, NEW h, NEW H, NEW c, NEW p, Loose(m, h, H, c, <<>>), NotFailed(h),
         NewObject(m, m2, h, p), Keeps(m2, h, p), Alive(h, p.refs), Holding(p), p.rc = 1
  PROVE  LET g == Append(Counted(h, p.refs, 1), p)
             n == Len(h) + 1
         IN  /\ Loose(m2, g, H, c, <<n>>) /\ NotFailed(g)
             /\ g \in Seq(ObjectType) /\ Len(g) = n /\ n \in DOMAIN g /\ n \notin H /\ g[n] = p
             /\ \A o \in DOMAIN h : o \in DOMAIN g /\ Alike(h[o], g[o]) /\ o # n
<1> DEFINE g == Counted(h, p.refs, 1)
           n == Len(h) + 1
<1>1. p \in ObjectType /\ Static(m, h) /\ h \in Seq(ObjectType) /\ H \subseteq DOMAIN h
  BY DEF NewObject, Loose, Static
<1>2. p.refs \in Seq(Nat)
  BY <1>1 DEF ObjectType
<1>3. Loose(m, g, H, c, p.refs)
  BY <1>2, LooseUp
<1>4. Recounted(h, g, p.refs, 1)
  BY <1>1, <1>2, CountedRecounts
<1> HIDE DEF g
<1>5. /\ DOMAIN g = DOMAIN h /\ Len(g) = Len(h) /\ g \in Seq(ObjectType)
      /\ \A o \in DOMAIN h : Alike(h[o], g[o])
  BY <1>4 DEF Recounted
<1>6. NewObject(m, m2, g, p) /\ Keeps(m2, g, p) /\ NotFailed(g)
  BY <1>1, <1>5, NewAlike
<1>7. /\ <<n>> \in Seq(Nat) /\ n \notin DOMAIN h /\ n \notin H
      /\ Append(g, p) \in Seq(ObjectType) /\ n \in DOMAIN Append(g, p) /\ Append(g, p)[n] = p
      /\ DOMAIN Append(g, p) = DOMAIN g \cup {n} /\ Len(Append(g, p)) = n
      /\ \A o \in DOMAIN h : Append(g, p)[o] = g[o]
  BY <1>1, <1>5
<1>8. 1 = Occurrences(<<n>>, n) /\ \A x \in DOMAIN g : Occurrences(<<n>>, x) = 0
  BY <1>5, <1>7, OccurrencesOfOne
<1>9. n = Len(g) + 1
  BY <1>5
<1> HIDE DEF n
<1>10. Loose(m2, Append(g, p), H, c, <<n>>)
  BY <1>3, <1>6, <1>7, <1>8, <1>9, LooseAppend
<1>11. ~ Failed(p)
  BY DEF NewObject
<1>12. NotFailed(Append(g, p))
  BY <1>5, <1>6, <1>7, <1>11 DEF NotFailed
<1>13. \A o \in DOMAIN h : o \in DOMAIN Append(g, p) /\ Alike(h[o], Append(g, p)[o]) /\ o # n
  BY <1>5, <1>7
<1> QED
  BY <1>7, <1>10, <1>12, <1>13 DEF g, n

\* A new object for the program.
LEMMA MadeOne ==
  ASSUME NEW m, NEW m2, NEW h, NEW H, NEW c, NEW p, Loose(m, h, H, c, <<>>), NotFailed(h),
         NewObject(m, m2, h, p), Keeps(m2, h, p), Alive(h, p.refs), Holding(p), p.rc = 1
  PROVE  Loose(m2, Append(Counted(h, p.refs, 1), p), H \cup {Len(h) + 1}, c, <<>>)
BY MadeLoose, LooseHold

\* The allocations made with an object come after those there are.
LEMMA NewBlocks ==
  ASSUME NEW m \in Seq(BlockType), NEW bs \in Seq(BlockType)
  PROVE  /\ m \o bs \in Seq(BlockType) /\ DOMAIN m \subseteq DOMAIN (m \o bs)
         /\ \A b \in DOMAIN m : (m \o bs)[b] = m[b]
         /\ \A i \in DOMAIN bs : /\ Len(m) + i \in DOMAIN (m \o bs) /\ Len(m) + i \notin DOMAIN m
                                 /\ (m \o bs)[Len(m) + i] = bs[i] /\ Len(m) + i \in Nat
         /\ \A b \in DOMAIN (m \o bs) : b \notin DOMAIN m => \E i \in DOMAIN bs : b = Len(m) + i
<1>1. /\ m \o bs \in Seq(BlockType) /\ Len(m) \in Nat /\ Len(bs) \in Nat
      /\ DOMAIN (m \o bs) = 1 .. (Len(m) + Len(bs)) /\ DOMAIN m = 1 .. Len(m) /\ DOMAIN bs = 1 .. Len(bs)
  OBVIOUS
<1>2. \A b \in DOMAIN m : (m \o bs)[b] = m[b]
  BY <1>1
<1>3. \A i \in DOMAIN bs : /\ Len(m) + i \in DOMAIN (m \o bs) /\ Len(m) + i \notin DOMAIN m
                           /\ (m \o bs)[Len(m) + i] = bs[i] /\ Len(m) + i \in Nat
  BY <1>1
<1>4. ASSUME NEW b \in DOMAIN (m \o bs), b \notin DOMAIN m
      PROVE  \E i \in DOMAIN bs : b = Len(m) + i
  <2>1. b - Len(m) \in DOMAIN bs /\ b = Len(m) + (b - Len(m))
    BY <1>1, <1>4
  <2> QED
    BY <2>1
<1>5. DOMAIN m \subseteq DOMAIN (m \o bs)
  BY <1>1
<1> QED
  BY <1>1, <1>2, <1>3, <1>4, <1>5, Zenon

\* An object that is made.
Fresh(p) ==
  /\ p \in ObjectType /\ Holding(p) /\ p.rc = 1 /\ p.freed = 0 /\ p.list = 0 /\ p.ctx = 0
  /\ p.dense <=> Len(p.bufs) = 1

LEMMA ObjectFresh ==
  ASSUME NEW kind \in Kinds, NEW bufs \in Seq(BufferType), NEW refs \in Seq(Nat),
         NEW owns \in SUBSET Nat
  PROVE  Fresh(Object(kind, bufs, refs, owns))
<1> DEFINE p == Object(kind, bufs, refs, owns)
<1>1. p.bufs = bufs /\ p.name = "fresh" /\ p.rc = 1 /\ p.freed = 0 /\ p.list = 0 /\ p.ctx = 0
  BY DEF Object
<1>2. p.dense = (Len(bufs) = 1)
  BY DEF Object
<1>3. p \in ObjectType
  BY DEF Object, ObjectType
<1> HIDE DEF p
<1> QED
  BY <1>1, <1>2, <1>3, Zenon DEF Holding, Fresh, p

\* The shape of an object of a kind.
Fits(kind, bufs, refs) ==
  /\ kind \in {"Array", "Managed"} => Len(bufs) = 1
  /\ kind \in {"Managed", "DlCapsule", "Producer", "Native"} => Len(refs) = 1
  /\ kind \in {"Matrix", "DlCapsule", "Producer"} => bufs = <<>>
  /\ kind # "Tensor" => \A i \in DOMAIN refs : refs[i] # NoBase

LEMMA OneIsSome ==
  ASSUME NEW S, NEW r \in Seq(S), Len(r) = 1
  PROVE  0 + Len(r) = 1 /\ r # <<>>
<1>1. Len(<<>>) = 0
  OBVIOUS
<1> QED
  BY <1>1

LEMMA FitsOK ==
  ASSUME NEW p, Fresh(p), Fits(p.kind, p.bufs, p.refs)
  PROVE  ObjectOK(p) /\ ~ Failed(p)
<1>1. Holding(p) /\ p.freed = 0 /\ p.list = 0 /\ p.ctx = 0 /\ p.name = "fresh"
  BY DEF Fresh, Holding
<1>2. p.refs \in Seq(Nat) /\ p.bufs \in Seq(BufferType)
  BY DEF Fresh, ObjectType
<1>3. \A u \in Seq(BufferType) : Len(u) = 1 => Len(u) > 0
  OBVIOUS
<1>4. \A r \in Seq(Nat) : Len(r) = 1 => 0 + Len(r) = 1 /\ r # <<>>
  BY OneIsSome
<1>5. p.kind = "Native" => p.list = 0 /\ p.ctx + Len(p.refs) = 1 /\ p.refs # <<>>
  BY <1>1, <1>2, <1>4, Zenon DEF Fits
<1>6. p.kind = "Tensor" /\ p.dense => Len(p.bufs) > 0
  BY <1>2, <1>3, Zenon DEF Fresh
<1> HIDE <1>2, <1>3, <1>4
<1> QED
  BY <1>1, <1>5, <1>6 DEF ObjectOK, Failed, Fits

LEMMA NewOne ==
  ASSUME NEW m, NEW h, Static(m, h), NEW p, Fresh(p), Fits(p.kind, p.bufs, p.refs),
         NEW blocks \in Seq(BlockType),
         \A i \in DOMAIN p.refs :
           p.refs[i] # NoBase => p.refs[i] \in DOMAIN h /\ MayRefer(p.kind, h[p.refs[i]].kind),
         \A i \in DOMAIN p.bufs :
           /\ p.bufs[i].block \in DOMAIN (m \o blocks)
           /\ Declares(p.kind, p.bufs[i], (m \o blocks)[p.bufs[i].block]),
         \A i \in DOMAIN blocks : blocks[i].live <=> Len(m) + i \in p.owns,
         \A b \in p.owns : \E i \in DOMAIN blocks : b = Len(m) + i
  PROVE  NewObject(m, m \o blocks, h, p)
<1> DEFINE m2 == m \o blocks
<1>1. p \in ObjectType /\ p.freed = 0
  BY DEF Fresh
<1>2. m \in Seq(BlockType)
  BY DEF Static
<1>3. /\ m2 \in Seq(BlockType) /\ DOMAIN m \subseteq DOMAIN m2
      /\ \A b \in DOMAIN m : m2[b] = m[b]
      /\ \A i \in DOMAIN blocks : /\ Len(m) + i \in DOMAIN m2 /\ Len(m) + i \notin DOMAIN m
                                  /\ m2[Len(m) + i] = blocks[i]
      /\ \A b \in DOMAIN m2 : b \notin DOMAIN m => \E i \in DOMAIN blocks : b = Len(m) + i
  BY <1>2, NewBlocks
<1>4. \A i \in DOMAIN p.bufs :
         p.bufs[i].block \in DOMAIN m2 /\ Declares(p.kind, p.bufs[i], m2[p.bufs[i].block])
  OBVIOUS
<1> HIDE DEF m2
<1>5. ObjectOK(p) /\ ~ Failed(p)
  BY FitsOK
<1>6. ASSUME NEW b \in DOMAIN m2, b \notin DOMAIN m
      PROVE  m2[b].live <=> b \in p.owns
  <2>1. PICK i \in DOMAIN blocks : b = Len(m) + i
    BY <1>3, <1>6
  <2>2. m2[b] = blocks[i]
    BY <1>3, <2>1
  <2> QED
    BY <2>1, <2>2
<1>7. ASSUME NEW b \in p.owns PROVE b \in DOMAIN m2 /\ b \notin DOMAIN m
  <2>1. PICK i \in DOMAIN blocks : b = Len(m) + i
    OBVIOUS
  <2> QED
    BY <1>3, <2>1
<1> QED
  BY <1>1, <1>3, <1>4, <1>5, <1>6, <1>7 DEF NewObject, m2

\* An object that may be made.
Made(m, m2, h, p) ==
  NewObject(m, m2, h, p) /\ Keeps(m2, h, p) /\ Alive(h, p.refs) /\ Holding(p) /\ p.rc = 1

\* An object over memory of its own.
LEMMA NewOwner ==
  ASSUME NEW m, NEW h, Static(m, h), NEW p, Fresh(p), p.kind \in {"Array", "Tensor"},
         p.kind = "Array" => Len(p.bufs) = 1, DOMAIN p.refs = {},
         NEW blocks \in Seq(BlockType), \A i \in DOMAIN blocks : blocks[i].live,
         \A i \in DOMAIN p.bufs : /\ i \in DOMAIN blocks /\ p.bufs[i].block = Len(m) + i
                                  /\ Declares(p.kind, p.bufs[i], blocks[i]),
         \A i \in DOMAIN blocks : Len(m) + i \in p.owns,
         \A b \in p.owns : \E i \in DOMAIN blocks : b = Len(m) + i
  PROVE  Made(m, m \o blocks, h, p)
<1> DEFINE m2 == m \o blocks
<1>1. m \in Seq(BlockType)
  BY DEF Static
<1>2. \A i \in DOMAIN blocks : Len(m) + i \in Nat /\ Len(m) + i \in DOMAIN m2 /\ m2[Len(m) + i] = blocks[i]
  BY <1>1, NewBlocks
<1>3. Fits(p.kind, p.bufs, p.refs)
  BY DEF Fits
<1>4. \A i \in DOMAIN p.bufs :
         p.bufs[i].block \in DOMAIN m2 /\ Declares(p.kind, p.bufs[i], m2[p.bufs[i].block])
  BY <1>2
<1>5. \A i \in DOMAIN blocks : blocks[i].live <=> Len(m) + i \in p.owns
  OBVIOUS
<1>6. NewObject(m, m2, h, p)
  BY <1>3, <1>4, <1>5, NewOne
<1>7. Alive(h, p.refs)
  BY DEF Alive
<1>8. ASSUME NEW b \in DOMAIN m2, PointsTo(p, b)
      PROVE  m2[b].live /\ b \in p.owns
  <2>1. PICK i \in DOMAIN p.bufs : p.bufs[i].block = b
    BY <1>8 DEF PointsTo
  <2> QED
    BY <1>2, <2>1
<1>9. Keeps(m2, h, p)
  BY <1>8 DEF Keeps, KeptNew
<1> QED
  BY <1>6, <1>7, <1>9 DEF Made, Fresh

\* A tensor that is not dense by its shape, but counts as such.
LEMMA NewDense ==
  ASSUME NEW m, NEW m2, NEW h, NEW p, Made(m, m2, h, p), p.kind = "Tensor", Len(p.bufs) > 0
  PROVE  Made(m, m2, h, [p EXCEPT !.dense = TRUE])
<1> DEFINE q == [p EXCEPT !.dense = TRUE]
<1>1. p \in ObjectType
  BY DEF Made, NewObject
<1>2. /\ q.kind = p.kind /\ q.bufs = p.bufs /\ q.refs = p.refs /\ q.owns = p.owns /\ q.rc = p.rc
      /\ q.freed = p.freed /\ q.name = p.name /\ q.list = p.list /\ q.ctx = p.ctx
  BY <1>1 DEF ObjectType
<1>3. q \in ObjectType
  BY <1>1 DEF ObjectType
<1> HIDE DEF q
<1>4. Holding(q) /\ (Failed(q) <=> Failed(p))
  BY <1>2 DEF Made, Holding, Failed
<1>5. ObjectOK(q)
  BY <1>2, <1>4 DEF Made, NewObject, ObjectOK
<1>6. \A b : PointsTo(q, b) <=> PointsTo(p, b)
  BY <1>2 DEF PointsTo
<1>7. NewObject(m, m2, h, q)
  BY <1>2, <1>3, <1>4, <1>5 DEF Made, NewObject
<1>8. Keeps(m2, h, q)
  BY <1>2, <1>4, <1>6 DEF Made, Keeps, KeptNew
<1> QED
  BY <1>2, <1>4, <1>7, <1>8 DEF Made, q

\* The step in which the program gets an object.
LEMMA MakesStep ==
  ASSUME NEW p, NEW blocks, IInv, Makes(p, blocks), Made(mem, mem \o blocks, heap, p)
  PROVE  IInv'
<1>1. Loose(mem, heap, held, call, <<>>) /\ Handlers
  BY DEF IInv
<1>2. heap \in Seq(ObjectType) /\ p \in ObjectType
  BY <1>1 DEF Loose, Static, Made, NewObject
<1>3. NotFailed(heap)
  BY <1>1, RunningNotFailed DEF Makes, ProgramRuns
<1>4. Loose(mem \o blocks, Append(Counted(heap, p.refs, 1), p), held \cup {Len(heap) + 1}, call, <<>>)
  BY <1>1, <1>3, MadeOne DEF Made
<1>5. Len(Append(Counted(heap, p.refs, 1), p)) = Len(heap) + 1
  <2>1. p.refs \in Seq(Nat)
    BY <1>2 DEF ObjectType
  <2>2. Recounted(heap, Counted(heap, p.refs, 1), p.refs, 1)
    BY <1>2, <2>1, CountedRecounts
  <2> QED
    BY <1>2, <2>2 DEF Recounted
<1>6. /\ mem' = mem \o blocks /\ heap' = Append(Counted(heap, p.refs, 1), p)
      /\ held' = held \cup {Len(heap) + 1} /\ call' = call /\ handler' = handler /\ saved' = saved
  BY <1>5 DEF Makes
<1>7. Loose(mem', heap', held', call', <<>>)
  BY <1>4, <1>6
<1>8. Handlers'
  BY <1>1, <1>6 DEF Handlers
<1> QED
  BY <1>7, <1>8 DEF IInv

-----------------------------------------------------------------------------
\* Objects over memory of their own

LEMMA BlockTyped ==
  ASSUME NEW len \in Nat, NEW align \in Nat, NEW synced \in BOOLEAN
  PROVE  /\ Block(len, align, synced) \in BlockType /\ Block(len, align, synced).live
         /\ Block(len, align, synced).len = len /\ Block(len, align, synced).align = align
         /\ Block(len, align, synced).synced <=> synced
BY DEF Block, BlockType

LEMMA DeclaredTyped ==
  ASSUME NEW block \in Nat, NEW align \in Nat, NEW synced \in BOOLEAN
  PROVE  /\ Declared(block, align, synced) \in BufferType
         /\ Declared(block, align, synced).block = block /\ Declared(block, align, synced).align = align
         /\ Declared(block, align, synced).synced <=> synced
BY DEF Declared, BufferType

LEMMA SyncedBlock ==
  ASSUME NEW n \in Nat, NEW align \in Nat
  PROVE  /\ Block(n, align, TRUE) \in BlockType /\ Block(n, align, TRUE).live
         /\ Block(n, align, TRUE).len = n /\ Block(n, align, TRUE).align = align
         /\ Block(n, align, TRUE).synced
BY DEF Block, BlockType

LEMMA SyncedDeclared ==
  ASSUME NEW n \in Nat, NEW align \in Nat
  PROVE  /\ Declared(n, align, TRUE) \in BufferType /\ Declared(n, align, TRUE).block = n
         /\ Declared(n, align, TRUE).align = align /\ Declared(n, align, TRUE).synced
BY DEF Declared, BufferType

LEMMA MallocTyped ==
  ASSUME NEW len \in Nat, NEW b \in malloc(len)
  PROVE  b \in BlockType /\ b.live /\ b.synced
<1>1. PICK a \in Nat : b = Block(len, a, TRUE)
  BY DEF malloc, allocate, MIN_BUFFER_ALIGNMENT
<1> QED
  BY <1>1, BlockTyped

\* New: the blocks that come with the object.
LEMMA NewTyped ==
  ASSUME mem \in Seq(BlockType), NEW blocks \in Seq(BlockType)
  PROVE  /\ New(blocks) \in SUBSET Nat /\ \A i \in DOMAIN blocks : Len(mem) + i \in New(blocks)
         /\ \A b \in New(blocks) : \E i \in DOMAIN blocks : b = Len(mem) + i
BY DEF New

\* A step that makes an array or a tensor over new memory.
LEMMA OwnerStep ==
  ASSUME IInv, NEW kind \in {"Array", "Tensor"}, NEW bufs \in Seq(BufferType),
         NEW blocks \in Seq(BlockType), kind = "Array" => Len(bufs) = 1,
         \A i \in DOMAIN blocks : blocks[i].live,
         \A i \in DOMAIN bufs : /\ i \in DOMAIN blocks /\ bufs[i].block = Len(mem) + i
                                /\ Declares(kind, bufs[i], blocks[i])
  PROVE  /\ Made(mem, mem \o blocks, heap, Object(kind, bufs, <<>>, New(blocks)))
         /\ Makes(Object(kind, bufs, <<>>, New(blocks)), blocks) => IInv'
<1> DEFINE p == Object(kind, bufs, <<>>, New(blocks))
<1>1. mem \in Seq(BlockType) /\ Static(mem, heap)
  BY DEF IInv, Loose, Static
<1>2. /\ New(blocks) \in SUBSET Nat /\ \A i \in DOMAIN blocks : Len(mem) + i \in New(blocks)
      /\ \A b \in New(blocks) : \E i \in DOMAIN blocks : b = Len(mem) + i
  BY <1>1, NewTyped
<1>3. kind \in Kinds /\ <<>> \in Seq(Nat)
  BY DEF Kinds
<1>4. Fresh(p)
  BY <1>2, <1>3, ObjectFresh
<1>5. p.kind = kind /\ p.bufs = bufs /\ p.refs = <<>> /\ p.owns = New(blocks)
  BY DEF Object
<1> HIDE DEF p
<1>6. DOMAIN p.refs = {}
  BY <1>5
<1>7. Made(mem, mem \o blocks, heap, p)
  BY <1>1, <1>2, <1>4, <1>5, <1>6, NewOwner
<1> QED
  BY <1>7, MakesStep DEF p

LEMMA ArrayStep ==
  ASSUME IInv, NEW b \in BlockType, b.live, b.synced, Makes(ndarray(b), <<b>>)
  PROVE  IInv'
<1> DEFINE blocks == <<b>>
           u == Declared(Len(mem) + 1, b.align, TRUE)
           bufs == <<u>>
<1>1. mem \in Seq(BlockType)
  BY DEF IInv, Loose, Static
<1>2. Makes(Object("Array", bufs, <<>>, New(blocks)), blocks)
  BY DEF ndarray
<1>3. /\ blocks \in Seq(BlockType) /\ DOMAIN blocks = {1} /\ blocks[1] = b
      /\ Len(mem) + 1 \in Nat
  BY <1>1
<1>4. u \in BufferType /\ u.block = Len(mem) + 1
  <2>1. b.align \in Nat
    BY DEF BlockType
  <2> QED
    BY <1>3, <2>1, DeclaredTyped
<1> HIDE DEF u
<1>5. bufs \in Seq(BufferType) /\ DOMAIN bufs = {1} /\ bufs[1] = u /\ Len(bufs) = 1
  BY <1>4
<1>6. Declares("Array", u, b)
  BY DEF Declares
<1> HIDE DEF bufs, blocks
<1>7. \A i \in DOMAIN blocks : blocks[i].live
  BY <1>3
<1>8. \A i \in DOMAIN bufs : /\ i \in DOMAIN blocks /\ bufs[i].block = Len(mem) + i
                             /\ Declares("Array", bufs[i], blocks[i])
  BY <1>3, <1>4, <1>5, <1>6
<1> QED
  BY <1>2, <1>3, <1>5, <1>7, <1>8, OwnerStep

LEMMA array_Step ==
  ASSUME IInv, array
  PROVE  IInv'
<1>1. PICK len \in {0, 1} : \E b \in malloc(len) : Makes(ndarray(b), <<b>>)
  BY DEF array
<1>2. PICK b \in malloc(len) : Makes(ndarray(b), <<b>>)
  BY <1>1
<1> QED
  BY <1>2, MallocTyped, ArrayStep

LEMMA Tensor_new_Step ==
  ASSUME IInv, NEW lens \in Payloads, Tensor_new(lens)
  PROVE  IInv'
<1> DEFINE block(i) == from_slice(lens[i])
           a(i) == IF lens[i] = 0 THEN 1 ELSE MIN_BUFFER_ALIGNMENT
           u(i) == Declared(Len(mem) + i, a(i), TRUE)
           blocks == [i \in DOMAIN lens |-> block(i)]
           bufs == [i \in DOMAIN lens |-> u(i)]
           p == Object("Tensor", bufs, <<>>, New(blocks))
<1>1. mem \in Seq(BlockType)
  BY DEF IInv, Loose, Static
<1>2. Makes([p EXCEPT !.dense = TRUE], blocks)
  BY DEF Tensor_new
<1>3. lens \in Seq(Nat) /\ lens # <<>>
  BY PayloadsAssumption
<1>4. ASSUME NEW i \in DOMAIN lens
      PROVE  /\ block(i) \in BlockType /\ block(i).live /\ u(i) \in BufferType
             /\ u(i).block = Len(mem) + i /\ Declares("Tensor", u(i), block(i))
  <2>1. lens[i] \in Nat /\ MIN_BUFFER_ALIGNMENT \in Nat /\ Len(mem) + i \in Nat /\ a(i) \in Nat
    BY <1>1, <1>3 DEF MIN_BUFFER_ALIGNMENT
  <2>2. /\ block(i) \in BlockType /\ block(i).live /\ block(i).len = lens[i]
        /\ block(i).align = MIN_BUFFER_ALIGNMENT /\ block(i).synced
    BY <2>1, BlockTyped DEF from_slice
  <2>3. lens[i] > 0 => MIN_BUFFER_ALIGNMENT <= a(i) /\ a(i) <= MIN_BUFFER_ALIGNMENT
    BY <2>1
  <2> HIDE DEF block, a
  <2>4. u(i) \in BufferType /\ u(i).block = Len(mem) + i /\ u(i).align = a(i)
    BY <2>1, DeclaredTyped
  <2> HIDE DEF u
  <2> QED
    BY <2>2, <2>3, <2>4 DEF Declares
<1> HIDE DEF block, u
<1>5. /\ blocks \in Seq(BlockType) /\ DOMAIN blocks = DOMAIN lens /\ bufs \in Seq(BufferType)
      /\ DOMAIN bufs = DOMAIN lens
      /\ \A i \in DOMAIN lens : blocks[i] = block(i) /\ bufs[i] = u(i)
  <2>1. \A i \in DOMAIN lens : blocks[i] = block(i) /\ bufs[i] = u(i)
    BY DEF block, u
  <2>2. Len(lens) \in Nat /\ DOMAIN lens = 1 .. Len(lens)
    BY <1>3
  <2>3. blocks \in [1 .. Len(lens) -> BlockType] /\ bufs \in [1 .. Len(lens) -> BufferType]
    BY <1>4, <2>1, <2>2
  <2>4. DOMAIN blocks = DOMAIN lens /\ DOMAIN bufs = DOMAIN lens
    OBVIOUS
  <2> HIDE DEF blocks, bufs
  <2> QED
    BY <2>1, <2>2, <2>3, <2>4, FunctionIsSeq
<1>6. Len(bufs) > 0
  <2>1. Len(lens) > 0
    BY <1>3
  <2>2. Len(bufs) = Len(lens)
    BY <1>3, <1>5
  <2> QED
    BY <2>1, <2>2
<1> HIDE DEF bufs, blocks
<1>7. \A i \in DOMAIN blocks : blocks[i].live
  BY <1>4, <1>5
<1>8. \A i \in DOMAIN bufs : /\ i \in DOMAIN blocks /\ bufs[i].block = Len(mem) + i
                             /\ Declares("Tensor", bufs[i], blocks[i])
  BY <1>4, <1>5
<1>9. Made(mem, mem \o blocks, heap, p)
  BY <1>5, <1>7, <1>8, OwnerStep
<1>10. p.kind = "Tensor" /\ p.bufs = bufs
  BY DEF Object
<1> HIDE DEF p
<1>11. Made(mem, mem \o blocks, heap, [p EXCEPT !.dense = TRUE])
  BY <1>6, <1>9, <1>10, NewDense
<1> QED
  BY <1>2, <1>11, MakesStep

LEMMA ElementOf ==
  ASSUME NEW S, NEW s \in Seq(S), NEW i \in DOMAIN s
  PROVE  s[i] \in S
OBVIOUS

LEMMA adopt_Step ==
  ASSUME IInv, NEW handles \in Incoming, adopt(handles)
  PROVE  IInv'
<1> DEFINE block(i) == Block(handles[i].len, handles[i].align, handles[i].synced)
           u(i) == Declared(Len(mem) + i, handles[i].align, handles[i].synced)
           blocks == [i \in DOMAIN handles |-> block(i)]
           bufs == [i \in DOMAIN handles |-> u(i)]
<1>1. mem \in Seq(BlockType)
  BY DEF IInv, Loose, Static
<1>2. Makes(Object("Tensor", bufs, <<>>, New(blocks)), blocks)
  BY DEF adopt
<1>3. handles \in Seq([len : Nat, align : Nat \ {0}, synced : BOOLEAN])
  BY IncomingAssumption
<1>4. Len(handles) \in Nat /\ DOMAIN handles = 1 .. Len(handles)
  BY <1>3
<1>5. ASSUME NEW i \in DOMAIN handles
      PROVE  /\ block(i) \in BlockType /\ block(i).live /\ u(i) \in BufferType
             /\ u(i).block = Len(mem) + i /\ Declares("Tensor", u(i), block(i))
  <2>1. handles[i] \in [len : Nat, align : Nat \ {0}, synced : BOOLEAN]
    BY <1>3, ElementOf, Zenon
  <2>2. handles[i].len \in Nat /\ handles[i].align \in Nat /\ handles[i].synced \in BOOLEAN
    BY <2>1
  <2>3. Len(mem) + i \in Nat
    BY <1>1, <1>4
  <2>4. /\ block(i) \in BlockType /\ block(i).live /\ block(i).len = handles[i].len
        /\ block(i).align = handles[i].align /\ (block(i).synced <=> handles[i].synced)
    BY <2>2, BlockTyped
  <2>5. /\ u(i) \in BufferType /\ u(i).block = Len(mem) + i /\ u(i).align = handles[i].align
        /\ u(i).synced <=> handles[i].synced
    BY <2>2, <2>3, DeclaredTyped
  <2> HIDE DEF block, u
  <2>6. block(i).len > 0 => MIN_BUFFER_ALIGNMENT <= u(i).align /\ u(i).align <= block(i).align
    BY <2>2, <2>4, <2>5, IncomingAssumption
  <2>7. u(i).synced => block(i).synced
    BY <2>4, <2>5, Zenon
  <2> QED
    BY <2>4, <2>5, <2>6, <2>7 DEF Declares
<1> HIDE DEF block, u
<1> HIDE <1>3
<1>6. /\ blocks \in Seq(BlockType) /\ DOMAIN blocks = DOMAIN handles /\ bufs \in Seq(BufferType)
      /\ DOMAIN bufs = DOMAIN handles
      /\ \A i \in DOMAIN handles : blocks[i] = block(i) /\ bufs[i] = u(i)
  BY <1>4, <1>5
<1> HIDE DEF bufs, blocks
<1>7. \A i \in DOMAIN blocks : blocks[i].live
  BY <1>5, <1>6
<1>8. \A i \in DOMAIN bufs : /\ i \in DOMAIN blocks /\ bufs[i].block = Len(mem) + i
                             /\ Declares("Tensor", bufs[i], blocks[i])
  BY <1>5, <1>6
<1> QED
  BY <1>2, <1>6, <1>7, <1>8, OwnerStep

-----------------------------------------------------------------------------
\* Objects over memory of others

\* What an object of that shape may be made over: bytes its references keep.
Borrows(m, h, kind, bufs, refs) ==
  /\ Fits(kind, bufs, refs) /\ Alive(h, refs)
  /\ \A i \in DOMAIN refs : refs[i] # NoBase => refs[i] \in DOMAIN h /\ MayRefer(kind, h[refs[i]].kind)
  /\ \A i \in DOMAIN bufs : bufs[i].block \in DOMAIN m /\ Declares(kind, bufs[i], m[bufs[i].block])
  /\ ~ Reassigns /\ ~ Fleeting =>
       /\ \A i \in DOMAIN bufs :
            /\ m[bufs[i].block].live
            /\ \E j \in DOMAIN refs : refs[j] # NoBase /\ Covers(h, refs[j], bufs[i].block)
       /\ kind = "Producer" => \A i \in DOMAIN refs : h[refs[i]].kind = "Tensor"

LEMMA NewBorrower ==
  ASSUME NEW m, NEW h, Static(m, h), NEW kind \in Kinds, NEW bufs \in Seq(BufferType),
         NEW refs \in Seq(Nat), Borrows(m, h, kind, bufs, refs)
  PROVE  m \o <<>> = m /\ Made(m, m, h, Object(kind, bufs, refs, {}))
<1> DEFINE p == Object(kind, bufs, refs, {})
           blocks == <<>>
<1>1. m \in Seq(BlockType)
  BY DEF Static
<1>2. blocks \in Seq(BlockType) /\ DOMAIN blocks = {} /\ m \o blocks = m
  BY <1>1
<1>3. {} \in SUBSET Nat
  OBVIOUS
<1>4. Fresh(p)
  BY <1>3, ObjectFresh
<1>5. p.kind = kind /\ p.bufs = bufs /\ p.refs = refs /\ p.owns = {}
  BY DEF Object
<1> HIDE DEF p, blocks
<1>6. NewObject(m, m \o blocks, h, p)
  <2>1. \A i \in DOMAIN p.bufs :
           /\ p.bufs[i].block \in DOMAIN (m \o blocks)
           /\ Declares(p.kind, p.bufs[i], (m \o blocks)[p.bufs[i].block])
    BY <1>2, <1>5 DEF Borrows
  <2>2. \A i \in DOMAIN p.refs :
           p.refs[i] # NoBase => p.refs[i] \in DOMAIN h /\ MayRefer(p.kind, h[p.refs[i]].kind)
    BY <1>5 DEF Borrows
  <2>3. Fits(p.kind, p.bufs, p.refs)
    BY <1>5 DEF Borrows
  <2> QED
    BY <1>2, <1>4, <1>5, <2>1, <2>2, <2>3, NewOne
<1>7. NewObject(m, m, h, p)
  BY <1>2, <1>6
<1>8. ASSUME ~ Reassigns, ~ Fleeting, NEW b \in DOMAIN m, PointsTo(p, b)
      PROVE  m[b].live /\ \E j \in DOMAIN p.refs : p.refs[j] # NoBase /\ Covers(h, p.refs[j], b)
  <2>1. PICK i \in DOMAIN bufs : bufs[i].block = b
    BY <1>5, <1>8 DEF PointsTo
  <2> QED
    BY <1>5, <1>8, <2>1 DEF Borrows
<1>9. Keeps(m, h, p)
  BY <1>5, <1>8 DEF Keeps, KeptNew, Borrows
<1>10. Alive(h, p.refs)
  BY <1>5 DEF Borrows
<1>11. Made(m, m, h, p)
  BY <1>4, <1>7, <1>9, <1>10 DEF Made, Fresh
<1> QED
  BY <1>2, <1>11 DEF p, blocks

LEMMA BorrowerStep ==
  ASSUME IInv, NEW kind \in Kinds, NEW bufs \in Seq(BufferType), NEW refs \in Seq(Nat),
         Borrows(mem, heap, kind, bufs, refs), Makes(Object(kind, bufs, refs, {}), <<>>)
  PROVE  IInv'
<1>1. Static(mem, heap)
  BY DEF IInv, Loose
<1>2. mem \o <<>> = mem /\ Made(mem, mem, heap, Object(kind, bufs, refs, {}))
  BY <1>1, NewBorrower
<1> QED
  BY <1>2, MakesStep

\* The buffers of an object.
LEMMA Pointed ==
  ASSUME NEW m, NEW h, NEW H, NEW c, NEW s, Loose(m, h, H, c, s), NEW o \in DOMAIN h,
         NEW i \in DOMAIN h[o].bufs
  PROVE  LET u == h[o].bufs[i]
         IN  /\ u \in BufferType /\ u.block \in DOMAIN m /\ m[u.block] \in BlockType
             /\ Declares(h[o].kind, u, m[u.block]) /\ PointsTo(h[o], u.block)
             /\ ~ Reassigns /\ ~ Fleeting /\ Holding(h[o]) => m[u.block].live
<1> DEFINE u == h[o].bufs[i]
<1>1. h \in Seq(ObjectType) /\ m \in Seq(BlockType) /\ Points(m, h)
  BY DEF Loose, Static
<1>2. h[o] \in ObjectType
  BY <1>1
<1>3. h[o].bufs \in Seq(BufferType)
  BY <1>2 DEF ObjectType
<1>4. u \in BufferType
  BY <1>3
<1>5. u.block \in DOMAIN m /\ Declares(h[o].kind, u, m[u.block])
  BY <1>1 DEF Points
<1>6. m[u.block] \in BlockType
  BY <1>1, <1>5
<1>7. PointsTo(h[o], u.block)
  BY DEF PointsTo
<1> HIDE DEF u
<1>8. ~ Reassigns /\ ~ Fleeting /\ Holding(h[o]) => m[u.block].live
  BY <1>5, <1>7 DEF Loose, KeptIf, Kept
<1> QED
  BY <1>4, <1>5, <1>6, <1>7, <1>8 DEF u

\* A program's object of these kinds still owns its references.
LEMMA NamedKind ==
  ASSUME IInv, NEW kinds, NEW o \in Named(kinds)
  PROVE  /\ o \in held /\ heap[o].kind \in kinds
         /\ o \in DOMAIN heap /\ o \in Nat /\ o # NoBase /\ heap[o] \in ObjectType
         /\ ObjectOK(heap[o]) /\ heap[o].freed = 0 /\ heap[o].rc > 0
         /\ heap[o].kind \notin {"DlCapsule", "Native"} => Holding(heap[o])
         /\ heap[o].bufs \in Seq(BufferType) /\ heap[o].refs \in Seq(Nat)
<1>1. o \in held /\ heap[o].kind \in kinds /\ Loose(mem, heap, held, call, <<>>)
  BY DEF Named, IInv
<1>2. /\ o \in DOMAIN heap /\ o \in Nat /\ o # NoBase /\ heap[o] \in ObjectType
      /\ ObjectOK(heap[o]) /\ heap[o].freed = 0 /\ heap[o].rc > 0
      /\ heap[o].kind \notin {"DlCapsule", "Native"} => Holding(heap[o])
  BY <1>1, NamedAlive
<1>3. heap[o].bufs \in Seq(BufferType) /\ heap[o].refs \in Seq(Nat)
  BY <1>2 DEF ObjectType
<1> QED
  BY <1>1, <1>2, <1>3

\* A tensor over buffers of t, which it refers to.
LEMMA ViewOf ==
  ASSUME NEW m, NEW h, NEW H, NEW c, NEW s, Loose(m, h, H, c, s), NEW t \in DOMAIN h, t \in Nat,
         t # NoBase, h[t].kind = "Tensor", Holding(h[t]), h[t].rc > 0,
         NEW kind \in {"Tensor", "Managed", "Native"}, NEW bufs \in Seq(BufferType), kind = "Managed" => Len(bufs) = 1,
         \A i \in DOMAIN bufs :
           /\ PointsTo(h[t], bufs[i].block)
           /\ bufs[i].block \in DOMAIN m => Declares(kind, bufs[i], m[bufs[i].block])
  PROVE  <<t>> \in Seq(Nat) /\ Borrows(m, h, kind, bufs, <<t>>)
<1> DEFINE refs == <<t>>
<1>1. refs \in Seq(Nat) /\ Len(refs) = 1 /\ DOMAIN refs = {1} /\ refs[1] = t
  OBVIOUS
<1> HIDE DEF refs
<1>2. h[t].freed = 0
  BY DEF Holding
<1>3. Fits(kind, bufs, refs) /\ Alive(h, refs)
  BY <1>1, <1>2 DEF Fits, Alive
<1>4. \A i \in DOMAIN refs : refs[i] # NoBase => refs[i] \in DOMAIN h /\ MayRefer(kind, h[refs[i]].kind)
  BY <1>1 DEF MayRefer
<1>5. ASSUME NEW i \in DOMAIN bufs
      PROVE  /\ bufs[i].block \in DOMAIN m /\ Declares(kind, bufs[i], m[bufs[i].block])
             /\ ~ Reassigns /\ ~ Fleeting => m[bufs[i].block].live
             /\ Covers(h, t, bufs[i].block)
  <2>1. PICK j \in DOMAIN h[t].bufs : h[t].bufs[j].block = bufs[i].block
    BY DEF PointsTo
  <2>2. bufs[i].block \in DOMAIN m /\ (~ Reassigns /\ ~ Fleeting => m[bufs[i].block].live)
    BY <2>1, Pointed
  <2> QED
    BY <2>2 DEF Covers
<1>6. ~ Reassigns /\ ~ Fleeting =>
        /\ \A i \in DOMAIN bufs :
             /\ m[bufs[i].block].live
             /\ \E j \in DOMAIN refs : refs[j] # NoBase /\ Covers(h, refs[j], bufs[i].block)
        /\ kind = "Producer" => \A i \in DOMAIN refs : h[refs[i]].kind = "Tensor"
  BY <1>1, <1>5
<1> QED
  BY <1>1, <1>3, <1>4, <1>5, <1>6 DEF Borrows, refs

LEMMA component_view_Step ==
  ASSUME IInv, NEW t \in Tensors, NEW i \in DOMAIN heap[t].bufs, component_view(t, i)
  PROVE  IInv'
<1> DEFINE b == heap[t].bufs[i].block
           u == Declared(b, measured_alignment(b), TRUE)
           bufs == <<u>>
<1>1. /\ t \in DOMAIN heap /\ t \in Nat /\ t # NoBase /\ heap[t].kind = "Tensor" /\ Holding(heap[t])
      /\ heap[t].rc > 0
  BY NamedKind DEF Tensors
<1>2. Loose(mem, heap, held, call, <<>>) /\ mem \in Seq(BlockType)
  BY DEF IInv, Loose, Static
<1>3. /\ heap[t].bufs[i] \in BufferType /\ b \in DOMAIN mem /\ mem[b] \in BlockType
      /\ Declares("Tensor", heap[t].bufs[i], mem[b]) /\ PointsTo(heap[t], b)
  BY <1>1, <1>2, Pointed
<1>4. mem[b].synced
  BY <1>3 DEF component_view, require_producer_synced, Declares
<1>5. /\ measured_alignment(b) \in Nat
      /\ mem[b].len > 0 => MIN_BUFFER_ALIGNMENT <= measured_alignment(b) /\ measured_alignment(b) <= mem[b].align
  <2>1. mem[b].align \in Nat /\ mem[b].len \in Nat /\ heap[t].bufs[i].align \in Nat
    BY <1>3 DEF BlockType, BufferType
  <2> QED
    BY <1>3, <2>1 DEF measured_alignment, Declares, MIN_BUFFER_ALIGNMENT
<1>6. Makes(Object("Tensor", bufs, <<t>>, {}), <<>>)
  BY DEF component_view, view_base
<1>7. b \in Nat
  BY <1>2, <1>3
<1> HIDE DEF b
<1>8. u \in BufferType /\ u.block = b /\ u.align = measured_alignment(b) /\ u.synced
  BY <1>5, <1>7, DeclaredTyped
<1> HIDE DEF u
<1>9. Declares("Tensor", u, mem[b])
  BY <1>4, <1>5, <1>8 DEF Declares
<1>10. bufs \in Seq(BufferType) /\ DOMAIN bufs = {1} /\ bufs[1] = u
  BY <1>8
<1> HIDE DEF bufs
<1>11. <<t>> \in Seq(Nat) /\ Borrows(mem, heap, "Tensor", bufs, <<t>>)
  BY <1>1, <1>2, <1>3, <1>8, <1>9, <1>10, ViewOf
<1>12. "Tensor" \in Kinds
  BY DEF Kinds
<1> QED
  BY <1>6, <1>10, <1>11, <1>12, BorrowerStep

\* The buffers of t as they are.
LEMMA AllOf ==
  ASSUME NEW m, NEW h, NEW H, NEW c, NEW s, Loose(m, h, H, c, s), NEW t \in DOMAIN h,
         h[t].kind = "Tensor", NEW i \in DOMAIN h[t].bufs
  PROVE  /\ PointsTo(h[t], h[t].bufs[i].block) /\ h[t].bufs[i] \in BufferType
         /\ Declares("Native", h[t].bufs[i], m[h[t].bufs[i].block])
         /\ h[t].bufs[i].synced => Declares("Managed", h[t].bufs[i], m[h[t].bufs[i].block])
<1>1. /\ PointsTo(h[t], h[t].bufs[i].block) /\ h[t].bufs[i] \in BufferType
      /\ Declares("Tensor", h[t].bufs[i], m[h[t].bufs[i].block])
  BY Pointed
<1> QED
  BY <1>1 DEF Declares

LEMMA NativeBorrows ==
  ASSUME NEW m, NEW h, NEW H, NEW c, NEW s, Loose(m, h, H, c, s), NEW t \in DOMAIN h, t \in Nat,
         t # NoBase, h[t].kind = "Tensor", Holding(h[t]), h[t].rc > 0
  PROVE  h[t].bufs \in Seq(BufferType) /\ <<t>> \in Seq(Nat) /\ Borrows(m, h, "Native", h[t].bufs, <<t>>)
<1>1. h \in Seq(ObjectType)
  BY DEF Loose, Static
<1>2. h[t] \in ObjectType
  BY <1>1
<1>3. h[t].bufs \in Seq(BufferType)
  BY <1>2 DEF ObjectType
<1>4. \A i \in DOMAIN h[t].bufs :
         /\ PointsTo(h[t], h[t].bufs[i].block)
         /\ Declares("Native", h[t].bufs[i], m[h[t].bufs[i].block])
  BY AllOf
<1> QED
  BY <1>3, <1>4, ViewOf

LEMMA hurray_Step ==
  ASSUME IInv, NEW t \in Tensors, hurray(t)
  PROVE  IInv'
<1>1. /\ t \in DOMAIN heap /\ t \in Nat /\ t # NoBase /\ heap[t].kind = "Tensor" /\ Holding(heap[t])
      /\ heap[t].rc > 0
  BY NamedKind DEF Tensors
<1>2. Loose(mem, heap, held, call, <<>>)
  BY DEF IInv
<1>3. /\ heap[t].bufs \in Seq(BufferType) /\ <<t>> \in Seq(Nat)
      /\ Borrows(mem, heap, "Native", heap[t].bufs, <<t>>)
  BY <1>1, <1>2, NativeBorrows
<1>4. "Native" \in Kinds /\ Makes(Object("Native", heap[t].bufs, <<t>>, {}), <<>>)
  BY DEF Kinds, hurray, Native
<1> QED
  BY <1>3, <1>4, BorrowerStep

LEMMA csr_matrix_Step ==
  ASSUME IInv, NEW a \in Arrays, NEW b \in Arrays \ {a}, csr_matrix(a, b)
  PROVE  IInv'
<1> DEFINE refs == <<a, b>>
           bufs == <<>>
<1>1. /\ a \in DOMAIN heap /\ a \in Nat /\ a # NoBase /\ heap[a].kind = "Array"
      /\ heap[a].freed = 0 /\ heap[a].rc > 0
      /\ b \in DOMAIN heap /\ b \in Nat /\ b # NoBase /\ heap[b].kind = "Array"
      /\ heap[b].freed = 0 /\ heap[b].rc > 0
  BY NamedKind DEF Arrays
<1>2. /\ refs \in Seq(Nat) /\ DOMAIN refs = {1, 2} /\ refs[1] = a /\ refs[2] = b
      /\ bufs \in Seq(BufferType) /\ DOMAIN bufs = {}
  BY <1>1
<1>3. "Matrix" \in Kinds /\ Makes(Object("Matrix", bufs, refs, {}), <<>>)
  BY DEF Kinds, csr_matrix
<1>4. Fits("Matrix", bufs, refs)
  BY <1>1, <1>2 DEF Fits
<1> HIDE DEF refs, bufs
<1>5. Borrows(mem, heap, "Matrix", bufs, refs)
  BY <1>1, <1>2, <1>4 DEF Borrows, Alive, MayRefer
<1> QED
  BY <1>2, <1>3, <1>5, BorrowerStep

LEMMA Producer_Step ==
  ASSUME IInv, NEW x \in Named(IF Fleeting THEN {"Tensor", "Native"} ELSE {"Tensor"}), Producer(x)
  PROVE  IInv'
<1> DEFINE refs == <<x>>
           bufs == <<>>
<1>1. /\ x \in DOMAIN heap /\ x \in Nat /\ x # NoBase
      /\ heap[x].kind \in IF Fleeting THEN {"Tensor", "Native"} ELSE {"Tensor"}
      /\ heap[x].freed = 0 /\ heap[x].rc > 0
  BY NamedKind
<1>2. heap[x].kind \in {"Tensor", "Native"} /\ (~ Fleeting => heap[x].kind = "Tensor")
  BY <1>1
<1>3. /\ refs \in Seq(Nat) /\ DOMAIN refs = {1} /\ refs[1] = x /\ Len(refs) = 1
      /\ bufs \in Seq(BufferType) /\ DOMAIN bufs = {}
  BY <1>1
<1>4. "Producer" \in Kinds /\ Makes(Object("Producer", bufs, refs, {}), <<>>)
  BY DEF Kinds, Producer
<1>5. Fits("Producer", bufs, refs)
  BY <1>1, <1>3 DEF Fits
<1> HIDE DEF refs, bufs
<1>6. Borrows(mem, heap, "Producer", bufs, refs)
  BY <1>1, <1>2, <1>3, <1>5 DEF Borrows, Alive, MayRefer
<1> QED
  BY <1>3, <1>4, <1>6, BorrowerStep

LEMMA FreedTyped == Freed \in BlockType /\ ~ Freed.live /\ Freed.len = 0 /\ Freed.synced
BY DEF Freed, Block, BlockType

\* A buffer that ingest copies.
LEMMA CopyOf ==
  ASSUME NEW l \in Nat, NEW n \in Nat
  PROVE  LET u == Declared(n, IF l = 0 THEN 1 ELSE MIN_BUFFER_ALIGNMENT, TRUE)
         IN  /\ from_slice(l) \in BlockType /\ from_slice(l).live
             /\ u \in BufferType /\ u.block = n /\ Declares("Tensor", u, from_slice(l))
<1> DEFINE a == IF l = 0 THEN 1 ELSE MIN_BUFFER_ALIGNMENT
           u == Declared(n, a, TRUE)
           b == from_slice(l)
<1>1. MIN_BUFFER_ALIGNMENT \in Nat
  BY DEF MIN_BUFFER_ALIGNMENT
<1>2. a \in Nat /\ (l > 0 => MIN_BUFFER_ALIGNMENT <= a /\ a <= MIN_BUFFER_ALIGNMENT)
  BY <1>1
<1>3. b \in BlockType /\ b.live /\ b.len = l /\ b.align = MIN_BUFFER_ALIGNMENT /\ b.synced
  BY <1>1, SyncedBlock DEF from_slice
<1> HIDE DEF a
<1>4. u \in BufferType /\ u.block = n /\ u.align = a
  BY <1>2, SyncedDeclared
<1> HIDE DEF b, u
<1>5. Declares("Tensor", u, b)
  BY <1>2, <1>3, <1>4 DEF Declares
<1> QED
  BY <1>3, <1>4, <1>5 DEF b, u, a

\* A buffer that it takes over.
LEMMA ShareOf ==
  ASSUME NEW b \in Nat, mem[b] \in BlockType, mem[b].synced, ~ UnderAligned(b)
  PROVE  LET u == Declared(b, measured_alignment(b), TRUE)
         IN  u \in BufferType /\ u.block = b /\ Declares("Tensor", u, mem[b])
<1> DEFINE a == measured_alignment(b)
           u == Declared(b, a, TRUE)
<1>1. mem[b].len \in Nat /\ mem[b].align \in Nat /\ MIN_BUFFER_ALIGNMENT \in Nat
  BY DEF BlockType, MIN_BUFFER_ALIGNMENT
<1>2. a \in Nat /\ (mem[b].len > 0 => MIN_BUFFER_ALIGNMENT <= a /\ a <= mem[b].align)
  BY <1>1 DEF measured_alignment, UnderAligned
<1> HIDE DEF a
<1>3. u \in BufferType /\ u.block = b /\ u.align = a
  BY <1>2, SyncedDeclared
<1> HIDE DEF u
<1>4. Declares("Tensor", u, mem[b])
  BY <1>2, <1>3 DEF Declares
<1> QED
  BY <1>3, <1>4 DEF a, u

\* A buffer that ingest takes over, or copies.
LEMMA ingest_Step ==
  ASSUME IInv, NEW bs \in Seq(Nat), NEW bases \in Seq(Nat), DOMAIN bases = DOMAIN bs, NEW copy,
         \A i \in DOMAIN bs :
           /\ bs[i] \in DOMAIN mem /\ mem[bs[i]].synced
           /\ bases[i] # NoBase /\ bases[i] \in DOMAIN heap /\ MayRefer("Tensor", heap[bases[i]].kind)
           /\ heap[bases[i]].freed = 0 /\ heap[bases[i]].rc > 0 /\ Covers(heap, bases[i], bs[i])
           /\ ~ Reassigns /\ ~ Fleeting => mem[bs[i]].live,
         ingest(bs, bases, copy)
  PROVE  IInv'
<1> DEFINE taken == {i \in DOMAIN bs : must_copy(bs[i], copy)}
           block(i) == IF i \in taken THEN from_slice(mem[bs[i]].len) ELSE Freed
           copied(i) == Declared(Len(mem) + i, IF mem[bs[i]].len = 0 THEN 1 ELSE MIN_BUFFER_ALIGNMENT, TRUE)
           shared(i) == Declared(bs[i], measured_alignment(bs[i]), TRUE)
           u(i) == IF i \in taken THEN copied(i) ELSE shared(i)
           blocks == [i \in DOMAIN bs |-> block(i)]
           bufs == [i \in DOMAIN bs |-> u(i)]
           refs == Bases(bases, taken)
           owns == {Len(mem) + i : i \in taken}
           p == Object("Tensor", bufs, refs, owns)
           m2 == mem \o blocks
<1>1. mem \in Seq(BlockType) /\ Static(mem, heap)
  BY DEF IInv, Loose, Static
<1>2. Makes(p, blocks)
  BY DEF ingest
<1>3. Len(bs) \in Nat /\ DOMAIN bs = 1 .. Len(bs) /\ DOMAIN bs \subseteq Nat /\ Len(mem) \in Nat
  BY <1>1
<1>4. taken \subseteq DOMAIN bs
  OBVIOUS
<1>5. \A i \in DOMAIN bs : Len(mem) + i \in Nat
  BY <1>3
<1>6. ASSUME NEW i \in DOMAIN bs
      PROVE  mem[bs[i]] \in BlockType /\ mem[bs[i]].len \in Nat /\ mem[bs[i]].align \in Nat
  <2>1. mem[bs[i]] \in BlockType
    BY <1>1
  <2> QED
    BY <2>1 DEF BlockType
<1>8. ASSUME NEW i \in taken
      PROVE  /\ block(i) \in BlockType /\ block(i).live /\ u(i) \in BufferType
             /\ u(i).block = Len(mem) + i /\ Declares("Tensor", u(i), block(i))
  <2>1. mem[bs[i]].len \in Nat /\ Len(mem) + i \in Nat
    BY <1>4, <1>5, <1>6
  <2>2. block(i) = from_slice(mem[bs[i]].len) /\ u(i) = copied(i)
    OBVIOUS
  <2>3. /\ from_slice(mem[bs[i]].len) \in BlockType /\ from_slice(mem[bs[i]].len).live
        /\ copied(i) \in BufferType /\ copied(i).block = Len(mem) + i
        /\ Declares("Tensor", copied(i), from_slice(mem[bs[i]].len))
    BY <2>1, CopyOf
  <2> HIDE DEF u, block, taken, copied
  <2> QED
    BY <2>2, <2>3
<1>9. ASSUME NEW i \in DOMAIN bs, i \notin taken
      PROVE  /\ block(i) \in BlockType /\ ~ block(i).live /\ u(i) \in BufferType
             /\ u(i).block = bs[i] /\ Declares("Tensor", u(i), mem[bs[i]])
  <2>1. block(i) \in BlockType /\ ~ block(i).live
    BY <1>9, FreedTyped
  <2>2. u(i) = shared(i) /\ ~ UnderAligned(bs[i])
    BY <1>9 DEF must_copy
  <2>3. bs[i] \in Nat /\ mem[bs[i]] \in BlockType /\ mem[bs[i]].synced
    BY <1>6
  <2>4. /\ shared(i) \in BufferType /\ shared(i).block = bs[i]
        /\ Declares("Tensor", shared(i), mem[bs[i]])
    BY <2>2, <2>3, ShareOf
  <2> HIDE DEF u, block, taken, shared
  <2> QED
    BY <2>1, <2>2, <2>4
<1>10. \A i \in DOMAIN bs : block(i) \in BlockType /\ u(i) \in BufferType /\ (block(i).live <=> i \in taken)
  BY <1>8, <1>9
<1> HIDE DEF block, u
<1>11. /\ blocks \in Seq(BlockType) /\ DOMAIN blocks = DOMAIN bs
       /\ bufs \in Seq(BufferType) /\ DOMAIN bufs = DOMAIN bs
       /\ \A i \in DOMAIN bs : blocks[i] = block(i) /\ bufs[i] = u(i)
  BY <1>3, <1>10
<1>13. owns \in SUBSET Nat /\ "Tensor" \in Kinds
  BY <1>4, <1>5 DEF Kinds
<1>14. /\ \A i \in DOMAIN bs : Len(mem) + i \in owns <=> i \in taken
       /\ \A b \in owns : \E i \in DOMAIN bs : b = Len(mem) + i
  BY <1>3
<1> HIDE DEF taken, blocks, bufs, owns
<1>12. /\ refs \in Seq(Nat) /\ DOMAIN refs = DOMAIN bs
       /\ \A i \in DOMAIN bs : refs[i] = IF i \in taken THEN NoBase ELSE bases[i]
  <2>1. \A i \in DOMAIN bs : bases[i] \in Nat /\ NoBase \in Nat
    BY DEF NoBase
  <2> QED
    BY <1>3, <2>1 DEF Bases
<1> HIDE DEF refs
<1>15. Fresh(p)
  BY <1>11, <1>12, <1>13, ObjectFresh
<1>16. p.kind = "Tensor" /\ p.bufs = bufs /\ p.refs = refs /\ p.owns = owns
  BY DEF Object
<1> HIDE DEF p
<1>17. /\ \A b \in DOMAIN mem : b \in DOMAIN m2 /\ m2[b] = mem[b]
       /\ \A i \in DOMAIN bs : Len(mem) + i \in DOMAIN m2 /\ m2[Len(mem) + i] = block(i)
  <2>1. mem \in Seq(BlockType) /\ blocks \in Seq(BlockType)
    BY <1>1, <1>11
  <2>2. /\ DOMAIN mem \subseteq DOMAIN m2 /\ \A b \in DOMAIN mem : m2[b] = mem[b]
        /\ \A i \in DOMAIN blocks : Len(mem) + i \in DOMAIN m2 /\ m2[Len(mem) + i] = blocks[i]
    BY <2>1, NewBlocks
  <2> HIDE DEF m2
  <2>3. \A b \in DOMAIN mem : b \in DOMAIN m2 /\ m2[b] = mem[b]
    BY <2>2
  <2>4. \A i \in DOMAIN bs : Len(mem) + i \in DOMAIN m2 /\ m2[Len(mem) + i] = block(i)
    BY <1>11, <2>2
  <2> QED
    BY <2>3, <2>4
<1>18. NewObject(mem, m2, heap, p)
  <2>1. Fits(p.kind, p.bufs, p.refs)
    BY <1>16 DEF Fits
  <2>2. \A i \in DOMAIN p.refs :
           p.refs[i] # NoBase => p.refs[i] \in DOMAIN heap /\ MayRefer(p.kind, heap[p.refs[i]].kind)
    BY <1>12, <1>16
  <2>3. \A i \in DOMAIN p.bufs :
           p.bufs[i].block \in DOMAIN m2 /\ Declares(p.kind, p.bufs[i], m2[p.bufs[i].block])
    <3>1. ASSUME NEW i \in DOMAIN bs
          PROVE  bufs[i].block \in DOMAIN m2 /\ Declares("Tensor", bufs[i], m2[bufs[i].block])
      <4>1. CASE i \in taken
        BY <1>8, <1>11, <1>17, <4>1
      <4>2. CASE i \notin taken
        BY <1>9, <1>11, <1>17, <4>2
      <4> QED
        BY <4>1, <4>2
    <3> QED
      BY <1>11, <1>16, <3>1
  <2>4. \A i \in DOMAIN blocks : blocks[i].live <=> Len(mem) + i \in p.owns
    BY <1>10, <1>11, <1>14, <1>16
  <2>5. \A b \in p.owns : \E i \in DOMAIN blocks : b = Len(mem) + i
    BY <1>11, <1>14, <1>16
  <2> QED
    BY <1>1, <1>11, <1>15, <2>1, <2>2, <2>3, <2>4, <2>5, NewOne
<1>19. Alive(heap, p.refs)
  BY <1>12, <1>16 DEF Alive
<1>20. ASSUME ~ Reassigns, ~ Fleeting, NEW b \in DOMAIN m2, PointsTo(p, b)
       PROVE  /\ m2[b].live
              /\ b \in p.owns \/ \E i \in DOMAIN p.refs : p.refs[i] # NoBase /\ Covers(heap, p.refs[i], b)
  <2>1. PICK i \in DOMAIN bs : u(i).block = b
    BY <1>11, <1>16, <1>20 DEF PointsTo
  <2>2. CASE i \in taken
    <3>1. u(i).block = Len(mem) + i /\ block(i).live
      BY <1>8, <2>2
    <3>2. b = Len(mem) + i /\ m2[b] = block(i) /\ b \in p.owns
      BY <1>14, <1>16, <1>17, <2>1, <2>2, <3>1
    <3> QED
      BY <3>1, <3>2
  <2>3. CASE i \notin taken
    <3>1. b = bs[i] /\ b \in DOMAIN mem /\ m2[b] = mem[b]
      BY <1>9, <1>17, <2>1, <2>3
    <3>2. i \in DOMAIN p.refs /\ p.refs[i] = bases[i]
      BY <1>12, <1>16, <2>3
    <3> QED
      BY <1>20, <3>1, <3>2
  <2> QED
    BY <2>2, <2>3
<1>21. Keeps(m2, heap, p)
  BY <1>16, <1>20 DEF Keeps, KeptNew
<1>22. Made(mem, m2, heap, p)
  BY <1>15, <1>18, <1>19, <1>21 DEF Made, Fresh
<1> QED
  BY <1>2, <1>22, MakesStep

\* An array and its bytes.
LEMMA ArrayData ==
  ASSUME IInv, NEW a \in DOMAIN heap, a \in Nat, heap[a].kind = "Array", Holding(heap[a])
  PROVE  /\ Data(a) \in Nat /\ Data(a) \in DOMAIN mem /\ mem[Data(a)].synced
         /\ PointsTo(heap[a], Data(a)) /\ Covers(heap, a, Data(a))
         /\ ~ Reassigns /\ ~ Fleeting => mem[Data(a)].live
<1>1. Loose(mem, heap, held, call, <<>>) /\ mem \in Seq(BlockType) /\ heap \in Seq(ObjectType) /\ Objects(heap)
  BY DEF IInv, Loose, Static
<1>2. heap[a] \in ObjectType /\ ObjectOK(heap[a])
  BY <1>1 DEF Objects
<1>3. heap[a].bufs \in Seq(BufferType) /\ Len(heap[a].bufs) = 1
  BY <1>2 DEF ObjectType, ObjectOK, Holding
<1>4. 1 \in DOMAIN heap[a].bufs
  BY <1>3
<1>5. /\ Data(a) \in DOMAIN mem /\ Declares("Array", heap[a].bufs[1], mem[Data(a)])
      /\ PointsTo(heap[a], Data(a)) /\ (~ Reassigns /\ ~ Fleeting => mem[Data(a)].live)
  BY <1>1, <1>4, Pointed DEF Data
<1>6. Data(a) \in Nat
  BY <1>1, <1>5
<1> QED
  BY <1>5, <1>6 DEF Declares, Covers

LEMMA from_numpy_Step ==
  ASSUME IInv, NEW a \in Arrays, NEW copy, from_numpy(a, copy)
  PROVE  IInv'
<1> DEFINE bs == <<Data(a)>>
           bases == <<a>>
<1>1. /\ a \in DOMAIN heap /\ a \in Nat /\ a # NoBase /\ heap[a].kind = "Array" /\ Holding(heap[a])
      /\ heap[a].freed = 0 /\ heap[a].rc > 0
  BY NamedKind DEF Arrays
<1>2. /\ Data(a) \in Nat /\ Data(a) \in DOMAIN mem /\ mem[Data(a)].synced
      /\ Covers(heap, a, Data(a)) /\ (~ Reassigns /\ ~ Fleeting => mem[Data(a)].live)
  BY <1>1, ArrayData
<1>3. /\ bs \in Seq(Nat) /\ bases \in Seq(Nat) /\ DOMAIN bs = {1} /\ DOMAIN bases = {1}
      /\ bs[1] = Data(a) /\ bases[1] = a
  BY <1>1, <1>2
<1>4. ingest(bs, bases, copy)
  BY DEF from_numpy
<1> HIDE DEF bs, bases
<1>5. MayRefer("Tensor", heap[a].kind)
  BY <1>1 DEF MayRefer
<1> QED
  BY <1>1, <1>2, <1>3, <1>4, <1>5, ingest_Step

LEMMA sparse_coo_Step ==
  ASSUME IInv, NEW a \in Arrays, NEW b \in Arrays \ {a}, NEW copy, sparse_coo(a, b, copy)
  PROVE  IInv'
<1> DEFINE bs == <<Data(a), Data(b)>>
           bases == <<a, b>>
<1>1. /\ a \in DOMAIN heap /\ a \in Nat /\ a # NoBase /\ heap[a].kind = "Array" /\ Holding(heap[a])
      /\ heap[a].freed = 0 /\ heap[a].rc > 0
      /\ b \in DOMAIN heap /\ b \in Nat /\ b # NoBase /\ heap[b].kind = "Array" /\ Holding(heap[b])
      /\ heap[b].freed = 0 /\ heap[b].rc > 0
  BY NamedKind DEF Arrays
<1>2. /\ Data(a) \in Nat /\ Data(a) \in DOMAIN mem /\ mem[Data(a)].synced
      /\ Covers(heap, a, Data(a)) /\ (~ Reassigns /\ ~ Fleeting => mem[Data(a)].live)
      /\ Data(b) \in Nat /\ Data(b) \in DOMAIN mem /\ mem[Data(b)].synced
      /\ Covers(heap, b, Data(b)) /\ (~ Reassigns /\ ~ Fleeting => mem[Data(b)].live)
  BY <1>1, ArrayData
<1>3. /\ bs \in Seq(Nat) /\ bases \in Seq(Nat) /\ DOMAIN bs = {1, 2} /\ DOMAIN bases = {1, 2}
      /\ bs[1] = Data(a) /\ bases[1] = a /\ bs[2] = Data(b) /\ bases[2] = b
  BY <1>1, <1>2
<1>4. ingest(bs, bases, copy)
  BY DEF sparse_coo
<1> HIDE DEF bs, bases
<1>5. MayRefer("Tensor", heap[a].kind) /\ MayRefer("Tensor", heap[b].kind)
  BY <1>1 DEF MayRefer
<1> QED
  BY <1>1, <1>2, <1>3, <1>4, <1>5, ingest_Step

LEMMA from_scipy_Step ==
  ASSUME IInv, NEW m \in Named({"Matrix"}), NEW copy, from_scipy(m, copy)
  PROVE  IInv'
<1> DEFINE parts == heap[m].refs
           bs == [i \in DOMAIN parts |-> Data(parts[i])]
           bases == [i \in DOMAIN parts |-> m]
<1>1. /\ m \in DOMAIN heap /\ m \in Nat /\ m # NoBase /\ heap[m].kind = "Matrix" /\ Holding(heap[m])
      /\ heap[m].freed = 0 /\ heap[m].rc > 0 /\ parts \in Seq(Nat) /\ ObjectOK(heap[m])
  BY NamedKind
<1>2. ingest(bs, bases, copy)
  BY DEF from_scipy
<1> HIDE DEF parts
<1>3. Loose(mem, heap, held, call, <<>>)
  BY DEF IInv
<1>4. ASSUME NEW i \in DOMAIN parts
      PROVE  /\ Data(parts[i]) \in Nat /\ Data(parts[i]) \in DOMAIN mem /\ mem[Data(parts[i])].synced
             /\ PointsTo(heap[parts[i]], Data(parts[i]))
             /\ ~ Reassigns /\ ~ Fleeting => mem[Data(parts[i])].live
  <2>1. parts[i] # NoBase
    BY <1>1 DEF ObjectOK, parts
  <2>2. /\ parts[i] \in DOMAIN heap /\ parts[i] \in Nat /\ MayRefer("Matrix", heap[parts[i]].kind)
        /\ (heap[parts[i]].kind \notin {"DlCapsule", "Native"} => Holding(heap[parts[i]]))
    BY <1>1, <1>3, <2>1, ReferredAlive DEF parts
  <2>3. heap[parts[i]].kind = "Array" /\ Holding(heap[parts[i]])
    BY <2>2 DEF MayRefer
  <2> QED
    BY <2>2, <2>3, ArrayData
<1>5. /\ bs \in Seq(Nat) /\ bases \in Seq(Nat) /\ DOMAIN bs = DOMAIN parts /\ DOMAIN bases = DOMAIN parts
      /\ \A i \in DOMAIN parts : bs[i] = Data(parts[i]) /\ bases[i] = m
  BY <1>1, <1>4
<1> HIDE DEF bs, bases
<1>6. ASSUME NEW i \in DOMAIN parts PROVE Covers(heap, m, bs[i])
  BY <1>1, <1>4, <1>5 DEF Covers, parts
<1>7. MayRefer("Tensor", heap[m].kind)
  BY <1>1 DEF MayRefer
<1> QED
  BY <1>1, <1>2, <1>4, <1>5, <1>6, <1>7, ingest_Step

-----------------------------------------------------------------------------
\* DLPack

\* What refers to a managed tensor: an array over its bytes, or a capsule.
LEMMA OverManaged ==
  ASSUME NEW m, NEW h, NEW H, NEW c, NEW s, Loose(m, h, H, c, s), NEW x \in DOMAIN h, x # NoBase,
         h[x].kind = "Managed", Holding(h[x]), h[x].rc > 0,
         NEW refs \in Seq(Nat), Len(refs) = 1, refs[1] = x
  PROVE  /\ h[x].bufs \in Seq(BufferType)
         /\ Borrows(m, h, "Array", h[x].bufs, refs) /\ Borrows(m, h, "DlCapsule", <<>>, refs)
<1>1. h \in Seq(ObjectType) /\ Objects(h)
  BY DEF Loose, Static
<1>2. h[x] \in ObjectType /\ ObjectOK(h[x])
  BY <1>1 DEF Objects
<1>3. h[x].bufs \in Seq(BufferType) /\ Len(h[x].bufs) = 1 /\ h[x].freed = 0
  BY <1>2 DEF ObjectType, ObjectOK, Holding
<1>4. DOMAIN refs = {1}
  OBVIOUS
<1>5. Fits("Array", h[x].bufs, refs) /\ Fits("DlCapsule", <<>>, refs) /\ Alive(h, refs)
  BY <1>3, <1>4 DEF Fits, Alive
<1>6. \A i \in DOMAIN refs : /\ MayRefer("Array", h[refs[i]].kind) /\ MayRefer("DlCapsule", h[refs[i]].kind)
                             /\ refs[i] \in DOMAIN h
  BY <1>4 DEF MayRefer
<1>7. ASSUME NEW i \in DOMAIN h[x].bufs
      PROVE  LET b == h[x].bufs[i].block
             IN  /\ b \in DOMAIN m /\ Declares("Array", h[x].bufs[i], m[b]) /\ Covers(h, x, b)
                 /\ ~ Reassigns /\ ~ Fleeting => m[b].live
  <2> DEFINE b == h[x].bufs[i].block
  <2>1. /\ b \in DOMAIN m /\ Declares("Managed", h[x].bufs[i], m[b]) /\ PointsTo(h[x], b)
        /\ ~ Reassigns /\ ~ Fleeting => m[b].live
    BY Pointed
  <2> HIDE DEF b
  <2>2. Declares("Array", h[x].bufs[i], m[b]) /\ Covers(h, x, b)
    BY <2>1 DEF Declares, Covers
  <2> QED
    BY <2>1, <2>2 DEF b
<1>8. Borrows(m, h, "Array", h[x].bufs, refs)
  BY <1>4, <1>5, <1>6, <1>7 DEF Borrows
<1>9. Borrows(m, h, "DlCapsule", <<>>, refs)
  BY <1>5, <1>6 DEF Borrows
<1> QED
  BY <1>3, <1>8, <1>9

\* The first object of MakesTwo, and the second, which owns it.
Two(h, p, kind, bufs) == Counted(h, p.refs, 1) \o <<p, Object(kind, bufs, <<Len(h) + 1>>, {})>>

Second(p, kind, bufs) ==
  \/ kind = "Array" /\ bufs = p.bufs
  \/ kind = "DlCapsule" /\ bufs = <<>>

LEMMA MadeTwo ==
  ASSUME NEW m, NEW h, NEW H, NEW c, NEW p, Loose(m, h, H, c, <<>>), NotFailed(h), Made(m, m, h, p),
         p.kind = "Managed",
         NEW kind, NEW bufs, Second(p, kind, bufs)
  PROVE  /\ Loose(m, Two(h, p, kind, bufs), H \cup {Len(h) + 2}, c, <<>>)
         /\ Len(Two(h, p, kind, bufs)) = Len(h) + 2
<1> DEFINE n == Len(h) + 1
           refs == <<n>>
           q == Object(kind, bufs, refs, {})
           f == Counted(h, p.refs, 1)
           g == Append(f, p)
<1>1. /\ h \in Seq(ObjectType) /\ H \subseteq DOMAIN h /\ p \in ObjectType
      /\ Holding(p) /\ p.rc = 1
  BY DEF Loose, Static, Made, NewObject
<1>2. /\ Loose(m, g, H, c, <<n>>) /\ NotFailed(g)
      /\ g \in Seq(ObjectType) /\ Len(g) = n /\ n \in DOMAIN g /\ g[n] = p
  BY MadeLoose DEF Made
<1>3. f \in Seq(ObjectType)
  <2>1. p.refs \in Seq(Nat)
    BY <1>1 DEF ObjectType
  <2> QED
    BY <1>1, <2>1, CountedRecounts DEF Recounted
<1>4. f \o <<p, q>> = Append(Append(f, p), q)
  BY <1>3
<1> HIDE DEF g, f
<1>5. refs \in Seq(Nat) /\ Len(refs) = 1 /\ refs[1] = n /\ n # NoBase /\ n \in Nat /\ n + 1 = Len(h) + 2
  BY <1>1 DEF NoBase
<1>6. refs = <<n>>
  OBVIOUS
<1> HIDE DEF refs, n
<1>7. Static(m, g)
  BY <1>2 DEF Loose
<1>8. bufs \in Seq(BufferType) /\ Borrows(m, g, kind, bufs, refs) /\ kind \in Kinds
  <2>1. g[n].kind = "Managed" /\ Holding(g[n]) /\ g[n].rc > 0
    BY <1>1, <1>2
  <2>2. /\ g[n].bufs \in Seq(BufferType)
        /\ Borrows(m, g, "Array", g[n].bufs, refs) /\ Borrows(m, g, "DlCapsule", <<>>, refs)
    BY <1>2, <1>5, <2>1, OverManaged
  <2>3. <<>> \in Seq(BufferType)
    OBVIOUS
  <2> QED
    BY <1>2, <2>2, <2>3 DEF Kinds, Second
<1>9. Made(m, m, g, q)
  BY <1>5, <1>7, <1>8, NewBorrower
<1>10. q.refs = <<n>>
  BY <1>6 DEF Object
<1> HIDE DEF q
<1>11. q \in ObjectType
  BY <1>9 DEF Made, NewObject
<1>12. /\ <<n + 1>> \in Seq(Nat) /\ n + 1 \notin DOMAIN g /\ n + 1 \notin H
       /\ n + 1 \in DOMAIN Append(g, q) /\ Len(Append(g, q)) = n + 1
  <2>1. H \subseteq DOMAIN g
    BY <1>2 DEF Loose
  <2> QED
    BY <1>2, <1>5, <1>11, <2>1
<1>13. 1 = Occurrences(<<n + 1>>, n + 1) /\ \A x \in DOMAIN g : Occurrences(<<n + 1>>, x) = 0
  BY <1>12, OccurrencesOfOne
<1>14. Loose(m, Append(g, q), H, c, <<n + 1>>)
  BY <1>2, <1>9, <1>10, <1>12, <1>13, LooseAppend DEF Made
<1>15. Loose(m, Append(g, q), H \cup {n + 1}, c, <<>>)
  BY <1>12, <1>14, LooseHold
<1> QED
  BY <1>4, <1>5, <1>12, <1>15 DEF q, g, f, refs, n, Two

LEMMA MakesTwoStep ==
  ASSUME IInv, NEW t \in Tensors, Exportable(t), NEW kind \in {"Array", "DlCapsule"}, NEW bufs,
         kind = "Array" => bufs = <<heap[t].bufs[1]>>, kind = "DlCapsule" => bufs = <<>>,
         MakesTwo(Managed(t), Object(kind, bufs, <<Len(heap) + 1>>, {}))
  PROVE  IInv'
<1> DEFINE p == Managed(t)
           u == heap[t].bufs[1]
           first == <<u>>
           g == Two(heap, p, kind, bufs)
<1>1. /\ t \in DOMAIN heap /\ t \in Nat /\ t # NoBase /\ heap[t].kind = "Tensor" /\ Holding(heap[t])
      /\ heap[t].rc > 0 /\ heap[t].bufs \in Seq(BufferType) /\ ObjectOK(heap[t])
  BY NamedKind DEF Tensors
<1>2. Loose(mem, heap, held, call, <<>>) /\ Static(mem, heap) /\ NotFailed(heap)
  BY RunningNotFailed DEF IInv, Loose, MakesTwo, ProgramRuns
<1>3. 1 \in DOMAIN heap[t].bufs
  <2>1. Len(heap[t].bufs) > 0
    BY <1>1 DEF Exportable, ObjectOK, Holding
  <2> QED
    BY <1>1, <2>1
<1>4. /\ PointsTo(heap[t], u.block) /\ u \in BufferType /\ Declares("Managed", u, mem[u.block])
  <2>1. u.synced
    BY <1>3 DEF Exportable, require_producer_synced
  <2> QED
    BY <1>1, <1>2, <1>3, <2>1, AllOf
<1> HIDE DEF u
<1>5. first \in Seq(BufferType) /\ Len(first) = 1 /\ DOMAIN first = {1} /\ first[1] = u
  BY <1>4
<1>6. p = Object("Managed", first, <<t>>, {}) /\ first = <<heap[t].bufs[1]>>
  BY DEF Managed, u
<1> HIDE DEF first, p
<1>7. <<t>> \in Seq(Nat) /\ Borrows(mem, heap, "Managed", first, <<t>>)
  BY <1>1, <1>2, <1>4, <1>5, ViewOf
<1>8. Made(mem, mem, heap, p)
  <2>1. "Managed" \in Kinds
    BY DEF Kinds
  <2> QED
    BY <1>2, <1>5, <1>6, <1>7, <2>1, NewBorrower
<1>9. p.kind = "Managed" /\ p.bufs = first
  BY <1>6 DEF Object
<1>10. Loose(mem, g, held \cup {Len(heap) + 2}, call, <<>>) /\ Len(g) = Len(heap) + 2
  <2>1. Second(p, kind, bufs)
    BY <1>6, <1>9 DEF Second
  <2> HIDE <1>6
  <2> QED
    BY <1>2, <1>8, <1>9, <2>1, MadeTwo
<1>11. /\ heap' = g /\ held' = held \cup {Len(heap')} /\ mem' = mem /\ call' = call
       /\ handler' = handler /\ saved' = saved
  BY DEF MakesTwo, p, Two
<1> HIDE DEF g
<1>12. Loose(mem', heap', held', call', <<>>)
  BY <1>10, <1>11
<1>13. Handlers'
  BY <1>11 DEF IInv, Handlers
<1> QED
  BY <1>12, <1>13 DEF IInv

LEMMA dlpack_Step ==
  ASSUME IInv, NEW t \in Tensors, dlpack(t)
  PROVE  IInv'
<1>1. Exportable(t) /\ MakesTwo(Managed(t), Object("DlCapsule", <<>>, <<Len(heap) + 1>>, {}))
  BY DEF dlpack
<1> QED
  BY <1>1, MakesTwoStep

LEMMA asarray_Step ==
  ASSUME IInv, NEW t \in Tensors, asarray(t)
  PROVE  IInv'
<1>1. CASE MakesTwo(Managed(t), Object("Array", <<heap[t].bufs[1]>>, <<Len(heap) + 1>>, {}))
  <2>1. Exportable(t)
    BY DEF asarray
  <2> QED
    BY <1>1, <2>1, MakesTwoStep
<1>2. CASE \E b \in malloc(mem[Data(t)].len) : Makes(ndarray(b), <<b>>)
  <2>1. PICK b \in malloc(mem[Data(t)].len) : Makes(ndarray(b), <<b>>)
    BY <1>2
  <2>2. /\ t \in DOMAIN heap /\ heap[t].bufs \in Seq(BufferType) /\ ObjectOK(heap[t])
        /\ heap[t].kind = "Tensor" /\ heap[t].freed = 0 /\ Loose(mem, heap, held, call, <<>>)
    BY NamedKind DEF Tensors, IInv
  <2>3. 1 \in DOMAIN heap[t].bufs
    <3>1. Len(heap[t].bufs) > 0
      BY <2>2 DEF asarray, Exportable, ObjectOK
    <3> QED
      BY <2>2, <3>1
  <2>4. mem[Data(t)] \in BlockType
    BY <2>2, <2>3, Pointed DEF Data
  <2>5. mem[Data(t)].len \in Nat
    BY <2>4 DEF BlockType
  <2> QED
    BY <2>1, <2>5, MallocTyped, ArrayStep
<1> QED
  BY <1>1, <1>2 DEF asarray

\* A capsule is renamed, and its references are passed on.
Given(h, g, k, t) ==
  /\ g \in Seq(ObjectType) /\ DOMAIN g = DOMAIN h /\ Len(g) = Len(h) /\ k \in DOMAIN h /\ t \in Seq(Nat)
  /\ \A o \in DOMAIN h : o # k => Alike(h[o], g[o])
  /\ g[k].kind = h[k].kind /\ g[k].bufs = h[k].bufs /\ g[k].refs = h[k].refs /\ g[k].owns = h[k].owns
  /\ g[k].freed = h[k].freed /\ g[k].name = "used" /\ ObjectOK(g[k]) /\ Holding(h[k])
  /\ \A o \in DOMAIN h : h[o].freed = 1 \/ Failed(h[o]) => g[o].rc = h[o].rc
  /\ \A o \in DOMAIN h : g[o].rc = h[o].rc - Occurrences(h[k].refs, o) + Occurrences(t, o)

LEMMA LooseGiven ==
  ASSUME NEW m, NEW h, NEW g, NEW H, NEW c, NEW k, NEW t, Loose(m, h, H, c, <<>>), Given(h, g, k, t)
  PROVE  Loose(m, g, H, c, t)
<1>1. /\ Static(m, h) /\ h \in Seq(ObjectType) /\ Objects(h) /\ Links(h) /\ Owners(m, h) /\ Points(m, h)
      /\ Newest(h) /\ m \in Seq(BlockType) /\ H \subseteq DOMAIN h /\ CountsWith(h, H, c, <<>>)
      /\ Calling(h, H, c)
  BY DEF Loose, Static
<1>2. /\ \A o \in DOMAIN h : /\ g[o].kind = h[o].kind /\ g[o].bufs = h[o].bufs /\ g[o].refs = h[o].refs
                             /\ g[o].owns = h[o].owns /\ g[o].freed = h[o].freed
      /\ ~ Holding(g[k])
      /\ \A o \in DOMAIN g : Holding(g[o]) => o # k /\ Holding(h[o]) /\ (Failed(g[o]) <=> Failed(h[o]))
      /\ DOMAIN g = DOMAIN h
  BY DEF Given, Alike, Holding, Failed
<1>0. /\ g \in Seq(ObjectType) /\ Len(g) = Len(h) /\ k \in DOMAIN h /\ Holding(h[k]) /\ ObjectOK(g[k])
      /\ \A o \in DOMAIN h : h[o].freed = 1 \/ Failed(h[o]) => g[o].rc = h[o].rc
      /\ \A o \in DOMAIN h : o # k => Alike(h[o], g[o])
  BY DEF Given
<1>3. CountsWith(g, H, c, t)
  <2>1. Owned(h[k]) = h[k].refs
    BY <1>0 DEF Owned
  <2>2. t \in Seq(Nat) /\ \A o \in DOMAIN h : g[o].rc = h[o].rc - Occurrences(h[k].refs, o) + Occurrences(t, o)
    BY DEF Given
  <2>3. \A o \in DOMAIN h : g[o].rc = h[o].rc - Occurrences(Owned(h[k]), o) + Occurrences(t, o)
    BY <2>1, <2>2
  <2>4. h \in Seq(ObjectType) /\ CountsWith(h, H, c, <<>>) /\ DOMAIN g = DOMAIN h /\ ~ Holding(g[k])
    BY <1>1, <1>2
  <2> QED
    BY <1>0, <2>2, <2>3, <2>4, CountsLetGo
<1>4. Objects(g)
  <2>1. ASSUME NEW o \in DOMAIN h, o # k PROVE ObjectOK(g[o])
    <3>1. h[o].freed = 1 => g[o].rc = 0
      BY <1>0, <1>1 DEF Objects, ObjectOK
    <3>2. Alike(h[o], g[o]) /\ ObjectOK(h[o])
      BY <1>0, <1>1, <2>1 DEF Objects
    <3> QED
      BY <3>1, <3>2, AlikeOK
  <2> QED
    BY <1>0, <1>2, <2>1 DEF Objects
<1>5. Links(g)
  <2> SUFFICES ASSUME NEW o \in DOMAIN h, NEW i \in DOMAIN h[o].refs, h[o].refs[i] # NoBase
               PROVE  h[o].refs[i] \in DOMAIN h /\ MayRefer(g[o].kind, g[h[o].refs[i]].kind)
    BY <1>2 DEF Links
  <2>2. h[o].refs[i] \in DOMAIN h /\ MayRefer(h[o].kind, h[h[o].refs[i]].kind)
    BY <1>1 DEF Links
  <2>3. g[o].kind = h[o].kind /\ g[h[o].refs[i]].kind = h[h[o].refs[i]].kind
    BY <1>2, <2>2
  <2> QED
    BY <2>2, <2>3
<1>6. Owners(m, g)
  <2>1. \A o \in DOMAIN g : \A b \in g[o].owns : b \in DOMAIN m /\ m[b].live
    BY <1>1, <1>2 DEF Owners
  <2>2. \A o, r \in DOMAIN g : \A b \in g[o].owns : b \in g[r].owns => o = r
    BY <1>1, <1>2 DEF Owners
  <2>3. ASSUME NEW b \in DOMAIN m, m[b].live PROVE \E o \in DOMAIN g : b \in g[o].owns
    <3>1. PICK o \in DOMAIN h : b \in h[o].owns
      BY <1>1, <2>3 DEF Owners
    <3> QED
      BY <1>2, <3>1
  <2> QED
    BY <2>1, <2>2, <2>3 DEF Owners
<1>7. Points(m, g)
  BY <1>1, <1>2 DEF Points
<1>8. Newest(g)
  <2>1. ASSUME NEW o \in DOMAIN g, Failed(g[o]) PROVE o = Len(g) /\ g[o].rc = 0
    <3>1. Failed(h[o]) /\ o \in DOMAIN h
      BY <1>2, <2>1 DEF Failed
    <3>2. o = Len(h) /\ h[o].rc = 0
      BY <1>1, <3>1 DEF Newest
    <3> QED
      BY <1>0, <3>1, <3>2
  <2> QED
    BY <2>1 DEF Newest
<1>9. Static(m, g)
  BY <1>0, <1>1, <1>4, <1>5, <1>6, <1>7, <1>8 DEF Static
<1>10. H \subseteq DOMAIN g /\ Calling(g, H, c)
  BY <1>1, <1>2 DEF Calling
<1>11. OlderIf(g)
  <2>1. ASSUME Older(h) PROVE Older(g)
    <3>1. ASSUME NEW o \in DOMAIN g, NEW i \in DOMAIN g[o].refs, Holding(g[o]), g[o].kind # "Matrix",
                 g[o].refs[i] # NoBase
          PROVE  /\ g[o].refs[i] < o
                 /\ g[g[o].refs[i]].kind = "Matrix" =>
                      \A j \in DOMAIN g[g[o].refs[i]].refs : g[g[o].refs[i]].refs[j] < o
      <4>1. Holding(h[o]) /\ h[o].refs = g[o].refs /\ h[o].kind # "Matrix" /\ h[o].refs[i] \in DOMAIN h
        BY <1>0, <1>1, <1>2, <3>1 DEF Links
      <4>2. /\ h[o].refs[i] < o
            /\ h[h[o].refs[i]].kind = "Matrix" =>
                 \A j \in DOMAIN h[h[o].refs[i]].refs : h[h[o].refs[i]].refs[j] < o
        BY <1>2, <2>1, <3>1, <4>1 DEF Older
      <4> QED
        BY <1>2, <4>1, <4>2
    <3> QED
      BY <3>1 DEF Older
  <2> QED
    BY <2>1 DEF Loose, OlderIf
<1>12. ASSUME ~ Reassigns, ~ Fleeting PROVE Kept(m, g) /\ NotFleeting(g, c)
  <2>1. Kept(m, h) /\ NotFleeting(h, c)
    BY <1>12 DEF Loose, KeptIf
  <2>2. Kept(m, g)
    <3> SUFFICES ASSUME NEW o \in DOMAIN g, NEW b \in DOMAIN m, Holding(g[o]), PointsTo(g[o], b)
                 PROVE  /\ m[b].live
                        /\ ~ Failed(g[o]) =>
                             b \in g[o].owns \/ \E i \in DOMAIN g[o].refs :
                                                  g[o].refs[i] # NoBase /\ Covers(g, g[o].refs[i], b)
      BY DEF Kept
    <3>1. Holding(h[o]) /\ PointsTo(h[o], b) /\ (Failed(g[o]) <=> Failed(h[o])) /\ o \in DOMAIN h
      BY <1>2 DEF PointsTo
    <3>2. ASSUME NEW i \in DOMAIN h[o].refs, h[o].refs[i] # NoBase, Covers(h, h[o].refs[i], b)
          PROVE  Covers(g, h[o].refs[i], b)
      <4>1. h[o].refs[i] \in DOMAIN h
        BY <1>1, <3>1, <3>2 DEF Links
      <4>2. /\ DOMAIN h \subseteq DOMAIN g
            /\ \A q \in DOMAIN h : g[q].refs = h[q].refs /\ g[q].kind = h[q].kind /\ g[q].bufs = h[q].bufs
        BY <1>2
      <4> QED
        BY <1>1, <3>2, <4>1, <4>2, CoversAlike
    <3> QED
      BY <1>2, <2>1, <3>1, <3>2 DEF Kept
  <2>3. ASSUME NEW o \in DOMAIN g, NEW i \in DOMAIN g[o].refs, g[o].kind = "Producer"
        PROVE  g[g[o].refs[i]].kind = "Tensor"
    <3>1. o \in DOMAIN h /\ g[o].refs = h[o].refs /\ h[o].kind = "Producer"
      BY <1>2, <2>3
    <3>2. h[o].refs[i] \in DOMAIN h
      BY <1>1, <2>3, <3>1, ThroughIsNotNull
    <3>3. h[h[o].refs[i]].kind = "Tensor"
      BY <2>1, <2>3, <3>1 DEF NotFleeting
    <3> QED
      BY <1>2, <3>1, <3>2, <3>3
  <2>4. ASSUME c # <<>> PROVE g[c[1].cap].bufs = g[Source(g, c[1].obj)].bufs
    <3>1. c[1].obj \in DOMAIN h /\ c[1].obj \in H
      BY <1>1, <2>4 DEF Calling
    <3>2. h[c[1].obj].freed = 0
      <4>1. <<>> \in Seq(Nat)
        OBVIOUS
      <4> QED
        BY <1>1, <3>1, <4>1, AliveWith
    <3>3. Source(h, c[1].obj) \in DOMAIN h /\ c[1].cap \in DOMAIN h
      BY <1>1, <2>4, <3>2, SourceTyped
    <3>4. Source(g, c[1].obj) = Source(h, c[1].obj)
      BY <1>2, <3>1 DEF Source
    <3> QED
      BY <1>2, <2>1, <2>4, <3>3, <3>4 DEF NotFleeting
  <2> QED
    BY <2>2, <2>3, <2>4 DEF NotFleeting
<1> QED
  BY <1>3, <1>9, <1>10, <1>11, <1>12 DEF Loose, KeptIf

\* One field of an object.
LEMMA OneField ==
  ASSUME NEW o \in ObjectType, NEW n \in Nat, NEW r \in Seq(Nat), NEW u \in Seq(BufferType), NEW w \in SUBSET Nat
  PROVE  /\ [o EXCEPT !.name = "used"] \in ObjectType /\ [o EXCEPT !.list = n] \in ObjectType
         /\ [o EXCEPT !.ctx = n] \in ObjectType /\ [o EXCEPT !.rc = n] \in ObjectType
         /\ [o EXCEPT !.freed = n] \in ObjectType /\ [o EXCEPT !.refs = r] \in ObjectType
         /\ [o EXCEPT !.bufs = u] \in ObjectType /\ [o EXCEPT !.owns = w] \in ObjectType
<1>1. [o EXCEPT !.name = "used"] \in ObjectType
  BY DEF ObjectType
<1>2. [o EXCEPT !.list = n] \in ObjectType
  BY DEF ObjectType
<1>3. [o EXCEPT !.ctx = n] \in ObjectType
  BY DEF ObjectType
<1>4. [o EXCEPT !.rc = n] \in ObjectType
  <2>1. n \in Int
    OBVIOUS
  <2> QED
    BY <2>1 DEF ObjectType
<1>5. [o EXCEPT !.freed = n] \in ObjectType
  BY DEF ObjectType
<1>6. [o EXCEPT !.refs = r] \in ObjectType
  BY DEF ObjectType
<1>7. [o EXCEPT !.bufs = u] \in ObjectType
  BY DEF ObjectType
<1>8. [o EXCEPT !.owns = w] \in ObjectType
  BY DEF ObjectType
<1> QED
  BY <1>1, <1>2, <1>3, <1>4, <1>5, <1>6, <1>7, <1>8

\* The fields of a capsule that was consumed.
LEMMA UsedFields ==
  ASSUME NEW o \in ObjectType
  PROVE  LET p == [o EXCEPT !.name = "used"]
         IN  /\ p \in ObjectType /\ p.kind = o.kind /\ p.bufs = o.bufs /\ p.refs = o.refs
             /\ p.owns = o.owns /\ p.rc = o.rc /\ p.freed = o.freed /\ p.name = "used"
             /\ p.list = o.list /\ p.ctx = o.ctx
BY DEF ObjectType

LEMMA LooseConsumed ==
  ASSUME NEW m, NEW h, NEW H, NEW c, NEW k \in DOMAIN h, Loose(m, h, H, c, <<>>),
         h[k].kind = "DlCapsule", Holding(h[k])
  PROVE  LET g == [h EXCEPT ![k].name = "used"]
         IN  /\ Loose(m, g, H, c, h[k].refs) /\ g \in Seq(ObjectType) /\ Len(g) = Len(h)
             /\ DOMAIN g = DOMAIN h /\ g[k].kind = "DlCapsule"
             /\ \A o \in DOMAIN h : o # k => g[o] = h[o]
<1> DEFINE p == [h[k] EXCEPT !.name = "used"]
           g == [h EXCEPT ![k].name = "used"]
<1>1. h \in Seq(ObjectType) /\ Objects(h)
  BY DEF Loose, Static
<1>2. h[k] \in ObjectType /\ ObjectOK(h[k])
  BY <1>1 DEF Objects
<1>3. /\ p \in ObjectType /\ p.kind = h[k].kind /\ p.bufs = h[k].bufs /\ p.refs = h[k].refs
      /\ p.owns = h[k].owns /\ p.rc = h[k].rc /\ p.freed = h[k].freed /\ p.name = "used"
      /\ p.list = h[k].list /\ p.ctx = h[k].ctx
  BY <1>2, UsedFields
<1>4. g = [h EXCEPT ![k] = p]
  OBVIOUS
<1> HIDE DEF p
<1>5. /\ g \in Seq(ObjectType) /\ Len(g) = Len(h) /\ DOMAIN g = DOMAIN h
      /\ g[k] = p /\ \A o \in DOMAIN h : o # k => g[o] = h[o]
  BY <1>1, <1>3, <1>4
<1> HIDE DEF g
<1>6. ObjectOK(p)
  BY <1>2, <1>3 DEF ObjectOK
<1>7. h[k].refs \in Seq(Nat)
  BY <1>2 DEF ObjectType
<1>8. ASSUME NEW o \in DOMAIN h
      PROVE  g[o].rc = h[o].rc /\ g[o].rc = h[o].rc - Occurrences(h[k].refs, o) + Occurrences(h[k].refs, o)
  <2>1. h[o] \in ObjectType
    BY <1>1
  <2>2. h[o].rc \in Int /\ Occurrences(h[k].refs, o) \in Nat
    BY <1>7, <2>1, OccurrencesFinite DEF ObjectType
  <2>3. g[o].rc = h[o].rc
    BY <1>3, <1>5
  <2> QED
    BY <2>2, <2>3
<1>9. \A o \in DOMAIN h : o # k => Alike(h[o], g[o])
  BY <1>5 DEF Alike
<1>10. /\ g[k].kind = h[k].kind /\ g[k].bufs = h[k].bufs /\ g[k].refs = h[k].refs
       /\ g[k].owns = h[k].owns /\ g[k].freed = h[k].freed /\ g[k].name = "used" /\ ObjectOK(g[k])
  BY <1>3, <1>5, <1>6
<1>11. \A o \in DOMAIN h : h[o].freed = 1 \/ Failed(h[o]) => g[o].rc = h[o].rc
  BY <1>8
<1>12. \A o \in DOMAIN h : g[o].rc = h[o].rc - Occurrences(h[k].refs, o) + Occurrences(h[k].refs, o)
  BY <1>8
<1>13. g \in Seq(ObjectType) /\ DOMAIN g = DOMAIN h /\ Len(g) = Len(h)
  BY <1>5
<1>14. Given(h, g, k, h[k].refs)
  BY <1>7, <1>9, <1>10, <1>11, <1>12, <1>13 DEF Given
<1>15. Loose(m, g, H, c, h[k].refs)
  BY <1>14, LooseGiven
<1> QED
  BY <1>3, <1>5, <1>15 DEF g

LEMMA from_dlpack_Step ==
  ASSUME IInv, NEW c \in Named({"DlCapsule"}), from_dlpack(c)
  PROVE  IInv'
<1> DEFINE g == [heap EXCEPT ![c].name = "used"]
           x == heap[c].refs[1]
           refs == heap[c].refs
           p == Object("Array", heap[x].bufs, refs, {})
           n == Len(heap) + 1
<1>1. /\ c \in DOMAIN heap /\ heap[c].kind = "DlCapsule" /\ heap[c].freed = 0 /\ ObjectOK(heap[c])
      /\ refs \in Seq(Nat)
  BY NamedKind
<1>2. /\ Loose(mem, heap, held, call, <<>>) /\ Static(mem, heap) /\ NotFailed(heap)
      /\ heap \in Seq(ObjectType) /\ held \subseteq DOMAIN heap
  BY RunningNotFailed DEF IInv, Loose, Static, from_dlpack, ProgramRuns
<1>3. Holding(heap[c]) /\ Len(refs) = 1 /\ x # NoBase
  <2>1. Len(refs) = 1
    BY <1>1 DEF ObjectOK
  <2>2. 1 \in DOMAIN refs
    BY <1>1, <2>1
  <2> QED
    BY <1>1, <2>1, <2>2 DEF Holding, from_dlpack, ObjectOK
<1>4. 1 \in DOMAIN refs
  BY <1>1, <1>3
<1>5. x \in DOMAIN heap /\ heap[x].kind = "Managed" /\ Holding(heap[x]) /\ heap[x].rc > 0
  <2>1. /\ x \in DOMAIN heap /\ MayRefer("DlCapsule", heap[x].kind) /\ heap[x].rc > 0
        /\ heap[x].kind \notin {"DlCapsule", "Native"} => Holding(heap[x])
    BY <1>1, <1>2, <1>3, <1>4, ReferredAlive
  <2> QED
    BY <2>1 DEF MayRefer
<1>6. /\ Loose(mem, g, held, call, refs) /\ g \in Seq(ObjectType) /\ Len(g) = Len(heap)
      /\ DOMAIN g = DOMAIN heap /\ g[c].kind = "DlCapsule"
      /\ \A o \in DOMAIN heap : o # c => g[o] = heap[o]
  BY <1>1, <1>2, <1>3, LooseConsumed
<1>7. heap' = Append(g, p) /\ held' = held \cup {Len(heap')} /\ mem' = mem /\ call' = call
      /\ handler' = handler /\ saved' = saved
  BY DEF from_dlpack
<1>8. x # c
  BY <1>1, <1>5
<1>9. refs[1] = x
  OBVIOUS
<1> HIDE DEF g, x, refs
<1>10. g[x] = heap[x] /\ x \in DOMAIN g
  BY <1>5, <1>6, <1>8
<1>11. g[x].bufs \in Seq(BufferType) /\ Borrows(mem, g, "Array", g[x].bufs, refs)
  BY <1>1, <1>3, <1>5, <1>6, <1>9, <1>10, OverManaged
<1>12. Static(mem, g) /\ "Array" \in Kinds
  BY <1>6 DEF Loose, Kinds
<1>13. Made(mem, mem, g, p)
  BY <1>1, <1>10, <1>11, <1>12, NewBorrower
<1>14. p.refs = refs
  BY DEF Object
<1> HIDE DEF p
<1>15. NotFailed(g)
  <2>1. \A o \in DOMAIN g : g[o] = heap[o] \/ g[o].kind = "DlCapsule"
    BY <1>6
  <2> QED
    BY <1>2, <1>6, <2>1 DEF NotFailed, Failed
<1>16. p \in ObjectType
  BY <1>13 DEF Made, NewObject
<1>17. /\ <<n>> \in Seq(Nat) /\ n \notin DOMAIN g /\ n \notin held /\ n = Len(g) + 1
       /\ n \in DOMAIN Append(g, p) /\ Len(Append(g, p)) = n
  BY <1>2, <1>6, <1>16
<1> HIDE DEF n
<1>18. 1 = Occurrences(<<n>>, n) /\ \A y \in DOMAIN g : Occurrences(<<n>>, y) = 0
  BY <1>17, OccurrencesOfOne
<1>19. Loose(mem, Append(g, p), held, call, <<n>>)
  BY <1>6, <1>13, <1>14, <1>15, <1>17, <1>18, LooseAppend DEF Made
<1>20. Loose(mem, Append(g, p), held \cup {n}, call, <<>>)
  BY <1>17, <1>19, LooseHold
<1>21. Loose(mem', heap', held', call', <<>>)
  BY <1>7, <1>17, <1>20
<1>22. Handlers'
  BY <1>7 DEF IInv, Handlers
<1> QED
  BY <1>21, <1>22 DEF IInv

-----------------------------------------------------------------------------
\* The native protocol

\* The capsule that failed in the making.
LEMMA FailedFields ==
  ASSUME NEW bufs \in Seq(BufferType), NEW refs \in Seq(Nat)
  PROVE  LET p == [Object("Native", bufs, refs, {}) EXCEPT !.refs = <<>>, !.rc = 0, !.ctx = 1]
         IN  /\ p \in ObjectType /\ p.kind = "Native" /\ p.bufs = bufs /\ p.refs = <<>> /\ p.owns = {}
             /\ p.rc = 0 /\ p.freed = 0 /\ p.name = "fresh" /\ p.list = 0 /\ p.ctx = 1
<1> DEFINE q == Object("Native", bufs, refs, {})
           none == <<>>
           p == [q EXCEPT !.refs = none, !.rc = 0, !.ctx = 1]
<1>0. none \in Seq(Nat)
  OBVIOUS
<1> HIDE DEF none
<1>1. "Native" \in Kinds /\ {} \in SUBSET Nat
  BY DEF Kinds
<1>2. Fresh(q)
  BY <1>1, ObjectFresh
<1>3. q.kind = "Native" /\ q.bufs = bufs /\ q.owns = {}
  BY DEF Object
<1> HIDE DEF q
<1>4. q \in ObjectType /\ q.freed = 0 /\ q.name = "fresh" /\ q.list = 0
  BY <1>2 DEF Fresh, Holding
<1>5. p \in ObjectType
  <2> DEFINE q1 == [q EXCEPT !.refs = none]
             q2 == [q1 EXCEPT !.rc = 0]
             q3 == [q2 EXCEPT !.ctx = 1]
  <2>1. p = q3
    OBVIOUS
  <2>2. 0 \in Nat /\ 1 \in Nat /\ <<>> \in Seq(BufferType) /\ {} \in SUBSET Nat
    OBVIOUS
  <2>3. q1 \in ObjectType
    BY <1>0, <1>4, <2>2, OneField
  <2> HIDE DEF q1
  <2>4. q2 \in ObjectType
    BY <1>0, <2>2, <2>3, OneField
  <2> HIDE DEF q2
  <2>5. q3 \in ObjectType
    BY <1>0, <2>2, <2>4, OneField
  <2> HIDE DEF p, q3
  <2> QED
    BY <2>1, <2>5
<1>6. /\ p.kind = q.kind /\ p.bufs = q.bufs /\ p.refs = none /\ p.owns = q.owns /\ p.rc = 0
      /\ p.freed = q.freed /\ p.name = q.name /\ p.list = q.list /\ p.ctx = 1
  BY <1>4 DEF ObjectType
<1> HIDE DEF p
<1> QED
  BY <1>3, <1>4, <1>5, <1>6 DEF p, q, none

LEMMA hurray_fails_Step ==
  ASSUME IInv, NEW t \in Tensors, hurray_fails(t)
  PROVE  IInv'
<1> DEFINE p == [Native(t) EXCEPT !.refs = <<>>, !.rc = 0, !.ctx = 1]
           none == <<>>
<1>1. /\ t \in DOMAIN heap /\ t \in Nat /\ heap[t].kind = "Tensor" /\ Holding(heap[t])
      /\ heap[t].bufs \in Seq(BufferType)
  BY NamedKind DEF Tensors
<1>2. /\ Loose(mem, heap, held, call, none) /\ Static(mem, heap) /\ NotFailed(heap)
      /\ heap \in Seq(ObjectType) /\ mem \in Seq(BlockType) /\ none \in Seq(Nat)
  BY RunningNotFailed DEF IInv, Loose, Static, hurray_fails, ProgramRuns
<1>3. /\ p \in ObjectType /\ p.kind = "Native" /\ p.bufs = heap[t].bufs /\ p.refs = none /\ p.owns = {}
      /\ p.rc = 0 /\ p.freed = 0 /\ p.name = "fresh" /\ p.list = 0 /\ p.ctx = 1
  <2>1. <<t>> \in Seq(Nat)
    BY <1>1
  <2> QED
    BY <1>1, <2>1, FailedFields DEF Native
<1>4. /\ heap' = Append(heap, p) /\ mem' = mem /\ held' = held /\ call' = call
      /\ handler' = handler /\ saved' = saved
  BY DEF hurray_fails
<1>5. DOMAIN none = {} /\ Len(none) = 0 /\ \A x : Occurrences(none, x) = 0
  <2>1. DOMAIN none = {} /\ Len(none) = 0
    OBVIOUS
  <2> HIDE DEF none
  <2> QED
    BY <2>1, OccurrencesNone
<1> HIDE DEF p
<1>6. Holding(p) /\ Failed(p)
  BY <1>3 DEF Holding, Failed
<1> HIDE DEF none
<1>7. ObjectOK(p)
  BY <1>3, <1>5, <1>6 DEF ObjectOK
<1>8. ASSUME NEW i \in DOMAIN p.bufs
      PROVE  /\ p.bufs[i].block \in DOMAIN mem /\ Declares("Native", p.bufs[i], mem[p.bufs[i].block])
             /\ ~ Reassigns /\ ~ Fleeting => mem[p.bufs[i].block].live
  BY <1>1, <1>2, <1>3, AllOf, Pointed
<1>9. NewObject(mem, mem, heap, p)
  BY <1>2, <1>3, <1>5, <1>7, <1>8 DEF NewObject
<1>10. Keeps(mem, heap, p)
  BY <1>3, <1>5, <1>6, <1>8 DEF Keeps, KeptNew, PointsTo
<1>11. Loose(mem, Append(heap, p), held, call, none)
  BY <1>2, <1>3, <1>5, <1>6, <1>9, <1>10, LooseAppend
<1>12. Loose(mem', heap', held', call', none)
  BY <1>4, <1>11
<1>13. Handlers'
  BY <1>4 DEF IInv, Handlers
<1> QED
  BY <1>12, <1>13 DEF IInv, none

\* from_hurray has a capsule.
LEMMA from_hurray_Step ==
  ASSUME IInv, NEW obj \in Named({"Tensor", "Producer"}), from_hurray(obj)
  PROVE  IInv'
<1> DEFINE source == IF heap[obj].kind = "Tensor" THEN obj ELSE heap[obj].refs[1]
           cached == heap[source].kind = "Native"
           n == Len(heap) + 1
           cap == IF cached THEN source ELSE n
           c == <<[obj |-> obj, cap |-> cap]>>
           p == Native(source)
<1>1. /\ obj \in held /\ obj \in DOMAIN heap /\ obj \in Nat /\ obj # NoBase /\ Holding(heap[obj])
      /\ heap[obj].kind \in {"Tensor", "Producer"} /\ heap[obj].rc > 0
      /\ heap[obj].refs \in Seq(Nat) /\ ObjectOK(heap[obj])
  BY NamedKind
<1>2. /\ Loose(mem, heap, held, call, <<>>) /\ Static(mem, heap) /\ NotFailed(heap)
      /\ heap \in Seq(ObjectType) /\ held \subseteq DOMAIN heap /\ call = <<>>
  BY RunningNotFailed DEF IInv, Loose, Static, from_hurray, ProgramRuns
<1>3. /\ source \in DOMAIN heap /\ source \in Nat /\ source # NoBase /\ heap[source].freed = 0
      /\ heap[source].rc > 0 /\ heap[source].kind \in {"Tensor", "Native"}
      /\ heap[source].kind = "Tensor" => Holding(heap[source])
  <2>1. CASE heap[obj].kind = "Tensor"
    BY <1>1, <2>1 DEF Holding
  <2>2. CASE heap[obj].kind = "Producer"
    <3>1. Len(heap[obj].refs) = 1
      BY <1>1, <2>2 DEF ObjectOK, Holding
    <3>2. 1 \in DOMAIN heap[obj].refs
      BY <1>1, <3>1
    <3>3. heap[obj].refs[1] # NoBase
      BY <1>1, <2>2, <3>2 DEF ObjectOK
    <3>4. LET r == heap[obj].refs[1]
          IN  /\ r \in DOMAIN heap /\ r \in Nat /\ MayRefer(heap[obj].kind, heap[r].kind)
              /\ heap[r].freed = 0 /\ heap[r].rc > 0
              /\ heap[r].kind \notin {"DlCapsule", "Native"} => Holding(heap[r])
      BY <1>1, <1>2, <3>2, <3>3, ReferredAlive
    <3> QED
      BY <2>2, <3>3, <3>4 DEF MayRefer
  <2> QED
    BY <1>1, <2>1, <2>2
<1>4. source = Source(heap, obj)
  BY DEF Source
<1>5. /\ heap' = IF cached THEN Counted(heap, <<source>>, 1) ELSE Append(Counted(heap, <<source>>, 1), p)
      /\ call' = <<[obj |-> obj, cap |-> IF cached THEN source ELSE Len(heap')]>>
      /\ mem' = mem /\ held' = held /\ handler' = handler /\ saved' = saved
  BY DEF from_hurray
<1>6. c # <<>> /\ c[1].obj = obj /\ c[1].cap = cap
  OBVIOUS
<1> HIDE DEF source, c
<1>7. <<source>> \in Seq(Nat) /\ Alive(heap, <<source>>)
  BY <1>3 DEF Alive
<1>8. ASSUME cached PROVE Loose(mem', heap', held', call', <<>>)
  <2> DEFINE g == Counted(heap, <<source>>, 1)
  <2>1. Loose(mem, g, held, <<>>, <<source>>)
    BY <1>2, <1>7, LooseUp
  <2>2. Recounted(heap, g, <<source>>, 1)
    BY <1>2, <1>7, CountedRecounts
  <2>3. heap' = g /\ call' = c /\ cap = source
    BY <1>5, <1>8 DEF c
  <2> HIDE DEF g
  <2>4. DOMAIN g = DOMAIN heap /\ \A o \in DOMAIN heap : g[o].kind = heap[o].kind /\ g[o].refs = heap[o].refs
    BY <2>2 DEF Recounted, Alike
  <2>5. Calling(g, held, c)
    BY <1>1, <1>3, <1>6, <1>8, <2>3, <2>4 DEF Calling
  <2>6. Source(g, obj) = source
    BY <1>1, <1>4, <2>4 DEF Source
  <2>7. Loose(mem, g, held, c, <<>>)
    BY <1>6, <2>1, <2>3, <2>5, <2>6, LooseCall
  <2> QED
    BY <1>5, <2>3, <2>7
<1>9. ASSUME ~ cached PROVE Loose(mem', heap', held', call', <<>>)
  <2> DEFINE g == Append(Counted(heap, <<source>>, 1), p)
  <2>1. heap[source].kind = "Tensor" /\ Holding(heap[source]) /\ "Native" \in Kinds
    BY <1>3, <1>9 DEF Kinds
  <2>2. heap[source].bufs \in Seq(BufferType) /\ Borrows(mem, heap, "Native", heap[source].bufs, <<source>>)
    BY <1>2, <1>3, <2>1, NativeBorrows
  <2>3. Made(mem, mem, heap, p)
    BY <1>2, <1>7, <2>1, <2>2, NewBorrower DEF Native
  <2>4. p.refs = <<source>> /\ p.kind = "Native" /\ p.bufs = heap[source].bufs
    BY DEF Native, Object
  <2> HIDE DEF p
  <2>5. g = Append(Counted(heap, p.refs, 1), p)
    BY <2>4
  <2> HIDE DEF g
  <2>6. /\ Loose(mem, g, held, <<>>, <<n>>) /\ Len(g) = n /\ n \in DOMAIN g /\ g[n] = p
        /\ \A o \in DOMAIN heap : o \in DOMAIN g /\ Alike(heap[o], g[o])
    <3> DEFINE f == Append(Counted(heap, p.refs, 1), p)
    <3>1. /\ NewObject(mem, mem, heap, p) /\ Keeps(mem, heap, p) /\ Alive(heap, p.refs)
          /\ Holding(p) /\ p.rc = 1
      BY <2>3 DEF Made
    <3>2. /\ Loose(mem, f, held, call, <<n>>) /\ Len(f) = n /\ n \in DOMAIN f /\ f[n] = p
          /\ \A o \in DOMAIN heap : o \in DOMAIN f /\ Alike(heap[o], f[o])
      BY <1>2, <3>1, MadeLoose
    <3> HIDE DEF f
    <3>3. g = f
      BY <2>5 DEF f
    <3> QED
      BY <1>2, <3>2, <3>3
  <2>7. heap' = g /\ cap = n
    BY <1>5, <1>9 DEF g
  <2>8. call' = c
    BY <1>5, <1>9, <2>6, <2>7 DEF c
  <2> HIDE DEF n, cap, cached
  <2>9. \A o \in DOMAIN heap : /\ o \in DOMAIN g /\ g[o].kind = heap[o].kind /\ g[o].refs = heap[o].refs
                               /\ g[o].bufs = heap[o].bufs
    BY <2>6 DEF Alike
  <2>10. Calling(g, held, c)
    BY <1>1, <1>6, <2>4, <2>6, <2>7, <2>9 DEF Calling
  <2>11. Source(g, obj) = source
    BY <1>1, <1>4, <2>9 DEF Source
  <2>12. g[n].bufs = g[source].bufs
    BY <1>3, <2>4, <2>6, <2>9
  <2>13. Loose(mem, g, held, c, <<>>)
    BY <1>6, <2>6, <2>7, <2>10, <2>11, <2>12, LooseCall
  <2> QED
    BY <1>5, <2>7, <2>8, <2>13
<1>10. Loose(mem', heap', held', call', <<>>)
  BY <1>8, <1>9
<1>11. Handlers'
  BY <1>5 DEF IInv, Handlers
<1> QED
  BY <1>10, <1>11 DEF IInv

\* The fields of a capsule that from_hurray has taken.
LEMMA TakenFields ==
  ASSUME NEW o \in ObjectType
  PROVE  LET p == [o EXCEPT !.name = "used", !.list = @ + 1, !.ctx = @ + 1]
         IN  /\ p \in ObjectType /\ p.kind = o.kind /\ p.bufs = o.bufs /\ p.refs = o.refs
             /\ p.owns = o.owns /\ p.rc = o.rc /\ p.freed = o.freed /\ p.name = "used"
             /\ p.list = o.list + 1 /\ p.ctx = o.ctx + 1
<1> DEFINE a == o.list + 1
           b == o.ctx + 1
           p == [o EXCEPT !.name = "used", !.list = a, !.ctx = b]
           q1 == [o EXCEPT !.name = "used"]
           q2 == [q1 EXCEPT !.list = a]
           q3 == [q2 EXCEPT !.ctx = b]
<1>1. a \in Nat /\ b \in Nat
  <2>1. o.list \in Nat /\ o.ctx \in Nat
    BY DEF ObjectType
  <2> QED
    BY <2>1
<1>2. p = [o EXCEPT !.name = "used", !.list = @ + 1, !.ctx = @ + 1]
  OBVIOUS
<1> HIDE DEF a, b
<1>3. p = q3
  OBVIOUS
<1>4. <<>> \in Seq(Nat) /\ <<>> \in Seq(BufferType) /\ {} \in SUBSET Nat
  OBVIOUS
<1>5. /\ p.kind = o.kind /\ p.bufs = o.bufs /\ p.refs = o.refs
      /\ p.owns = o.owns /\ p.rc = o.rc /\ p.freed = o.freed /\ p.name = "used"
      /\ p.list = a /\ p.ctx = b
  BY DEF ObjectType
<1>6. q1 \in ObjectType
  BY <1>1, <1>4, OneField
<1> HIDE DEF q1
<1>7. q2 \in ObjectType
  BY <1>1, <1>4, <1>6, OneField
<1> HIDE DEF q2
<1>8. q3 \in ObjectType
  BY <1>1, <1>4, <1>7, OneField
<1> HIDE DEF p, q3
<1> QED
  BY <1>2, <1>3, <1>5, <1>8 DEF a, b

\* from_hurray takes the capsule.
LEMMA LooseTaken ==
  ASSUME NEW m, NEW h, NEW H, NEW c, NEW k \in DOMAIN h, Loose(m, h, H, c, <<>>), NotFailed(h),
         h[k].kind = "Native", Holding(h[k])
  PROVE  LET g == take(h, k)
         IN  /\ Loose(m, g, H, c, <<>>) /\ NotFailed(g) /\ DOMAIN g = DOMAIN h /\ Len(g) = Len(h)
             /\ \A o \in DOMAIN h : /\ g[o].kind = h[o].kind /\ g[o].bufs = h[o].bufs
                                    /\ g[o].refs = h[o].refs
<1> DEFINE refs == h[k].refs
           none == <<>>
           f == Counted(h, refs, -1)
           p == [f[k] EXCEPT !.name = "used", !.list = @ + 1, !.ctx = @ + 1]
           g == take(h, k)
<1>1. /\ h \in Seq(ObjectType) /\ Objects(h) /\ CountsWith(h, H, c, none) /\ none \in Seq(Nat) /\ Links(h)
      /\ Newest(h)
  BY DEF Loose, Static
<1>2. h[k] \in ObjectType /\ ObjectOK(h[k])
  BY <1>1 DEF Objects
<1>3. refs \in Seq(Nat) /\ refs # <<>> /\ h[k].ctx \in Nat
  BY <1>2 DEF ObjectType, NotFailed, Failed
<1>4. Recounted(h, f, refs, -1)
  BY <1>1, <1>3, CountedRecounts
<1>5. g = [f EXCEPT ![k] = p]
  BY DEF take
<1> HIDE DEF f, g
<1>6. /\ f \in Seq(ObjectType) /\ Len(f) = Len(h) /\ DOMAIN f = DOMAIN h
      /\ \A o \in DOMAIN h : Alike(h[o], f[o]) /\ f[o].rc = h[o].rc + (-1) * Occurrences(refs, o)
  BY <1>4 DEF Recounted
<1>7. f[k] \in ObjectType
  BY <1>6
<1>8. /\ p \in ObjectType /\ p.kind = f[k].kind /\ p.bufs = f[k].bufs /\ p.refs = f[k].refs
      /\ p.owns = f[k].owns /\ p.rc = f[k].rc /\ p.freed = f[k].freed /\ p.name = "used"
      /\ p.list = f[k].list + 1 /\ p.ctx = f[k].ctx + 1
  BY <1>7, TakenFields
<1> HIDE DEF p
<1>9. /\ g \in Seq(ObjectType) /\ Len(g) = Len(h) /\ DOMAIN g = DOMAIN h
      /\ g[k] = p /\ \A o \in DOMAIN h : o # k => g[o] = f[o]
  BY <1>5, <1>6, <1>8
<1>10. /\ p.kind = h[k].kind /\ p.bufs = h[k].bufs /\ p.refs = h[k].refs
       /\ p.owns = h[k].owns /\ p.freed = h[k].freed
       /\ p.list = h[k].list + 1 /\ p.ctx = h[k].ctx + 1
  BY <1>6, <1>8 DEF Alike
<1>11. h[k].list = 0 /\ h[k].ctx = 0 /\ h[k].freed = 0
  <2>1. h[k].list = 0 /\ h[k].ctx + Len(refs) = 1 /\ h[k].freed = 0
    BY <1>2 DEF ObjectOK, Holding
  <2>2. Len(refs) > 0
    BY <1>3
  <2>3. Len(refs) \in Nat
    BY <1>3
  <2> QED
    BY <1>3, <2>1, <2>2, <2>3
<1>12. p.list = 1 /\ p.ctx = 1
  BY <1>10, <1>11
<1>13. ObjectOK(p)
  BY <1>2, <1>8, <1>10, <1>11, <1>12 DEF ObjectOK, Holding
<1>14. ASSUME NEW o \in DOMAIN h PROVE g[o].rc = h[o].rc - Occurrences(refs, o) + Occurrences(none, o)
  <2>1. Occurrences(none, o) = 0
    <3>1. DOMAIN none = {}
      OBVIOUS
    <3> HIDE DEF none
    <3> QED
      BY <3>1, OccurrencesNone
  <2>2. h[o] \in ObjectType
    BY <1>1
  <2>3. h[o].rc \in Int /\ Occurrences(refs, o) \in Nat
    BY <1>3, <2>2, OccurrencesFinite DEF ObjectType
  <2>4. g[o].rc = h[o].rc + (-1) * Occurrences(refs, o)
    BY <1>6, <1>8, <1>9
  <2> QED
    BY <2>1, <2>3, <2>4
<1>15. ASSUME NEW o \in DOMAIN h, h[o].freed = 1 \/ Failed(h[o]) PROVE g[o].rc = h[o].rc
  <2>1. \A i \in DOMAIN refs : refs[i] # o
    <3> SUFFICES ASSUME NEW i \in DOMAIN refs, refs[i] = o PROVE FALSE
      OBVIOUS
    <3>1. Owning(h, k, i, o)
      BY DEF Owning
    <3>2. h[o].freed = 0 /\ h[o].rc > 0
      BY <1>1, <3>1, AliveWith
    <3>3. Failed(h[o]) => h[o].rc = 0
      BY <1>1 DEF Newest
    <3> QED
      BY <1>15, <3>2, <3>3
  <2>2. Occurrences(refs, o) = 0
    BY <2>1, OccurrencesNone
  <2>3. h[o] \in ObjectType
    BY <1>1
  <2>4. h[o].rc \in Int
    BY <2>3 DEF ObjectType
  <2>5. g[o].rc = h[o].rc + (-1) * Occurrences(refs, o)
    BY <1>6, <1>8, <1>9
  <2> QED
    BY <2>2, <2>4, <2>5
<1>16. \A o \in DOMAIN h : o # k => Alike(h[o], g[o])
  BY <1>6, <1>9
<1>17. /\ g[k].kind = h[k].kind /\ g[k].bufs = h[k].bufs /\ g[k].refs = h[k].refs
       /\ g[k].owns = h[k].owns /\ g[k].freed = h[k].freed /\ g[k].name = "used" /\ ObjectOK(g[k])
  BY <1>8, <1>9, <1>10, <1>13
<1> HIDE DEF none
<1>18. Given(h, g, k, none)
  BY <1>1, <1>9, <1>14, <1>15, <1>16, <1>17 DEF Given
<1>19. Loose(m, g, H, c, <<>>)
  <2>1. Loose(m, h, H, c, <<>>) /\ Given(h, g, k, <<>>)
    BY <1>18 DEF none
  <2> QED
    BY <2>1, LooseGiven
<1>20. NotFailed(g)
  BY <1>9, <1>16, <1>17 DEF NotFailed, Failed, Holding, Alike
<1>21. \A o \in DOMAIN h : g[o].kind = h[o].kind /\ g[o].bufs = h[o].bufs /\ g[o].refs = h[o].refs
  BY <1>16, <1>17 DEF Alike
<1> QED
  BY <1>9, <1>19, <1>20, <1>21 DEF g

\* The call ends, and its reference to the capsule with it.
LEMMA LooseLeaves ==
  ASSUME NEW m, NEW h, NEW H, NEW c, c # <<>>, Loose(m, h, H, c, <<>>)
  PROVE  LET g == Counted(h, <<c[1].cap>>, -1) IN Loose(m, g, H, <<>>, <<>>) /\ Len(g) = Len(h)
<1>1. h \in Seq(ObjectType) /\ c[1].cap \in DOMAIN h
  BY DEF Loose, Static, Calling
<1>2. <<c[1].cap>> \in Seq(Nat)
  BY <1>1
<1>3. Loose(m, h, H, <<>>, <<c[1].cap>>)
  BY LooseUncall
<1>4. Recounted(h, Counted(h, <<c[1].cap>>, -1), <<c[1].cap>>, -1)
  BY <1>1, <1>2, CountedRecounts
<1> QED
  BY <1>2, <1>3, <1>4, LooseDown DEF Recounted

\* The tensor that from_hurray makes of a capsule: the object that was asked keeps its bytes.
LEMMA TakenBorrows ==
  ASSUME NEW m, NEW h, NEW g, NEW H, NEW c, c # <<>>, Loose(m, h, H, c, <<>>), Loose(m, g, H, c, <<>>),
         Holding(h[c[1].cap]), DOMAIN g = DOMAIN h,
         \A o \in DOMAIN h : g[o].kind = h[o].kind /\ g[o].bufs = h[o].bufs /\ g[o].refs = h[o].refs
  PROVE  LET bufs == h[c[1].cap].bufs
             refs == base(c[1].obj, bufs)
         IN  bufs \in Seq(BufferType) /\ refs \in Seq(Nat) /\ Borrows(m, g, "Tensor", bufs, refs)
<1> DEFINE obj == c[1].obj
           cap == c[1].cap
           bufs == h[cap].bufs
           refs == base(obj, bufs)
<1>1. /\ h \in Seq(ObjectType) /\ Static(m, h) /\ cap \in DOMAIN h /\ h[cap].kind = "Native" /\ obj \in H
      /\ H \subseteq DOMAIN h /\ Calling(h, H, c) /\ h[obj].kind \in {"Tensor", "Producer"}
  BY DEF Loose, Static, Calling
<1>2. h[cap] \in ObjectType
  BY <1>1
<1>3. bufs \in Seq(BufferType)
  BY <1>2 DEF ObjectType
<1>4. /\ obj \in DOMAIN h /\ obj \in Nat /\ obj # NoBase /\ h[obj].freed = 0 /\ h[obj] \in ObjectType
  BY <1>1, NamedAlive
<1>5. g[obj].freed = 0 /\ g[obj].rc > 0
  BY <1>1, NamedAlive
<1>6. /\ DOMAIN refs = DOMAIN bufs /\ \A i \in DOMAIN refs : refs[i] = obj
      /\ refs \in Seq(Nat)
  BY <1>3, <1>4 DEF base
<1>7. ASSUME NEW i \in DOMAIN bufs
      PROVE  /\ bufs[i].block \in DOMAIN m /\ Declares("Tensor", bufs[i], m[bufs[i].block])
             /\ ~ Reassigns /\ ~ Fleeting => m[bufs[i].block].live
  <2>1. /\ bufs[i].block \in DOMAIN m /\ Declares(h[cap].kind, bufs[i], m[bufs[i].block])
        /\ ~ Reassigns /\ ~ Fleeting /\ Holding(h[cap]) => m[bufs[i].block].live
    BY <1>1, Pointed
  <2> QED
    BY <1>1, <2>1 DEF Declares
<1>8. ASSUME ~ Reassigns, ~ Fleeting, NEW i \in DOMAIN bufs
      PROVE  Covers(g, obj, bufs[i].block)
  <2> DEFINE s == Source(h, obj)
  <2>1. bufs = h[s].bufs
    BY <1>8 DEF Loose, KeptIf, NotFleeting
  <2>2. s \in DOMAIN h
    BY <1>1, <1>4, SourceTyped
  <2>3. PointsTo(g[s], bufs[i].block)
    <3> HIDE DEF s, bufs
    <3>1. g[s].bufs = bufs
      BY <2>1, <2>2
    <3> QED
      BY <3>1 DEF PointsTo
  <2>4. CASE h[obj].kind = "Tensor"
    BY <1>4, <2>3, <2>4 DEF Source, Covers
  <2>5. CASE h[obj].kind = "Producer"
    <3>1. ObjectOK(h[obj]) /\ h[obj].refs \in Seq(Nat)
      BY <1>1, <1>4 DEF Static, Objects, ObjectType
    <3>2. Len(h[obj].refs) = 1
      BY <1>4, <2>5, <3>1 DEF ObjectOK
    <3>3. 1 \in DOMAIN h[obj].refs /\ s = h[obj].refs[1]
      BY <2>5, <3>1, <3>2 DEF Source
    <3> HIDE DEF s
    <3>4. g[obj].refs = h[obj].refs /\ g[obj].kind = "Producer"
      BY <1>4, <2>5
    <3> QED
      BY <2>3, <3>3, <3>4 DEF Covers
  <2> QED
    BY <1>1, <2>4, <2>5
<1>9. g[obj].kind \in {"Tensor", "Producer"} /\ obj \in DOMAIN g
  BY <1>1, <1>4
<1> HIDE DEF obj, cap, bufs, refs
<1>10. Fits("Tensor", bufs, refs)
  BY DEF Fits
<1>11. Alive(g, refs)
  BY <1>5, <1>6, <1>9 DEF Alive
<1>12. \A i \in DOMAIN refs : refs[i] # NoBase => refs[i] \in DOMAIN g /\ MayRefer("Tensor", g[refs[i]].kind)
  BY <1>6, <1>9 DEF MayRefer
<1>13. ~ Reassigns /\ ~ Fleeting =>
         \A i \in DOMAIN bufs : \E j \in DOMAIN refs : refs[j] # NoBase /\ Covers(g, refs[j], bufs[i].block)
  BY <1>4, <1>6, <1>8
<1>14. Borrows(m, g, "Tensor", bufs, refs)
  BY <1>7, <1>10, <1>11, <1>12, <1>13 DEF Borrows
<1> QED
  BY <1>3, <1>6, <1>14 DEF obj, cap, bufs, refs

LEMMA from_hurray_takes_Step ==
  ASSUME IInv, from_hurray_takes
  PROVE  IInv'
<1> DEFINE obj == call[1].obj
           cap == call[1].cap
           bufs == heap[cap].bufs
           refs == base(obj, bufs)
           p == Object("Tensor", bufs, refs, {})
           g == take(heap, cap)
           none == <<>>
<1>1. /\ call # <<>> /\ Loose(mem, heap, held, call, <<>>) /\ NotFailed(heap) /\ mem' = mem
      /\ handler' = handler /\ saved' = saved
  BY RunningNotFailed DEF IInv, from_hurray_takes
<1>2. cap \in DOMAIN heap /\ heap[cap].kind = "Native" /\ heap[cap].freed = 0
  <2>1. /\ heap \in Seq(ObjectType) /\ Objects(heap) /\ CountsWith(heap, held, call, none) /\ none \in Seq(Nat)
        /\ Calling(heap, held, call)
    BY <1>1 DEF Loose, Static
  <2>2. cap \in DOMAIN heap /\ heap[cap].kind = "Native"
    BY <1>1, <2>1 DEF Calling
  <2> HIDE DEF none
  <2> QED
    BY <1>1, <2>1, <2>2, AliveWith
<1>3. Handlers'
  BY <1>1 DEF IInv, Handlers
<1>4. \/ Leaves(heap, cap) /\ held' = held
      \/ heap[cap].name = "fresh" /\ Leaves(g, cap) /\ held' = held
      \/ /\ heap[cap].name = "fresh"
         /\ Leaves(Append(Counted(g, p.refs, 1), p), cap)
         /\ held' = held \cup {Len(heap')}
  BY DEF from_hurray_takes
<1>5. ASSUME Leaves(heap, cap), held' = held
      PROVE  Loose(mem', heap', held', call', <<>>)
  BY <1>1, <1>5, LooseLeaves DEF Leaves
<1>6. ASSUME heap[cap].name = "fresh"
      PROVE  /\ Loose(mem, g, held, call, <<>>) /\ NotFailed(g) /\ DOMAIN g = DOMAIN heap
             /\ Len(g) = Len(heap) /\ Holding(heap[cap])
             /\ \A o \in DOMAIN heap : /\ g[o].kind = heap[o].kind /\ g[o].bufs = heap[o].bufs
                                       /\ g[o].refs = heap[o].refs
  <2>1. Holding(heap[cap])
    BY <1>2, <1>6 DEF Holding
  <2> QED
    BY <1>1, <1>2, <2>1, LooseTaken
<1> HIDE DEF g
<1>7. ASSUME heap[cap].name = "fresh", Leaves(g, cap), held' = held
      PROVE  Loose(mem', heap', held', call', <<>>)
  BY <1>1, <1>6, <1>7, LooseLeaves DEF Leaves
<1>8. ASSUME heap[cap].name = "fresh", Leaves(Append(Counted(g, p.refs, 1), p), cap),
             held' = held \cup {Len(heap')}
      PROVE  Loose(mem', heap', held', call', <<>>)
  <2> DEFINE f == Append(Counted(g, p.refs, 1), p)
             H == held \cup {Len(g) + 1}
  <2>1. bufs \in Seq(BufferType) /\ refs \in Seq(Nat) /\ Borrows(mem, g, "Tensor", bufs, refs)
    BY <1>1, <1>6, <1>8, TakenBorrows
  <2>2. Static(mem, g) /\ "Tensor" \in Kinds
    BY <1>6, <1>8 DEF Loose, Kinds
  <2> HIDE DEF bufs, refs
  <2>3. Made(mem, mem, g, p)
    BY <2>1, <2>2, NewBorrower
  <2> HIDE DEF p
  <2>4. /\ NewObject(mem, mem, g, p) /\ Keeps(mem, g, p) /\ Alive(g, p.refs)
        /\ Holding(p) /\ p.rc = 1
    BY <2>3 DEF Made
  <2>5. Loose(mem, f, H, call, <<>>)
    BY <1>6, <1>8, <2>4, MadeOne
  <2>6. Len(f) = Len(g) + 1
    BY <1>6, <1>8, <2>4, MadeLoose
  <2>7. heap' = Counted(f, <<cap>>, -1) /\ call' = <<>>
    BY <1>8 DEF Leaves
  <2> HIDE DEF f, H
  <2>8. Loose(mem, Counted(f, <<cap>>, -1), H, <<>>, <<>>) /\ Len(Counted(f, <<cap>>, -1)) = Len(f)
    BY <1>1, <2>5, LooseLeaves
  <2>9. held' = H
    BY <1>8, <2>6, <2>7, <2>8 DEF H
  <2> QED
    BY <1>1, <2>7, <2>8, <2>9
<1>9. Loose(mem', heap', held', call', <<>>)
  BY <1>4, <1>5, <1>7, <1>8
<1> QED
  BY <1>3, <1>9 DEF IInv

-----------------------------------------------------------------------------
\* The end of objects

LEMMA Drop_Step ==
  ASSUME IInv, NEW o \in held, Drop(o)
  PROVE  IInv'
<1>1. /\ Loose(mem, heap, held, <<>>, <<>>) /\ heap \in Seq(ObjectType) /\ o \in DOMAIN heap
      /\ heap' = Counted(heap, <<o>>, -1) /\ held' = held \ {o} /\ mem' = mem /\ call' = <<>>
      /\ handler' = handler /\ saved' = saved
  BY DEF IInv, Loose, Static, Drop, ProgramRuns
<1>2. <<o>> \in Seq(Nat)
  BY <1>1
<1>3. Loose(mem, heap, held \ {o}, <<>>, <<o>>)
  BY <1>1, LooseUnhold
<1>4. Loose(mem, Counted(heap, <<o>>, -1), held \ {o}, <<>>, <<>>)
  BY <1>2, <1>3, LooseDown
<1>5. Loose(mem', heap', held', call', <<>>)
  BY <1>1, <1>4
<1>6. Handlers'
  BY <1>1 DEF IInv, Handlers
<1> QED
  BY <1>5, <1>6 DEF IInv

\* An attribute of an object that has no buffers is assigned.
Assigned(h, g, k, n, a) ==
  /\ g \in Seq(ObjectType) /\ DOMAIN g = DOMAIN h /\ Len(g) = Len(h)
  /\ k \in DOMAIN h /\ a \in DOMAIN h /\ n \in DOMAIN h[k].refs
  /\ h[k].kind = "Matrix" /\ h[a].kind = "Array" /\ Holding(h[k])
  /\ \A o \in DOMAIN h : o # k => Alike(h[o], g[o])
  /\ g[k].kind = h[k].kind /\ g[k].bufs = h[k].bufs /\ g[k].owns = h[k].owns
  /\ g[k].freed = h[k].freed /\ g[k].name = h[k].name /\ ObjectOK(g[k])
  /\ DOMAIN g[k].refs = DOMAIN h[k].refs /\ g[k].refs[n] = a
  /\ \A j \in DOMAIN h[k].refs : j # n => g[k].refs[j] = h[k].refs[j]
  /\ \A o \in DOMAIN h : h[o].freed = 1 \/ Failed(h[o]) => g[o].rc = h[o].rc
  /\ \A o \in DOMAIN h : g[o].rc = h[o].rc - Occurrences(<<h[k].refs[n]>>, o) + Occurrences(<<a>>, o)

LEMMA LooseAssigned ==
  ASSUME NEW m, NEW h, NEW g, NEW H, NEW k, NEW n, NEW a, Loose(m, h, H, <<>>, <<>>),
         Assigned(h, g, k, n, a),
         ~ Reassigns => \A t \in DOMAIN h : h[t].freed = 0 => \A i \in DOMAIN h[t].refs : h[t].refs[i] # k
  PROVE  Loose(m, g, H, <<>>, <<>>)
<1>1. /\ Static(m, h) /\ h \in Seq(ObjectType) /\ Objects(h) /\ Links(h) /\ Owners(m, h) /\ Points(m, h)
      /\ Newest(h) /\ m \in Seq(BlockType) /\ H \subseteq DOMAIN h /\ CountsWith(h, H, <<>>, <<>>)
  BY DEF Loose, Static
<1>2. /\ \A o \in DOMAIN h : /\ g[o].kind = h[o].kind /\ g[o].bufs = h[o].bufs /\ g[o].owns = h[o].owns
                             /\ g[o].freed = h[o].freed /\ g[o].name = h[o].name
      /\ \A o \in DOMAIN h : o # k => g[o].refs = h[o].refs
      /\ DOMAIN g = DOMAIN h
      /\ \A o \in DOMAIN h : Holding(g[o]) <=> Holding(h[o])
      /\ k \in DOMAIN h /\ h[k].kind = "Matrix"
  BY DEF Assigned, Alike, Holding
<1>3. CountsWith(g, H, <<>>, <<>>)
  <2>1. a \in Nat
    BY <1>1 DEF Assigned
  <2> QED
    BY <1>1, <1>2, <2>1, CountsAssign DEF Assigned
<1>4. Objects(g)
  <2>1. ASSUME NEW o \in DOMAIN h, o # k PROVE ObjectOK(g[o])
    <3>1. h[o].freed = 1 => g[o].rc = 0
      BY <1>1 DEF Objects, ObjectOK, Assigned
    <3>2. Alike(h[o], g[o]) /\ ObjectOK(h[o])
      BY <1>1, <2>1 DEF Objects, Assigned
    <3> QED
      BY <3>1, <3>2, AlikeOK
  <2> QED
    BY <1>2, <2>1 DEF Objects, Assigned
<1>5. Links(g)
  <2> SUFFICES ASSUME NEW o \in DOMAIN h, NEW i \in DOMAIN g[o].refs, g[o].refs[i] # NoBase
               PROVE  g[o].refs[i] \in DOMAIN h /\ MayRefer(h[o].kind, h[g[o].refs[i]].kind)
    BY <1>2 DEF Links
  <2>1. CASE o = k /\ i = n
    BY <2>1 DEF Assigned, MayRefer
  <2>2. CASE o # k
    BY <1>1, <1>2, <2>2 DEF Links
  <2>3. CASE o = k /\ i # n
    BY <1>1, <2>3 DEF Links, Assigned
  <2> QED
    BY <2>1, <2>2, <2>3
<1>6. Owners(m, g)
  BY <1>1, <1>2 DEF Owners
<1>7. Points(m, g)
  BY <1>1, <1>2 DEF Points
<1>8. Newest(g)
  <2>1. ASSUME NEW o \in DOMAIN g, Failed(g[o]) PROVE o = Len(g) /\ g[o].rc = 0
    <3>1. o # k /\ o \in DOMAIN h
      BY <1>2, <2>1 DEF Failed
    <3>2. Failed(h[o])
      BY <1>2, <2>1, <3>1 DEF Failed
    <3>3. o = Len(h) /\ h[o].rc = 0
      BY <1>1, <3>1, <3>2 DEF Newest
    <3> QED
      BY <3>1, <3>2, <3>3 DEF Assigned
  <2> QED
    BY <2>1 DEF Newest
<1>9. Static(m, g)
  BY <1>1, <1>4, <1>5, <1>6, <1>7, <1>8 DEF Static, Assigned
<1>10. ASSUME ~ Reassigns, NEW o \in DOMAIN h, Holding(h[o]), NEW i \in DOMAIN h[o].refs, h[o].refs[i] # NoBase
       PROVE  /\ h[o].refs[i] \in DOMAIN h /\ h[o].refs[i] # k
              /\ g[h[o].refs[i]].refs = h[h[o].refs[i]].refs
              /\ g[h[o].refs[i]].kind = h[h[o].refs[i]].kind
  BY <1>1, <1>2, <1>10 DEF Holding, Links
<1>11. ASSUME ~ Reassigns PROVE Older(g)
  <2>1. Older(h)
    BY <1>11 DEF Loose, OlderIf
  <2> SUFFICES ASSUME NEW o \in DOMAIN g, NEW i \in DOMAIN g[o].refs, Holding(g[o]), g[o].kind # "Matrix",
                      g[o].refs[i] # NoBase
               PROVE  /\ g[o].refs[i] < o
                      /\ g[g[o].refs[i]].kind = "Matrix" =>
                           \A j \in DOMAIN g[g[o].refs[i]].refs : g[g[o].refs[i]].refs[j] < o
    BY DEF Older
  <2>2. o \in DOMAIN h /\ g[o].refs = h[o].refs /\ Holding(h[o]) /\ h[o].kind # "Matrix"
    BY <1>2
  <2>3. /\ g[h[o].refs[i]].refs = h[h[o].refs[i]].refs
        /\ g[h[o].refs[i]].kind = h[h[o].refs[i]].kind
    BY <1>10, <1>11, <2>2
  <2>4. /\ h[o].refs[i] < o
        /\ h[h[o].refs[i]].kind = "Matrix" =>
             \A j \in DOMAIN h[h[o].refs[i]].refs : h[h[o].refs[i]].refs[j] < o
    BY <2>1, <2>2 DEF Older
  <2> QED
    BY <2>2, <2>3, <2>4
<1>12. ASSUME ~ Reassigns, ~ Fleeting PROVE Kept(m, g) /\ NotFleeting(g, <<>>)
  <2>1. Kept(m, h) /\ NotFleeting(h, <<>>)
    BY <1>12 DEF Loose, KeptIf
  <2>2. Kept(m, g)
    <3> SUFFICES ASSUME NEW o \in DOMAIN g, NEW b \in DOMAIN m, Holding(g[o]), PointsTo(g[o], b)
                 PROVE  /\ m[b].live
                        /\ ~ Failed(g[o]) =>
                             b \in g[o].owns \/ \E i \in DOMAIN g[o].refs :
                                                  g[o].refs[i] # NoBase /\ Covers(g, g[o].refs[i], b)
      BY DEF Kept
    <3>1. o # k
      BY <1>1, <1>2 DEF Objects, ObjectOK, PointsTo
    <3>2. Holding(h[o]) /\ PointsTo(h[o], b) /\ (Failed(g[o]) <=> Failed(h[o])) /\ o \in DOMAIN h
      BY <1>2, <3>1 DEF PointsTo, Failed
    <3>3. ASSUME NEW i \in DOMAIN h[o].refs, h[o].refs[i] # NoBase, Covers(h, h[o].refs[i], b)
          PROVE  Covers(g, h[o].refs[i], b)
      <4> DEFINE r == h[o].refs[i]
      <4>1. r \in DOMAIN h /\ g[r].refs = h[r].refs /\ g[r].kind = h[r].kind
        BY <1>10, <1>12, <3>2, <3>3
      <4> HIDE DEF r
      <4>2. CASE h[r].kind \in {"Matrix", "Producer"}
        <5>1. PICK j \in DOMAIN h[r].refs : PointsTo(h[h[r].refs[j]], b)
          BY <3>3, <4>2 DEF Covers, r
        <5>2. h[r].refs[j] \in DOMAIN h
          BY <1>1, <4>1, <4>2, ThroughIsNotNull
        <5>3. PointsTo(g[h[r].refs[j]], b)
          BY <1>2, <5>1, <5>2 DEF PointsTo
        <5>4. Covers(g, r, b)
          BY <4>1, <4>2, <5>3 DEF Covers
        <5> QED
          BY <5>4 DEF r
      <4>3. CASE h[r].kind \notin {"Matrix", "Producer"}
        <5>1. PointsTo(h[r], b)
          BY <3>3, <4>3 DEF Covers, r
        <5>2. Covers(g, r, b)
          BY <1>2, <4>1, <4>3, <5>1 DEF Covers, PointsTo
        <5> QED
          BY <5>2 DEF r
      <4> QED
        BY <4>2, <4>3
    <3> QED
      BY <1>2, <2>1, <3>1, <3>2, <3>3 DEF Kept
  <2>3. NotFleeting(g, <<>>)
    <3> SUFFICES ASSUME NEW o \in DOMAIN g, NEW i \in DOMAIN g[o].refs, g[o].kind = "Producer"
                 PROVE  g[g[o].refs[i]].kind = "Tensor"
      BY DEF NotFleeting
    <3>1. o \in DOMAIN h /\ g[o].refs = h[o].refs /\ h[o].kind = "Producer"
      BY <1>2
    <3>2. h[o].refs[i] \in DOMAIN h
      BY <1>1, <3>1, ThroughIsNotNull
    <3>3. h[h[o].refs[i]].kind = "Tensor"
      BY <2>1, <3>1 DEF NotFleeting
    <3> QED
      BY <1>2, <3>1, <3>2, <3>3
  <2> QED
    BY <2>2, <2>3
<1>13. H \subseteq DOMAIN g /\ Calling(g, H, <<>>)
  BY <1>1, <1>2 DEF Calling
<1> QED
  BY <1>3, <1>9, <1>11, <1>12, <1>13 DEF Loose, OlderIf, KeptIf

LEMMA AssignedFields ==
  ASSUME NEW o \in ObjectType, NEW n \in DOMAIN o.refs, NEW a \in Nat
  PROVE  LET p == [o EXCEPT !.refs[n] = a]
         IN  /\ p \in ObjectType /\ p.kind = o.kind /\ p.bufs = o.bufs /\ p.owns = o.owns /\ p.rc = o.rc
             /\ p.freed = o.freed /\ p.name = o.name /\ p.list = o.list /\ p.ctx = o.ctx
             /\ DOMAIN p.refs = DOMAIN o.refs /\ p.refs[n] = a /\ p.refs \in Seq(Nat)
             /\ \A j \in DOMAIN o.refs : j # n => p.refs[j] = o.refs[j]
<1> DEFINE r == [o.refs EXCEPT ![n] = a]
           p == [o EXCEPT !.refs = r]
<1>1. o.refs \in Seq(Nat)
  BY DEF ObjectType
<1>2. /\ r \in Seq(Nat) /\ DOMAIN r = DOMAIN o.refs /\ r[n] = a
      /\ \A j \in DOMAIN o.refs : j # n => r[j] = o.refs[j]
  BY <1>1
<1>3. p = [o EXCEPT !.refs[n] = a]
  BY DEF ObjectType
<1> HIDE DEF r
<1>4. /\ p.kind = o.kind /\ p.bufs = o.bufs /\ p.owns = o.owns /\ p.rc = o.rc
      /\ p.freed = o.freed /\ p.name = o.name /\ p.list = o.list /\ p.ctx = o.ctx /\ p.refs = r
  BY DEF ObjectType
<1>5. p \in ObjectType
  <2>1. 0 \in Nat /\ <<>> \in Seq(BufferType) /\ {} \in SUBSET Nat
    OBVIOUS
  <2> QED
    BY <1>2, <2>1, OneField
<1> HIDE DEF p
<1> QED
  BY <1>2, <1>3, <1>4, <1>5

LEMMA Reassign_Step ==
  ASSUME IInv, NEW k \in Named({"Matrix"}), NEW a \in Arrays, NEW n \in DOMAIN heap[k].refs,
         Reassign(k, n, a)
  PROVE  IInv'
<1> DEFINE old == heap[k].refs[n]
           f1 == Counted(heap, <<old>>, -1)
           f2 == Counted(f1, <<a>>, 1)
           p == [f2[k] EXCEPT !.refs[n] = a]
           g == [f2 EXCEPT ![k].refs[n] = a]
<1>1. /\ k \in DOMAIN heap /\ heap[k].kind = "Matrix" /\ Holding(heap[k]) /\ heap[k].refs \in Seq(Nat)
      /\ ObjectOK(heap[k])
  BY NamedKind
<1>2. a \in held /\ a \in DOMAIN heap /\ a \in Nat /\ a # NoBase /\ heap[a].kind = "Array" /\ heap[a].freed = 0 /\ heap[a].rc > 0
  BY NamedKind DEF Arrays
<1>3. /\ Loose(mem, heap, held, call, <<>>) /\ heap \in Seq(ObjectType) /\ Objects(heap)
      /\ call = <<>> /\ Newest(heap)
  BY DEF IInv, Loose, Static, Reassign, ProgramRuns
<1>4. heap' = g /\ mem' = mem /\ held' = held /\ call' = call /\ handler' = handler /\ saved' = saved
  BY DEF Reassign
<1>5. old # NoBase
  BY <1>1 DEF ObjectOK
<1>6. old \in DOMAIN heap /\ old \in Nat /\ heap[old].freed = 0 /\ heap[old].rc > 0
  BY <1>1, <1>3, <1>5, ReferredAlive
<1> HIDE DEF old
<1>7. <<old>> \in Seq(Nat) /\ <<a>> \in Seq(Nat)
  BY <1>2, <1>6
<1>8. Recounted(heap, f1, <<old>>, -1)
  BY <1>3, <1>7, CountedRecounts
<1> HIDE DEF f1
<1>9. /\ f1 \in Seq(ObjectType) /\ Len(f1) = Len(heap) /\ DOMAIN f1 = DOMAIN heap
      /\ \A o \in DOMAIN heap : Alike(heap[o], f1[o]) /\ f1[o].rc = heap[o].rc + (-1) * Occurrences(<<old>>, o)
  BY <1>8 DEF Recounted
<1>10. Recounted(f1, f2, <<a>>, 1)
  BY <1>7, <1>9, CountedRecounts
<1>11. g = [f2 EXCEPT ![k] = p]
  OBVIOUS
<1> HIDE DEF f2, g
<1>12. /\ f2 \in Seq(ObjectType) /\ Len(f2) = Len(heap) /\ DOMAIN f2 = DOMAIN heap
       /\ \A o \in DOMAIN heap : Alike(f1[o], f2[o]) /\ f2[o].rc = f1[o].rc + 1 * Occurrences(<<a>>, o)
  BY <1>9, <1>10 DEF Recounted
<1>13. \A o \in DOMAIN heap : Alike(heap[o], f2[o])
  BY <1>9, <1>12 DEF Alike
<1>14. f2[k] \in ObjectType /\ n \in DOMAIN f2[k].refs
  BY <1>1, <1>12, <1>13 DEF Alike
<1>15. /\ p \in ObjectType /\ p.kind = f2[k].kind /\ p.bufs = f2[k].bufs /\ p.owns = f2[k].owns
       /\ p.rc = f2[k].rc /\ p.freed = f2[k].freed /\ p.name = f2[k].name /\ p.list = f2[k].list
       /\ p.ctx = f2[k].ctx /\ DOMAIN p.refs = DOMAIN f2[k].refs /\ p.refs[n] = a /\ p.refs \in Seq(Nat)
       /\ \A j \in DOMAIN f2[k].refs : j # n => p.refs[j] = f2[k].refs[j]
  BY <1>2, <1>14, AssignedFields
<1> HIDE DEF p
<1>16. /\ p.kind = heap[k].kind /\ p.bufs = heap[k].bufs /\ p.owns = heap[k].owns
       /\ p.freed = heap[k].freed /\ p.name = heap[k].name /\ p.list = heap[k].list
       /\ p.ctx = heap[k].ctx /\ DOMAIN p.refs = DOMAIN heap[k].refs /\ p.refs[n] = a
       /\ \A j \in DOMAIN heap[k].refs : j # n => p.refs[j] = heap[k].refs[j]
  BY <1>1, <1>13, <1>15 DEF Alike
<1>17. /\ g \in Seq(ObjectType) /\ Len(g) = Len(heap) /\ DOMAIN g = DOMAIN heap
       /\ g[k] = p /\ \A o \in DOMAIN heap : o # k => g[o] = f2[o]
  BY <1>1, <1>11, <1>12, <1>15
<1>18. ObjectOK(p)
  BY <1>1, <1>2, <1>16 DEF ObjectOK, Holding
<1>19. ASSUME NEW o \in DOMAIN heap
       PROVE  /\ g[o].rc = heap[o].rc - Occurrences(<<old>>, o) + Occurrences(<<a>>, o)
              /\ heap[o].freed = 1 \/ Failed(heap[o]) => g[o].rc = heap[o].rc
  <2>1. heap[o] \in ObjectType
    BY <1>3
  <2>2. heap[o].rc \in Int
    BY <2>1 DEF ObjectType
  <2>3. Occurrences(<<old>>, o) \in Nat /\ Occurrences(<<a>>, o) \in Nat
    BY <1>7, OccurrencesFinite
  <2>4. g[o].rc = f2[o].rc
    BY <1>15, <1>17
  <2>5. g[o].rc = heap[o].rc - Occurrences(<<old>>, o) + Occurrences(<<a>>, o)
    <3>1. f1[o].rc = heap[o].rc + (-1) * Occurrences(<<old>>, o)
      BY <1>9
    <3>2. f2[o].rc = f1[o].rc + 1 * Occurrences(<<a>>, o)
      BY <1>12
    <3> QED
      BY <2>2, <2>3, <2>4, <3>1, <3>2
  <2>6. ASSUME heap[o].freed = 1 \/ Failed(heap[o]) PROVE g[o].rc = heap[o].rc
    <3>1. heap[o].freed = 1 \/ heap[o].rc = 0
      BY <1>3, <2>6 DEF Newest
    <3>2. o # old /\ o # a
      BY <1>2, <1>6, <3>1
    <3>3. Occurrences(<<old>>, o) = 0 /\ Occurrences(<<a>>, o) = 0
      BY <3>2, OccurrencesOfOne
    <3> QED
      BY <2>2, <2>5, <3>3
  <2> QED
    BY <2>5, <2>6
<1>20. \A o \in DOMAIN heap : o # k => Alike(heap[o], g[o])
  BY <1>13, <1>17
<1>21. /\ g[k].kind = heap[k].kind /\ g[k].bufs = heap[k].bufs /\ g[k].owns = heap[k].owns
       /\ g[k].freed = heap[k].freed /\ g[k].name = heap[k].name /\ ObjectOK(g[k])
       /\ DOMAIN g[k].refs = DOMAIN heap[k].refs /\ g[k].refs[n] = a
       /\ \A j \in DOMAIN heap[k].refs : j # n => g[k].refs[j] = heap[k].refs[j]
  BY <1>16, <1>17, <1>18
<1>22. /\ \A o \in DOMAIN heap : heap[o].freed = 1 \/ Failed(heap[o]) => g[o].rc = heap[o].rc
       /\ \A o \in DOMAIN heap : g[o].rc = heap[o].rc - Occurrences(<<heap[k].refs[n]>>, o) + Occurrences(<<a>>, o)
  BY <1>19 DEF old
<1>23. Assigned(heap, g, k, n, a)
  BY <1>1, <1>2, <1>17, <1>20, <1>21, <1>22 DEF Assigned
<1>24. ~ Reassigns => \A t \in DOMAIN heap : heap[t].freed = 0 => \A i \in DOMAIN heap[t].refs : heap[t].refs[i] # k
  <2> SUFFICES ASSUME ~ Reassigns, NEW t \in DOMAIN heap, heap[t].freed = 0, NEW i \in DOMAIN heap[t].refs
               PROVE  heap[t].refs[i] # k
    OBVIOUS
  <2>1. heap[t] \in ObjectType
    BY <1>3
  <2>2. heap[t].refs \in Seq(Nat)
    BY <2>1 DEF ObjectType
  <2>3. ~ Contains(heap[t].refs, k)
    BY DEF Reassign, Unfreed
  <2> QED
    BY <2>2, <2>3 DEF Contains
<1>25. Loose(mem, heap, held, <<>>, <<>>)
  BY <1>3
<1>26. Loose(mem, g, held, <<>>, <<>>)
  BY <1>23, <1>24, <1>25, LooseAssigned
<1>27. Loose(mem', heap', held', call', <<>>)
  BY <1>3, <1>4, <1>26
<1>28. Handlers'
  BY <1>4 DEF IInv, Handlers
<1> QED
  BY <1>27, <1>28 DEF IInv

\* The newest of the objects nobody refers to is gone, and its allocations with it.
Ended(m, m2, h, g, k) ==
  /\ k \in DOMAIN h /\ h[k].freed = 0 /\ h[k].rc = 0
  /\ \A x \in DOMAIN h : h[x].freed = 0 /\ h[x].rc = 0 => x <= k
  /\ g \in Seq(ObjectType) /\ DOMAIN g = DOMAIN h /\ Len(g) = Len(h)
  /\ \A o \in DOMAIN h : o # k => Alike(h[o], g[o])
  /\ g[k].kind = h[k].kind /\ g[k].freed = 1 /\ ObjectOK(g[k])
  /\ g[k].bufs = <<>> /\ g[k].refs = <<>> /\ g[k].owns = {}
  /\ \A o \in DOMAIN h : g[o].rc = h[o].rc - Occurrences(Owned(h[k]), o) + Occurrences(<<>>, o)
  /\ \A o \in DOMAIN h : h[o].freed = 1 \/ Failed(h[o]) => g[o].rc = h[o].rc
  /\ m2 \in Seq(BlockType) /\ DOMAIN m2 = DOMAIN m
  /\ \A b \in DOMAIN m : m2[b] = IF b \in h[k].owns THEN Freed ELSE m[b]

\* Nobody else that still owns its references points into what goes with an object.
LEMMA NoOtherReader ==
  ASSUME NEW m, NEW h, NEW H, NEW c, NEW k \in DOMAIN h, Loose(m, h, H, c, <<>>), ~ Reassigns, ~ Fleeting,
         h[k].freed = 0, h[k].rc = 0, \A x \in DOMAIN h : h[x].freed = 0 /\ h[x].rc = 0 => x <= k,
         \A o, i : ~ Owning(h, o, i, k), NEW b \in h[k].owns,
         NEW y \in DOMAIN h, y # k, Holding(h[y]), PointsTo(h[y], b)
  PROVE  FALSE
<1> DEFINE T == {x \in DOMAIN h : x # k /\ Holding(h[x]) /\ PointsTo(h[x], b)}
<1>1. /\ Static(m, h) /\ h \in Seq(ObjectType) /\ Objects(h) /\ Links(h) /\ Owners(m, h) /\ Newest(h)
      /\ Older(h) /\ Kept(m, h) /\ NotFleeting(h, c)
  BY DEF Loose, Static, OlderIf, KeptIf
<1>2. T \subseteq Nat /\ T # {}
  BY <1>1
<1>3. PICK x \in T : \A z \in T : x <= z
  BY <1>2, Least
<1>4. x \in DOMAIN h /\ x # k /\ Holding(h[x]) /\ PointsTo(h[x], b) /\ x \in Nat /\ k \in Nat
  BY <1>1, <1>3
<1>5. ASSUME NEW q \in DOMAIN h, q < x, q # k, Holding(h[q]), PointsTo(h[q], b) PROVE FALSE
  <2>1. q \in T /\ q \in Nat
    BY <1>1, <1>5
  <2>2. x <= q
    BY <1>3, <2>1
  <2> QED
    BY <1>4, <1>5, <2>1, <2>2
<1> HIDE DEF T
<1>6. h[x].kind \notin {"Matrix", "DlCapsule", "Producer"}
  BY <1>1, <1>4 DEF Objects, ObjectOK, PointsTo
<1>7. ~ Failed(h[x])
  <2> SUFFICES ASSUME Failed(h[x]) PROVE FALSE
    OBVIOUS
  <2>1. x = Len(h) /\ h[x].rc = 0
    BY <1>1, <1>4 DEF Newest
  <2>2. x <= k
    BY <1>4, <2>1 DEF Holding
  <2>3. k <= Len(h)
    BY <1>1
  <2> QED
    BY <1>4, <2>1, <2>2, <2>3
<1>8. b \in DOMAIN m /\ b \notin h[x].owns
  BY <1>1, <1>4 DEF Owners
<1>9. PICK i \in DOMAIN h[x].refs : h[x].refs[i] # NoBase /\ Covers(h, h[x].refs[i], b)
  BY <1>1, <1>4, <1>7, <1>8 DEF Kept
<1> DEFINE r == h[x].refs[i]
<1>10. /\ r \in DOMAIN h /\ r \in Nat /\ MayRefer(h[x].kind, h[r].kind)
       /\ h[r].kind \notin {"DlCapsule", "Native"} => Holding(h[r])
  BY <1>4, <1>9, ReferredAlive
<1>11. /\ r < x
       /\ h[r].kind = "Matrix" => \A j \in DOMAIN h[r].refs : h[r].refs[j] < x
  BY <1>1, <1>4, <1>6, <1>9 DEF Older
<1>12. r # k
  BY <1>4 DEF Owning
<1>13. Covers(h, r, b)
  BY <1>9
<1> HIDE DEF r
<1>14. h[r].kind \in {"Array", "Matrix", "Tensor", "Producer", "Managed"} /\ Holding(h[r])
  BY <1>6, <1>10 DEF MayRefer
<1>15. CASE h[r].kind \notin {"Matrix", "Producer"}
  BY <1>5, <1>10, <1>11, <1>12, <1>13, <1>14, <1>15 DEF Covers
<1>16. CASE h[r].kind \in {"Matrix", "Producer"}
  <2>1. PICK j \in DOMAIN h[r].refs : PointsTo(h[h[r].refs[j]], b)
    BY <1>13, <1>16 DEF Covers
  <2> DEFINE q == h[r].refs[j]
  <2>2. q # NoBase
    BY <1>1, <1>10, <1>16 DEF Objects, ObjectOK
  <2>3. /\ q \in DOMAIN h /\ q \in Nat /\ MayRefer(h[r].kind, h[q].kind)
        /\ h[q].kind \notin {"DlCapsule", "Native"} => Holding(h[q])
    BY <1>10, <1>14, <2>2, ReferredAlive
  <2>4. q # k
    BY <1>10, <1>14 DEF Owning
  <2>5. q < x
    <3>1. CASE h[r].kind = "Matrix"
      BY <1>11, <3>1
    <3>2. CASE h[r].kind = "Producer"
      <4>1. q < r
        BY <1>1, <1>10, <1>14, <2>2, <3>2 DEF Older
      <4> HIDE DEF q
      <4> QED
        BY <1>4, <1>10, <1>11, <2>3, <4>1
    <3> QED
      BY <1>16, <3>1, <3>2
  <2>6. Holding(h[q])
    <3>1. CASE h[r].kind = "Matrix"
      BY <2>3, <3>1 DEF MayRefer
    <3>2. CASE h[r].kind = "Producer"
      <4>1. h[q].kind = "Tensor"
        BY <1>1, <1>10, <3>2 DEF NotFleeting
      <4> HIDE DEF q
      <4> QED
        BY <2>3, <4>1
    <3> QED
      BY <1>16, <3>1, <3>2
  <2> QED
    BY <1>5, <2>1, <2>3, <2>4, <2>5, <2>6
<1> QED
  BY <1>15, <1>16

LEMMA LooseEnded ==
  ASSUME NEW m, NEW m2, NEW h, NEW g, NEW H, NEW c, NEW k, Loose(m, h, H, c, <<>>),
         Ended(m, m2, h, g, k)
  PROVE  Loose(m2, g, H, c, <<>>)
<1>1. /\ Static(m, h) /\ h \in Seq(ObjectType) /\ Objects(h) /\ Links(h) /\ Owners(m, h) /\ Points(m, h)
      /\ Newest(h) /\ m \in Seq(BlockType) /\ H \subseteq DOMAIN h /\ CountsWith(h, H, c, <<>>)
      /\ Calling(h, H, c) /\ k \in DOMAIN h /\ h[k].rc = 0
  BY DEF Loose, Static, Ended
<1>2. k \notin H /\ ~ (c # <<>> /\ c[1].cap = k) /\ \A o, i : ~ Owning(h, o, i, k)
  BY <1>1, CountsAlone, UnreferredHasNoOwner
<1>3. /\ DOMAIN g = DOMAIN h /\ DOMAIN m2 = DOMAIN m
      /\ \A o \in DOMAIN h : g[o].kind = h[o].kind
      /\ \A o \in DOMAIN h : o # k =>
            /\ g[o].bufs = h[o].bufs /\ g[o].refs = h[o].refs
            /\ g[o].owns = h[o].owns /\ g[o].freed = h[o].freed
            /\ Holding(g[o]) <=> Holding(h[o])
            /\ Failed(g[o]) <=> Failed(h[o])
      /\ ~ Holding(g[k]) /\ DOMAIN g[k].refs = {} /\ DOMAIN g[k].bufs = {} /\ g[k].owns = {}
  BY DEF Ended, Alike, Holding, Failed
<1>4. CountsWith(g, H, c, <<>>)
  <2> DEFINE none == <<>>
  <2>1. /\ none \in Seq(Nat) /\ CountsWith(h, H, c, none)
        /\ \A o \in DOMAIN h : g[o].rc = h[o].rc - Occurrences(Owned(h[k]), o) + Occurrences(none, o)
    BY <1>1 DEF Ended
  <2>2. g \in Seq(ObjectType) /\ \A o \in DOMAIN h : o # k => Alike(h[o], g[o])
    BY DEF Ended
  <2> QED
    BY <1>1, <1>3, <2>1, <2>2, CountsLetGo
<1>5. Objects(g)
  <2>1. ASSUME NEW o \in DOMAIN h, o # k PROVE ObjectOK(g[o])
    <3>1. h[o].freed = 1 => g[o].rc = 0
      BY <1>1 DEF Objects, ObjectOK, Ended
    <3>2. Alike(h[o], g[o]) /\ ObjectOK(h[o])
      BY <1>1, <2>1 DEF Objects, Ended
    <3> QED
      BY <3>1, <3>2, AlikeOK
  <2> QED
    BY <1>3, <2>1 DEF Objects, Ended
<1>6. Links(g)
  <2> SUFFICES ASSUME NEW o \in DOMAIN g, NEW i \in DOMAIN g[o].refs, g[o].refs[i] # NoBase
               PROVE  g[o].refs[i] \in DOMAIN g /\ MayRefer(g[o].kind, g[g[o].refs[i]].kind)
    BY DEF Links
  <2>1. o # k /\ o \in DOMAIN h /\ g[o].refs = h[o].refs
    BY <1>3
  <2>2. h[o].refs[i] \in DOMAIN h /\ MayRefer(h[o].kind, h[h[o].refs[i]].kind)
    BY <1>1, <2>1 DEF Links
  <2> QED
    BY <1>3, <2>1, <2>2
<1>7. ASSUME NEW b \in DOMAIN m
      PROVE  m2[b] = IF b \in h[k].owns THEN Freed ELSE m[b]
  BY DEF Ended
<1>8. Owners(m2, g)
  <2>1. ASSUME NEW o \in DOMAIN g, NEW b \in g[o].owns PROVE b \in DOMAIN m2 /\ m2[b].live
    <3>1. o # k /\ o \in DOMAIN h /\ b \in h[o].owns
      BY <1>3, <2>1
    <3>2. b \notin h[k].owns /\ b \in DOMAIN m /\ m[b].live
      BY <1>1, <3>1 DEF Owners
    <3> QED
      BY <1>3, <1>7, <3>2
  <2>2. \A o, r \in DOMAIN g : \A b \in g[o].owns : b \in g[r].owns => o = r
    BY <1>1, <1>3 DEF Owners
  <2>3. ASSUME NEW b \in DOMAIN m2, m2[b].live PROVE \E o \in DOMAIN g : b \in g[o].owns
    <3>1. b \notin h[k].owns /\ m[b].live /\ b \in DOMAIN m
      BY <1>3, <1>7, <2>3, FreedTyped
    <3>2. PICK o \in DOMAIN h : b \in h[o].owns
      BY <1>1, <3>1 DEF Owners
    <3> QED
      BY <1>3, <3>1, <3>2
  <2> QED
    BY <2>1, <2>2, <2>3 DEF Owners
<1>9. Points(m2, g)
  <2> SUFFICES ASSUME NEW o \in DOMAIN g, NEW i \in DOMAIN g[o].bufs
               PROVE  /\ g[o].bufs[i].block \in DOMAIN m2
                      /\ Declares(g[o].kind, g[o].bufs[i], m2[g[o].bufs[i].block])
    BY DEF Points
  <2> DEFINE u == g[o].bufs[i]
  <2>1. o # k /\ o \in DOMAIN h
    BY <1>3
  <2>2. u.block \in DOMAIN m /\ Declares(g[o].kind, u, m[u.block])
    BY <1>1, <1>3, <2>1 DEF Points
  <2> HIDE DEF u
  <2>3. Declares(g[o].kind, u, m2[u.block])
    <3>1. CASE u.block \in h[k].owns
      <4>1. m2[u.block] = Freed
        BY <1>7, <2>2, <3>1
      <4>2. m2[u.block].len = 0 /\ m2[u.block].synced
        BY <4>1, FreedTyped
      <4> QED
        BY <4>2 DEF Declares
    <3>2. CASE u.block \notin h[k].owns
      BY <1>7, <2>2, <3>2
    <3> QED
      BY <3>1, <3>2
  <2> QED
    BY <1>3, <2>2, <2>3 DEF u
<1>10. Newest(g)
  <2>1. ASSUME NEW o \in DOMAIN g, Failed(g[o]) PROVE o = Len(g) /\ g[o].rc = 0
    <3>1. o # k /\ o \in DOMAIN h
      BY <1>3, <2>1 DEF Failed
    <3>2. Failed(h[o])
      BY <1>3, <2>1, <3>1
    <3>3. o = Len(h) /\ h[o].rc = 0
      BY <1>1, <3>1, <3>2 DEF Newest
    <3> QED
      BY <3>1, <3>2, <3>3 DEF Ended
  <2> QED
    BY <2>1 DEF Newest
<1>11. Static(m2, g)
  BY <1>5, <1>6, <1>8, <1>9, <1>10 DEF Static, Ended
<1>12. H \subseteq DOMAIN g /\ Calling(g, H, c)
  BY <1>1, <1>3 DEF Calling
<1>13. ASSUME NEW o \in DOMAIN g, Holding(g[o]), NEW i \in DOMAIN g[o].refs, g[o].refs[i] # NoBase
       PROVE  /\ o \in DOMAIN h /\ o # k /\ Holding(h[o]) /\ g[o].refs = h[o].refs
              /\ h[o].refs[i] \in DOMAIN h /\ h[o].refs[i] # k /\ h[h[o].refs[i]].freed = 0
              /\ h[h[o].refs[i]].kind \notin {"DlCapsule", "Native"} => Holding(h[h[o].refs[i]])
  <2>1. o \in DOMAIN h /\ o # k /\ Holding(h[o]) /\ g[o].refs = h[o].refs
    BY <1>3, <1>13
  <2>2. Owning(h, o, i, h[o].refs[i])
    BY <1>13, <2>1 DEF Owning
  <2>3. h[o].refs[i] # k
    BY <1>2, <2>2
  <2>4. /\ h[o].refs[i] \in DOMAIN h /\ h[h[o].refs[i]].freed = 0
        /\ h[h[o].refs[i]].kind \notin {"DlCapsule", "Native"} => Holding(h[h[o].refs[i]])
    BY <1>13, <2>1, ReferredAlive
  <2> QED
    BY <2>1, <2>3, <2>4
<1>14. ASSUME Older(h) PROVE Older(g)
  <2> SUFFICES ASSUME NEW o \in DOMAIN g, NEW i \in DOMAIN g[o].refs, Holding(g[o]), g[o].kind # "Matrix",
                      g[o].refs[i] # NoBase
               PROVE  /\ g[o].refs[i] < o
                      /\ g[g[o].refs[i]].kind = "Matrix" =>
                           \A j \in DOMAIN g[g[o].refs[i]].refs : g[g[o].refs[i]].refs[j] < o
    BY DEF Older
  <2>1. /\ o \in DOMAIN h /\ Holding(h[o]) /\ g[o].refs = h[o].refs /\ h[o].refs[i] \in DOMAIN h
        /\ h[o].refs[i] # k /\ h[o].kind # "Matrix"
    BY <1>3, <1>13
  <2>2. /\ h[o].refs[i] < o
        /\ h[h[o].refs[i]].kind = "Matrix" =>
             \A j \in DOMAIN h[h[o].refs[i]].refs : h[h[o].refs[i]].refs[j] < o
    BY <1>14, <2>1 DEF Older
  <2>3. /\ g[h[o].refs[i]].refs = h[h[o].refs[i]].refs /\ g[h[o].refs[i]].kind = h[h[o].refs[i]].kind
    BY <1>3, <2>1
  <2> QED
    BY <2>1, <2>2, <2>3
<1>15. ASSUME ~ Reassigns, ~ Fleeting PROVE Kept(m2, g) /\ NotFleeting(g, c)
  <2>1. Kept(m, h) /\ NotFleeting(h, c)
    BY <1>15 DEF Loose, KeptIf
  <2>2. Kept(m2, g)
    <3> SUFFICES ASSUME NEW o \in DOMAIN g, NEW b \in DOMAIN m2, Holding(g[o]), PointsTo(g[o], b)
                 PROVE  /\ m2[b].live
                        /\ ~ Failed(g[o]) =>
                             b \in g[o].owns \/ \E i \in DOMAIN g[o].refs :
                                                  g[o].refs[i] # NoBase /\ Covers(g, g[o].refs[i], b)
      BY DEF Kept
    <3>1. /\ o # k /\ o \in DOMAIN h /\ Holding(h[o]) /\ (Failed(g[o]) <=> Failed(h[o])) /\ b \in DOMAIN m
          /\ g[o].owns = h[o].owns /\ g[o].refs = h[o].refs
      BY <1>3
    <3>2. PointsTo(h[o], b)
      BY <1>3, <3>1 DEF PointsTo
    <3>3. b \notin h[k].owns
      <4>1. h[k].freed = 0 /\ \A x \in DOMAIN h : h[x].freed = 0 /\ h[x].rc = 0 => x <= k
        BY DEF Ended
      <4>2. k \in DOMAIN h /\ h[k].rc = 0 /\ \A q, i : ~ Owning(h, q, i, k)
        BY <1>1, <1>2
      <4>3. Loose(m, h, H, c, <<>>) /\ ~ Reassigns /\ ~ Fleeting
        BY <1>15
      <4>4. o \in DOMAIN h /\ o # k /\ Holding(h[o]) /\ PointsTo(h[o], b)
        BY <3>1, <3>2
      <4>5. SUFFICES ASSUME b \in h[k].owns PROVE FALSE
        OBVIOUS
      <4> QED
        BY <4>1, <4>2, <4>3, <4>4, <4>5, NoOtherReader
    <3>4. m2[b].live
      BY <1>7, <2>1, <3>1, <3>2, <3>3 DEF Kept
    <3>5. ASSUME NEW i \in DOMAIN h[o].refs, h[o].refs[i] # NoBase, Covers(h, h[o].refs[i], b)
          PROVE  Covers(g, h[o].refs[i], b)
      <4> DEFINE r == h[o].refs[i]
      <4>1. /\ r \in DOMAIN h /\ r # k /\ (h[r].kind \notin {"DlCapsule", "Native"} => Holding(h[r]))
        BY <1>13, <3>1, <3>5
      <4>2. Covers(h, r, b)
        BY <3>5
      <4> HIDE DEF r
      <4>3. CASE h[r].kind \in {"Matrix", "Producer"}
        <5>1. PICK j \in DOMAIN h[r].refs : PointsTo(h[h[r].refs[j]], b)
          BY <4>2, <4>3 DEF Covers
        <5>2. h[r].refs[j] \in DOMAIN h
          BY <1>1, <4>1, <4>3, ThroughIsNotNull
        <5>3. h[r].refs[j] # k
          BY <1>2, <4>1, <4>3 DEF Owning
        <5>4. PointsTo(g[h[r].refs[j]], b)
          BY <1>3, <5>1, <5>2, <5>3 DEF PointsTo
        <5>5. g[r].refs = h[r].refs /\ g[r].kind = h[r].kind
          BY <1>3, <4>1
        <5>6. Covers(g, r, b)
          BY <4>3, <5>4, <5>5 DEF Covers
        <5> QED
          BY <5>6 DEF r
      <4>4. CASE h[r].kind \notin {"Matrix", "Producer"}
        <5>1. PointsTo(h[r], b)
          BY <4>2, <4>4 DEF Covers
        <5>2. Covers(g, r, b)
          BY <1>3, <4>1, <4>4, <5>1 DEF Covers, PointsTo
        <5> QED
          BY <5>2 DEF r
      <4> QED
        BY <4>3, <4>4
    <3> QED
      BY <2>1, <3>1, <3>2, <3>4, <3>5 DEF Kept
  <2>3. ASSUME NEW o \in DOMAIN g, NEW i \in DOMAIN g[o].refs, g[o].kind = "Producer"
        PROVE  g[g[o].refs[i]].kind = "Tensor"
    <3>1. o \in DOMAIN h /\ g[o].refs = h[o].refs /\ h[o].kind = "Producer"
      BY <1>3, <2>3
    <3>2. h[o].refs[i] \in DOMAIN h
      BY <1>1, <2>3, <3>1, ThroughIsNotNull
    <3>3. h[h[o].refs[i]].kind = "Tensor"
      BY <2>1, <2>3, <3>1 DEF NotFleeting
    <3> QED
      BY <1>3, <3>1, <3>2, <3>3
  <2>4. ASSUME c # <<>> PROVE g[c[1].cap].bufs = g[Source(g, c[1].obj)].bufs
    <3> DEFINE obj == c[1].obj
    <3>1. obj \in DOMAIN h /\ obj \in H /\ h[obj].kind \in {"Tensor", "Producer"}
      BY <1>1, <2>4 DEF Calling
    <3>2. h[obj].freed = 0 /\ ObjectOK(h[obj]) /\ Holding(h[obj]) /\ h[obj] \in ObjectType
      BY <3>1, NamedAlive
    <3>3. Source(h, obj) \in DOMAIN h /\ c[1].cap \in DOMAIN h
      BY <1>1, <2>4, <3>2, SourceTyped
    <3> HIDE DEF obj
    <3>4. obj # k
      BY <1>2, <3>1
    <3>5. Source(g, obj) = Source(h, obj)
      BY <1>3, <3>1, <3>4 DEF Source
    <3>6. Source(h, obj) # k
      <4>1. CASE h[obj].kind = "Tensor"
        BY <3>4, <4>1 DEF Source
      <4>2. CASE h[obj].kind = "Producer"
        <5>1. Len(h[obj].refs) = 1 /\ h[obj].refs \in Seq(Nat)
          BY <3>2, <4>2 DEF ObjectOK, ObjectType
        <5>2. 1 \in DOMAIN h[obj].refs
          BY <5>1
        <5> QED
          BY <1>2, <3>1, <3>2, <4>2, <5>2 DEF Owning, Source
      <4> QED
        BY <3>1, <4>1, <4>2
    <3>7. c[1].cap # k
      BY <1>2, <2>4
    <3>8. h[c[1].cap].bufs = h[Source(h, obj)].bufs
      BY <2>1, <2>4 DEF NotFleeting, obj
    <3>9. g[c[1].cap].bufs = g[Source(g, obj)].bufs
      BY <1>3, <3>3, <3>5, <3>6, <3>7, <3>8
    <3> QED
      BY <3>9 DEF obj
  <2> QED
    BY <2>2, <2>3, <2>4 DEF NotFleeting
<1> QED
  BY <1>4, <1>11, <1>12, <1>14, <1>15 DEF Loose, OlderIf, KeptIf

EndedObject(o, a, b) ==
  [o EXCEPT !.freed = @ + 1, !.bufs = <<>>, !.refs = <<>>, !.owns = {}, !.list = @ + a, !.ctx = @ + b]

\* The fields of an object that was finalised.
LEMMA EndedFields ==
  ASSUME NEW o \in ObjectType, NEW a \in Nat, NEW b \in Nat
  PROVE  LET p == EndedObject(o, a, b)
         IN  /\ p \in ObjectType /\ p.kind = o.kind /\ p.bufs = <<>> /\ p.refs = <<>>
             /\ p.owns = {} /\ p.rc = o.rc /\ p.freed = o.freed + 1 /\ p.name = o.name
             /\ p.list = o.list + a /\ p.ctx = o.ctx + b
<1> DEFINE x == o.freed + 1
           y == o.list + a
           z == o.ctx + b
           none == <<>>
           p == [o EXCEPT !.freed = x, !.bufs = none, !.refs = none, !.owns = {}, !.list = y, !.ctx = z]
           q1 == [o EXCEPT !.freed = x]
           q2 == [q1 EXCEPT !.bufs = none]
           q3 == [q2 EXCEPT !.refs = none]
           q4 == [q3 EXCEPT !.owns = {}]
           q5 == [q4 EXCEPT !.list = y]
           q6 == [q5 EXCEPT !.ctx = z]
<1>1. x \in Nat /\ y \in Nat /\ z \in Nat
  <2>1. o.freed \in Nat /\ o.list \in Nat /\ o.ctx \in Nat
    BY DEF ObjectType
  <2> QED
    BY <2>1
<1>2. p = EndedObject(o, a, b)
  BY DEF EndedObject
<1>3. none \in Seq(Nat) /\ none \in Seq(BufferType) /\ {} \in SUBSET Nat /\ 0 \in Nat
  OBVIOUS
<1> HIDE DEF x, y, z, none
<1>4. p = q6
  OBVIOUS
<1>5. /\ p.kind = o.kind /\ p.bufs = none /\ p.refs = none
      /\ p.owns = {} /\ p.rc = o.rc /\ p.freed = x /\ p.name = o.name
      /\ p.list = y /\ p.ctx = z
  BY DEF ObjectType
<1>6. q1 \in ObjectType
  BY <1>1, <1>3, OneField
<1> HIDE DEF q1
<1>7. q2 \in ObjectType
  BY <1>1, <1>3, <1>6, OneField
<1> HIDE DEF q2
<1>8. q3 \in ObjectType
  BY <1>1, <1>3, <1>7, OneField
<1> HIDE DEF q3
<1>9. q4 \in ObjectType
  BY <1>1, <1>3, <1>8, OneField
<1> HIDE DEF q4
<1>10. q5 \in ObjectType
  BY <1>1, <1>3, <1>9, OneField
<1> HIDE DEF q5
<1>11. q6 \in ObjectType
  BY <1>1, <1>3, <1>10, OneField
<1> HIDE DEF p, q6
<1> QED
  BY <1>2, <1>4, <1>5, <1>11 DEF x, y, z, none

\* A destructor gives up what its object still owned, and destroys what was not destroyed.
LEMMA DestructorsRelease ==
  ASSUME NEW o \in DOMAIN heap, heap[o] \in ObjectType, ObjectOK(heap[o]), heap[o].freed = 0
  PROVE  LET native == heap[o].kind = "Native"
             a == IF native THEN native_destructor(o).list ELSE 0
             b == IF native THEN Len(native_destructor(o).refs) ELSE 0
         IN  /\ Released(o) = Owned(heap[o]) /\ a \in Nat /\ b \in Nat
             /\ native => heap[o].list + a = 1 /\ heap[o].ctx + b = 1
             /\ ~ native => heap[o].list + a = 0 /\ heap[o].ctx + b = 0
<1> DEFINE native == heap[o].kind = "Native"
           a == IF native THEN native_destructor(o).list ELSE 0
           b == IF native THEN Len(native_destructor(o).refs) ELSE 0
<1>1. heap[o].name \in {"fresh", "used"} /\ heap[o].refs \in Seq(Nat) /\ heap[o].ctx \in Nat
  BY DEF ObjectType
<1>2. Holding(heap[o]) <=> heap[o].name = "fresh"
  BY DEF Holding
<1>3. Released(o) = Owned(heap[o])
  <2>1. CASE heap[o].kind = "DlCapsule"
    BY <1>2, <2>1 DEF Released, capsule_destructor, Owned
  <2>2. CASE native
    BY <1>2, <2>2 DEF Released, native_destructor, Owned
  <2>3. CASE heap[o].kind # "DlCapsule" /\ ~ native
    <3>1. heap[o].name = "fresh"
      BY <1>1, <2>3 DEF ObjectOK
    <3> QED
      BY <1>2, <2>3, <3>1 DEF Released, Owned
  <2> QED
    BY <2>1, <2>2, <2>3
<1>4. CASE ~ native
  <2>1. a = 0 /\ b = 0 /\ heap[o].list = 0 /\ heap[o].ctx = 0
    BY <1>4 DEF ObjectOK
  <2> QED
    BY <1>3, <1>4, <2>1
<1>5. CASE native /\ Holding(heap[o])
  <2>1. heap[o].list = 0 /\ heap[o].ctx + Len(heap[o].refs) = 1
    BY <1>5 DEF ObjectOK
  <2>2. a = 1 /\ b = Len(heap[o].refs)
    BY <1>2, <1>5 DEF native_destructor
  <2>3. b \in Nat
    BY <1>1, <2>2
  <2> QED
    BY <1>3, <1>5, <2>1, <2>2, <2>3
<1>6. CASE native /\ ~ Holding(heap[o])
  <2>1. heap[o].list = 1 /\ heap[o].ctx = 1
    BY <1>6 DEF ObjectOK
  <2>2. a = 0 /\ b = Len(<<>>)
    BY <1>2, <1>6 DEF native_destructor
  <2>3. b = 0
    BY <2>2
  <2> QED
    BY <1>3, <1>6, <2>1, <2>2, <2>3
<1> QED
  BY <1>4, <1>5, <1>6

LEMMA Finalise_Step ==
  ASSUME IInv, Finalise
  PROVE  IInv'
<1> DEFINE k == CHOOSE x \in Garbage : \A y \in Garbage : y <= x
           native == heap[k].kind = "Native"
           a == IF native THEN native_destructor(k).list ELSE 0
           b == IF native THEN Len(native_destructor(k).refs) ELSE 0
           refs == Owned(heap[k])
           f == Counted(heap, refs, -1)
           p == EndedObject(f[k], a, b)
           g == [f EXCEPT ![k] = p]
           m2 == [d \in DOMAIN mem |-> IF d \in heap[k].owns THEN Freed ELSE mem[d]]
           none == <<>>
<1>1. /\ Loose(mem, heap, held, call, none) /\ heap \in Seq(ObjectType) /\ Objects(heap) /\ Newest(heap)
      /\ mem \in Seq(BlockType) /\ CountsWith(heap, held, call, none) /\ none \in Seq(Nat)
      /\ Counts(heap, held, call)
  BY CountsAlone DEF IInv, Loose, Static
<1>2. k \in Garbage /\ \A y \in Garbage : y <= k
  <2>1. Garbage \subseteq 1 .. Len(heap) /\ Len(heap) \in Nat /\ Garbage # {}
    <3>1. Garbage # {}
      BY Zenon DEF Finalise
    <3>2. Garbage \subseteq 1 .. Len(heap) /\ Len(heap) \in Nat
      BY <1>1 DEF Garbage, Unfreed
    <3> QED
      BY <3>1, <3>2
  <2>2. \E x \in Garbage : \A y \in Garbage : y <= x
    BY <2>1, Greatest
  <2> QED
    BY <2>2
<1>3. /\ heap' = [Counted(heap, Released(k), -1) EXCEPT
                       ![k].freed = @ + 1, ![k].bufs = <<>>, ![k].refs = <<>>, ![k].owns = {},
                       ![k].list = @ + a, ![k].ctx = @ + b]
      /\ mem' = m2 /\ held' = held /\ call' = call /\ handler' = handler /\ saved' = saved
  BY DEF Finalise
<1> HIDE DEF k
<1>4. /\ k \in DOMAIN heap /\ heap[k].freed = 0 /\ heap[k].rc = 0
      /\ \A x \in DOMAIN heap : heap[x].freed = 0 /\ heap[x].rc = 0 => x <= k
  BY <1>2 DEF Garbage, Unfreed
<1>5. heap[k] \in ObjectType /\ ObjectOK(heap[k])
  BY <1>1, <1>4 DEF Objects
<1>6. /\ Released(k) = refs /\ a \in Nat /\ b \in Nat
      /\ native => heap[k].list + a = 1 /\ heap[k].ctx + b = 1
      /\ ~ native => heap[k].list + a = 0 /\ heap[k].ctx + b = 0
  BY <1>4, <1>5, DestructorsRelease
<1>7. refs \in Seq(Nat)
  <2>1. heap[k].refs \in Seq(Nat)
    BY <1>5 DEF ObjectType
  <2> QED
    BY <2>1 DEF Owned
<1>8. Recounted(heap, f, refs, -1)
  BY <1>1, <1>7, CountedRecounts
<1>9. heap' = g
  BY <1>3, <1>6 DEF EndedObject
<1> HIDE DEF a, b, refs, f
<1>10. /\ f \in Seq(ObjectType) /\ Len(f) = Len(heap) /\ DOMAIN f = DOMAIN heap
       /\ \A o \in DOMAIN heap : Alike(heap[o], f[o]) /\ f[o].rc = heap[o].rc + (-1) * Occurrences(refs, o)
  BY <1>8 DEF Recounted
<1>11. f[k] \in ObjectType
  BY <1>4, <1>10
<1>12. /\ p \in ObjectType /\ p.kind = f[k].kind /\ p.bufs = <<>> /\ p.refs = <<>>
       /\ p.owns = {} /\ p.rc = f[k].rc /\ p.freed = f[k].freed + 1 /\ p.name = f[k].name
       /\ p.list = f[k].list + a /\ p.ctx = f[k].ctx + b
  BY <1>6, <1>11, EndedFields
<1> HIDE DEF p
<1>13. /\ g \in Seq(ObjectType) /\ Len(g) = Len(heap) /\ DOMAIN g = DOMAIN heap
       /\ g[k] = p /\ \A o \in DOMAIN heap : o # k => g[o] = f[o]
  BY <1>4, <1>10, <1>12
<1> HIDE DEF g
<1>14. /\ p.kind = heap[k].kind /\ p.freed = 1 /\ p.name = heap[k].name
       /\ p.list = heap[k].list + a /\ p.ctx = heap[k].ctx + b
  BY <1>4, <1>10, <1>12 DEF Alike
<1>15. \A o, i : ~ Owning(heap, o, i, k)
  BY <1>1, <1>4, UnreferredHasNoOwner
<1>16. ASSUME NEW o \in DOMAIN heap
       PROVE  g[o].rc = heap[o].rc - Occurrences(refs, o) + Occurrences(none, o)
  <2>1. Occurrences(none, o) = 0
    <3>1. DOMAIN none = {}
      OBVIOUS
    <3> HIDE DEF none
    <3> QED
      BY <3>1, OccurrencesNone
  <2>2. heap[o] \in ObjectType
    BY <1>1
  <2>3. heap[o].rc \in Int /\ Occurrences(refs, o) \in Nat
    BY <1>7, <2>2, OccurrencesFinite DEF ObjectType
  <2>4. g[o].rc = heap[o].rc + (-1) * Occurrences(refs, o)
    BY <1>10, <1>12, <1>13
  <2> QED
    BY <2>1, <2>3, <2>4
<1>17. ASSUME NEW o \in DOMAIN heap, heap[o].freed = 1 \/ Failed(heap[o]) \/ o = k
       PROVE  g[o].rc = heap[o].rc
  <2>1. \A i \in DOMAIN refs : refs[i] # o
    <3> SUFFICES ASSUME NEW i \in DOMAIN refs, refs[i] = o PROVE FALSE
      OBVIOUS
    <3>1. Holding(heap[k]) /\ refs = heap[k].refs
      <4>1. ~ Holding(heap[k]) => refs = none
        BY DEF refs, Owned
      <4> QED
        BY <4>1 DEF refs, Owned
    <3>2. Owning(heap, k, i, o)
      BY <1>4, <3>1 DEF Owning
    <3>3. heap[o].freed = 0 /\ heap[o].rc > 0
      BY <1>1, <3>2, AliveWith
    <3>4. Failed(heap[o]) => heap[o].rc = 0
      BY <1>1 DEF Newest
    <3> QED
      BY <1>4, <1>17, <3>3, <3>4
  <2>2. Occurrences(refs, o) = 0
    BY <2>1, OccurrencesNone
  <2>3. heap[o] \in ObjectType
    BY <1>1
  <2>4. heap[o].rc \in Int
    BY <2>3 DEF ObjectType
  <2>5. g[o].rc = heap[o].rc + (-1) * Occurrences(refs, o)
    BY <1>10, <1>12, <1>13
  <2> QED
    BY <2>2, <2>4, <2>5
<1>18. p.rc = 0
  BY <1>4, <1>13, <1>17
<1>19. ObjectOK(p)
  BY <1>5, <1>6, <1>12, <1>14, <1>18 DEF ObjectOK, Holding
<1>20. \A o \in DOMAIN heap : o # k => Alike(heap[o], g[o])
  BY <1>10, <1>13
<1>21. /\ g[k].kind = heap[k].kind /\ g[k].freed = 1 /\ ObjectOK(g[k])
       /\ g[k].bufs = <<>> /\ g[k].refs = <<>> /\ g[k].owns = {}
  BY <1>12, <1>13, <1>14, <1>19
<1>22. /\ m2 \in Seq(BlockType) /\ DOMAIN m2 = DOMAIN mem
       /\ \A d \in DOMAIN mem : m2[d] = IF d \in heap[k].owns THEN Freed ELSE mem[d]
  BY <1>1, FreedTyped
<1> HIDE DEF m2
<1>23. \A o \in DOMAIN heap : g[o].rc = heap[o].rc - Occurrences(Owned(heap[k]), o) + Occurrences(<<>>, o)
  BY <1>16 DEF refs
<1>24. Ended(mem, m2, heap, g, k)
  BY <1>4, <1>13, <1>17, <1>20, <1>21, <1>22, <1>23 DEF Ended
<1>25. Loose(mem, heap, held, call, <<>>)
  BY <1>1
<1>26. Loose(m2, g, held, call, <<>>)
  BY <1>24, <1>25, LooseEnded
<1>27. Loose(mem', heap', held', call', <<>>)
  BY <1>3, <1>9, <1>26
<1>28. Handlers'
  BY <1>3 DEF IInv, Handlers
<1> QED
  BY <1>27, <1>28 DEF IInv

-----------------------------------------------------------------------------
\* The data-memory handler of NumPy

LEMMA SameMemory ==
  ASSUME IInv, UNCHANGED <<mem, heap, held, call>>
  PROVE  Loose(mem', heap', held', call', <<>>)
<1>1. Loose(mem, heap, held, call, <<>>) /\ mem' = mem /\ heap' = heap /\ held' = held /\ call' = call
  BY DEF IInv
<1> QED
  BY <1>1

LEMMA enter_Step ==
  ASSUME IInv, enter
  PROVE  IInv'
<1> DEFINE names == {"default", "aligned"}
<1>1. Loose(mem', heap', held', call', <<>>)
  BY SameMemory DEF enter
<1>2. /\ saved \in Seq(names) /\ \A i \in DOMAIN saved : saved[i] = "default" <=> i = 1
      /\ handler \in names /\ (handler = "aligned" <=> saved # <<>>)
      /\ Len(saved) < MaxNesting /\ saved' = Append(saved, handler) /\ handler' = "aligned"
  BY DEF IInv, Handlers, enter
<1>3. /\ saved' \in Seq(names) /\ Len(saved') = Len(saved) + 1 /\ DOMAIN saved' = DOMAIN saved \cup {Len(saved) + 1}
      /\ saved'[Len(saved) + 1] = handler /\ \A i \in DOMAIN saved : saved'[i] = saved[i]
      /\ Len(saved) \in Nat /\ DOMAIN saved = 1 .. Len(saved)
  BY <1>2, Appended
<1>4. saved # <<>> <=> Len(saved) > 0
  BY <1>2
<1>5. \A i \in DOMAIN saved' : saved'[i] = "default" <=> i = 1
  <2> SUFFICES ASSUME NEW i \in DOMAIN saved' PROVE saved'[i] = "default" <=> i = 1
    OBVIOUS
  <2>1. CASE i \in DOMAIN saved
    BY <1>2, <1>3, <2>1
  <2>2. CASE i = Len(saved) + 1
    BY <1>2, <1>3, <1>4, <2>2
  <2> QED
    BY <1>3, <2>1, <2>2
<1>6. saved' # <<>> /\ Len(saved') <= MaxNesting
  <2>1. saved' # <<>>
    BY <1>3
  <2> QED
    BY <1>2, <1>3, <2>1, PyMemoryAssumption
<1>7. Handlers'
  BY <1>2, <1>3, <1>5, <1>6 DEF Handlers
<1> QED
  BY <1>1, <1>7 DEF IInv

LEMMA exit_Step ==
  ASSUME IInv, exit
  PROVE  IInv'
<1> DEFINE names == {"default", "aligned"}
           n == Len(saved)
<1>1. Loose(mem', heap', held', call', <<>>)
  BY SameMemory DEF exit
<1>2. /\ saved \in Seq(names) /\ \A i \in DOMAIN saved : saved[i] = "default" <=> i = 1
      /\ handler \in names /\ n <= MaxNesting
      /\ saved # <<>> /\ saved' = SubSeq(saved, 1, n - 1) /\ handler' = saved[n]
  BY DEF IInv, Handlers, exit, Front, Last
<1>3. n \in Nat /\ n > 0 /\ DOMAIN saved = 1 .. n
  BY <1>2
<1>4. /\ saved' \in Seq(names) /\ Len(saved') = n - 1 /\ DOMAIN saved' = 1 .. (n - 1)
      /\ \A i \in 1 .. (n - 1) : saved'[i] = saved[i]
  BY <1>2, <1>3
<1>5. \A i \in DOMAIN saved' : saved'[i] = "default" <=> i = 1
  BY <1>2, <1>3, <1>4
<1>6. saved' # <<>> <=> n > 1
  BY <1>3, <1>4
<1>7. handler' \in names /\ (handler' = "default" <=> n = 1)
  BY <1>2, <1>3
<1>8. Len(saved') <= MaxNesting
  BY <1>2, <1>3, <1>4, PyMemoryAssumption
<1>9. handler' = "aligned" <=> saved' # <<>>
  BY <1>3, <1>6, <1>7
<1>10. Handlers'
  BY <1>4, <1>5, <1>7, <1>8, <1>9 DEF Handlers
<1> QED
  BY <1>1, <1>10 DEF IInv

-----------------------------------------------------------------------------
\* The invariant, and what follows from it

LEMMA Inductive == Spec => []IInv
<1>1. Init => IInv
  <2> SUFFICES ASSUME Init PROVE IInv
    OBVIOUS
  <2>1. mem = <<>> /\ heap = <<>> /\ held = {} /\ call = <<>> /\ handler = "default" /\ saved = <<>>
    BY DEF Init
  <2>2. DOMAIN mem = {} /\ DOMAIN heap = {} /\ mem \in Seq(BlockType) /\ heap \in Seq(ObjectType)
    BY <2>1
  <2>3. Static(mem, heap)
    BY <2>2 DEF Static, Objects, Links, Owners, Points, Newest
  <2>4. CountsWith(heap, held, call, <<>>) /\ Calling(heap, held, call) /\ held \subseteq DOMAIN heap
    BY <2>1, <2>2 DEF CountsWith, Calling
  <2>5. OlderIf(heap) /\ KeptIf(mem, heap, call)
    BY <2>1, <2>2 DEF OlderIf, KeptIf, Older, Kept, NotFleeting
  <2>6. Handlers
    <3>1. saved \in Seq({"default", "aligned"}) /\ DOMAIN saved = {} /\ Len(saved) <= MaxNesting
      BY <2>1, PyMemoryAssumption
    <3> QED
      BY <2>1, <3>1 DEF Handlers
  <2> QED
    BY <2>3, <2>4, <2>5, <2>6 DEF IInv, Loose
<1>2. IInv /\ [Next]_vars => IInv'
  <2> SUFFICES ASSUME IInv, [Next]_vars PROVE IInv'
    OBVIOUS
  <2>1. CASE array
    BY <2>1, array_Step
  <2>2. CASE enter
    BY <2>2, enter_Step
  <2>3. CASE exit
    BY <2>3, exit_Step
  <2>4. CASE \E lens \in Payloads : Tensor_new(lens)
    BY <2>4, Tensor_new_Step
  <2>5. CASE \E handles \in Incoming : adopt(handles)
    BY <2>5, adopt_Step
  <2>6. CASE \E copy \in Copies : \E a \in Arrays : from_numpy(a, copy)
    BY <2>6, from_numpy_Step
  <2>7. CASE \E copy \in Copies : \E a \in Arrays : \E b \in Arrays \ {a} : sparse_coo(a, b, copy)
    BY <2>7, sparse_coo_Step
  <2>8. CASE \E copy \in Copies : \E m \in Named({"Matrix"}) : from_scipy(m, copy)
    BY <2>8, from_scipy_Step
  <2>9. CASE \E a \in Arrays : \E b \in Arrays \ {a} : csr_matrix(a, b)
    BY <2>9, csr_matrix_Step
  <2>10. CASE \E m \in Named({"Matrix"}), a \in Arrays : \E i \in DOMAIN heap[m].refs : Reassign(m, i, a)
    BY <2>10, Reassign_Step
  <2>11. CASE \E t \in Tensors : \E i \in DOMAIN heap[t].bufs : component_view(t, i)
    BY <2>11, component_view_Step
  <2>12. CASE \E t \in Tensors : dlpack(t)
    BY <2>12, dlpack_Step
  <2>13. CASE \E t \in Tensors : asarray(t)
    BY <2>13, asarray_Step
  <2>14. CASE \E t \in Tensors : hurray(t)
    BY <2>14, hurray_Step
  <2>15. CASE \E t \in Tensors : hurray_fails(t)
    BY <2>15, hurray_fails_Step
  <2>16. CASE \E c \in Named({"DlCapsule"}) : from_dlpack(c)
    BY <2>16, from_dlpack_Step
  <2>17. CASE \E x \in Named(IF Fleeting THEN {"Tensor", "Native"} ELSE {"Tensor"}) : Producer(x)
    BY <2>17, Producer_Step
  <2>18. CASE \E obj \in Named({"Tensor", "Producer"}) : from_hurray(obj)
    BY <2>18, from_hurray_Step
  <2>19. CASE from_hurray_takes
    BY <2>19, from_hurray_takes_Step
  <2>20. CASE \E o \in held : Drop(o)
    BY <2>20, Drop_Step
  <2>21. CASE Finalise
    BY <2>21, Finalise_Step
  <2>22. CASE UNCHANGED vars
    <3>1. mem' = mem /\ heap' = heap /\ held' = held /\ call' = call /\ handler' = handler /\ saved' = saved
      BY <2>22 DEF vars
    <3>2. Loose(mem', heap', held', call', <<>>)
      BY <3>1, SameMemory
    <3>3. Handlers'
      BY <3>1 DEF IInv, Handlers
    <3> QED
      BY <3>2, <3>3 DEF IInv
  <2> QED
    BY <2>1, <2>2, <2>3, <2>4, <2>5, <2>6, <2>7, <2>8, <2>9, <2>10, <2>11, <2>12, <2>13, <2>14, <2>15,
       <2>16, <2>17, <2>18, <2>19, <2>20, <2>21, <2>22 DEF Next
<1> QED
  BY <1>1, <1>2, PTL DEF Spec

\* What the invariant says of the objects there are.
LEMMA InvariantTypes ==
  ASSUME IInv
  PROVE  /\ Static(mem, heap) /\ heap \in Seq(ObjectType) /\ Objects(heap) /\ Links(heap)
         /\ Owners(mem, heap) /\ Points(mem, heap) /\ Counts(heap, held, call) /\ TypeOK
         /\ OlderIf(heap) /\ KeptIf(mem, heap, call)
<1>1. /\ Static(mem, heap) /\ heap \in Seq(ObjectType) /\ Objects(heap) /\ Links(heap)
      /\ Owners(mem, heap) /\ Points(mem, heap) /\ Counts(heap, held, call)
      /\ OlderIf(heap) /\ KeptIf(mem, heap, call)
  BY CountsAlone DEF IInv, Loose, Static
<1>2. held \subseteq Unfreed
  BY NamedAlive DEF IInv, Unfreed
<1>3. ASSUME NEW o \in DOMAIN heap
      PROVE  /\ heap[o].kind \in Kinds /\ heap[o].name \in {"fresh", "used"}
             /\ heap[o].owns \subseteq DOMAIN mem
             /\ \A i \in DOMAIN heap[o].bufs : heap[o].bufs[i].block \in DOMAIN mem
             /\ \A i \in DOMAIN heap[o].refs : heap[o].refs[i] \in DOMAIN heap \cup {NoBase}
  <2>1. heap[o] \in ObjectType
    BY <1>1
  <2>2. heap[o].kind \in Kinds /\ heap[o].name \in {"fresh", "used"}
    BY <2>1 DEF ObjectType
  <2> QED
    BY <1>1, <2>2 DEF Owners, Points, Links
<1>4. TypeOK
  BY <1>2, <1>3 DEF TypeOK, Kinds, IInv, Handlers
<1> QED
  BY <1>1, <1>4

\* For every number of objects, buffers of any number and length, and any order of calls: as
\* long as a __hurray__ answers for a tensor its object keeps and no array of a matrix is
\* assigned under a tensor that shares it, no tensor, view, array or unconsumed capsule of
\* hurray-python points into freed memory.
THEOREM BytesStayForReaders ==
  ASSUME ~ Reassigns, ~ Fleeting
  PROVE  Spec => []BytesOutliveReaders
<1>1. IInv => BytesOutliveReaders
  <2> SUFFICES ASSUME IInv PROVE BytesOutliveReaders
    OBVIOUS
  <2>1. TypeOK /\ Kept(mem, heap) /\ Points(mem, heap)
    BY InvariantTypes DEF KeptIf
  <2>2. ASSUME NEW o \in Unfreed, heap[o].name = "fresh", NEW i \in DOMAIN heap[o].bufs
        PROVE  mem[heap[o].bufs[i].block].live
    BY <2>1, <2>2 DEF Kept, Points, Unfreed, Holding, PointsTo
  <2> QED
    BY <2>1, <2>2 DEF BytesOutliveReaders
<1> QED
  BY <1>1, Inductive, PTL

\* An object that nobody finalised has an owner: the program, a call, or an older or newer object.
LEMMA SomebodyOwns ==
  ASSUME IInv, held = {}, ProgramRuns, NEW x \in Unfreed
  PROVE  \E o \in Unfreed : \E i \in DOMAIN heap[o].refs :
           Holding(heap[o]) /\ heap[o].refs[i] = x /\ x # NoBase /\ MayRefer(heap[o].kind, heap[x].kind)
<1>1. /\ heap \in Seq(ObjectType) /\ Counts(heap, held, call) /\ Links(heap) /\ x \in DOMAIN heap
      /\ heap[x].rc # 0 /\ call = <<>>
  BY InvariantTypes DEF Unfreed, ProgramRuns, Garbage
<1>2. heap[x].rc = Cardinality(References(heap, held, call, x))
  BY <1>1 DEF Counts
<1>3. References(heap, held, call, x) # {}
  BY <1>1, <1>2, FS_EmptySet
<1>4. PICK e \in References(heap, held, call, x) : TRUE
  BY <1>3
<1>5. Owning(heap, e[1], e[2], x)
  BY <1>1, <1>4 DEF References
<1>6. x # NoBase
  BY <1>1 DEF NoBase
<1> QED
  BY <1>1, <1>5, <1>6 DEF Owning, Unfreed, Holding, Links

\* Once the program holds nothing everything is finalised: the newest object that is left
\* would have an owner newer still.
LEMMA NothingIsLeft ==
  ASSUME IInv, ~ Reassigns, held = {}, ProgramRuns
  PROVE  Unfreed = {}
<1> SUFFICES ASSUME Unfreed # {} PROVE FALSE
  OBVIOUS
<1>1. heap \in Seq(ObjectType) /\ Older(heap)
  BY InvariantTypes DEF OlderIf
<1>2. Unfreed \subseteq 1 .. Len(heap) /\ Len(heap) \in Nat
  BY <1>1 DEF Unfreed
<1>3. PICK x \in Unfreed : \A y \in Unfreed : y <= x
  BY <1>2, Greatest
<1>4. PICK o \in Unfreed : \E i \in DOMAIN heap[o].refs :
           Holding(heap[o]) /\ heap[o].refs[i] = x /\ x # NoBase /\ MayRefer(heap[o].kind, heap[x].kind)
  BY SomebodyOwns
<1>5. PICK i \in DOMAIN heap[o].refs :
           Holding(heap[o]) /\ heap[o].refs[i] = x /\ x # NoBase /\ MayRefer(heap[o].kind, heap[x].kind)
  BY <1>4
<1>6. x \in Nat /\ o \in Nat /\ o <= x /\ o \in DOMAIN heap
  BY <1>2, <1>3 DEF Unfreed
<1>7. heap[o].kind = "Matrix"
  <2> SUFFICES ASSUME heap[o].kind # "Matrix" PROVE FALSE
    OBVIOUS
  <2>1. x < o
    BY <1>1, <1>5, <1>6 DEF Older
  <2> QED
    BY <1>6, <2>1
<1>8. PICK t \in Unfreed : \E j \in DOMAIN heap[t].refs :
           Holding(heap[t]) /\ heap[t].refs[j] = o /\ o # NoBase /\ MayRefer(heap[t].kind, heap[o].kind)
  BY SomebodyOwns
<1>9. PICK j \in DOMAIN heap[t].refs :
           Holding(heap[t]) /\ heap[t].refs[j] = o /\ o # NoBase /\ MayRefer(heap[t].kind, heap[o].kind)
  BY <1>8
<1>10. t \in Nat /\ t <= x /\ t \in DOMAIN heap
  BY <1>2, <1>3 DEF Unfreed
<1>11. heap[t].kind # "Matrix"
  BY <1>7, <1>9 DEF MayRefer
<1>12. \A n \in DOMAIN heap[o].refs : heap[o].refs[n] < t
  BY <1>1, <1>7, <1>9, <1>10, <1>11 DEF Older
<1>13. x < t
  BY <1>5, <1>12
<1> QED
  BY <1>6, <1>10, <1>13

\* For every number of objects and any order of calls: no object, capsule list or capsule
\* context of hurray-python is destroyed twice or counted below zero; and when the program has
\* dropped all it held, every object and every allocation is gone, and every capsule's list
\* and context was destroyed, once.  (An array that is assigned to the matrix it comes from
\* makes a cycle, which counting cannot free: hence the hypothesis.)
THEOREM EverythingIsReleasedOnce ==
  ASSUME ~ Reassigns
  PROVE  Spec => []ReleasedExactlyOnce
<1>1. IInv => ReleasedExactlyOnce
  <2> SUFFICES ASSUME IInv PROVE ReleasedExactlyOnce
    OBVIOUS
  <2>1. heap \in Seq(ObjectType) /\ Objects(heap) /\ Counts(heap, held, call) /\ Owners(mem, heap)
    BY InvariantTypes
  <2>2. ASSUME NEW o \in DOMAIN heap
        PROVE  heap[o].freed <= 1 /\ heap[o].list <= 1 /\ heap[o].ctx <= 1 /\ heap[o].rc >= 0
    <3>1. heap[o] \in ObjectType /\ ObjectOK(heap[o])
      BY <2>1 DEF Objects
    <3>2. heap[o].freed <= 1
      BY <3>1 DEF ObjectOK
    <3>3. heap[o].rc >= 0
      <4>1. /\ IsFiniteSet(References(heap, held, call, o))
            /\ heap[o].rc = Cardinality(References(heap, held, call, o))
        BY <2>1 DEF Counts
      <4> QED
        BY <4>1, FS_CardinalityType
    <3>4. heap[o].refs \in Seq(Nat) /\ heap[o].ctx \in Nat
      BY <3>1 DEF ObjectType
    <3>5. Len(heap[o].refs) \in Nat
      BY <3>4
    <3>6. CASE heap[o].kind # "Native"
      BY <3>1, <3>2, <3>3, <3>6 DEF ObjectOK
    <3>7. CASE heap[o].kind = "Native" /\ Holding(heap[o])
      <4>1. heap[o].list = 0 /\ heap[o].ctx + Len(heap[o].refs) = 1
        BY <3>1, <3>7 DEF ObjectOK
      <4> QED
        BY <3>2, <3>3, <3>4, <3>5, <4>1
    <3>8. CASE heap[o].kind = "Native" /\ ~ Holding(heap[o])
      BY <3>1, <3>2, <3>3, <3>8 DEF ObjectOK
    <3> QED
      BY <3>6, <3>7, <3>8
  <2>3. ASSUME held = {}, ProgramRuns
        PROVE  /\ Unfreed = {}
               /\ \A b \in DOMAIN mem : ~ mem[b].live
               /\ \A o \in Native_ : heap[o].list = 1 /\ heap[o].ctx = 1
    <3>1. Unfreed = {}
      BY <2>3, NothingIsLeft
    <3>2. ASSUME NEW o \in DOMAIN heap PROVE heap[o].freed = 1 /\ ObjectOK(heap[o])
      <4>1. heap[o] \in ObjectType /\ ObjectOK(heap[o])
        BY <2>1 DEF Objects
      <4>2. heap[o].freed \in Nat /\ heap[o].freed <= 1 /\ heap[o].freed # 0
        BY <3>1, <4>1 DEF Unfreed, ObjectType, ObjectOK
      <4> QED
        BY <4>1, <4>2
    <3>3. \A b \in DOMAIN mem : ~ mem[b].live
      BY <2>1, <3>2 DEF Owners, ObjectOK
    <3>4. \A o \in Native_ : heap[o].list = 1 /\ heap[o].ctx = 1
      BY <3>2 DEF Native_, ObjectOK, Holding
    <3> QED
      BY <3>1, <3>3, <3>4
  <2> QED
    BY <2>2, <2>3 DEF ReleasedExactlyOnce
<1> QED
  BY <1>1, Inductive, PTL

\* For every program, whatever its objects answer and however it assigns: a tensor declares of
\* its bytes an alignment they have and the format accepts, bytes that a consumer must wait for
\* are so declared and in no array, and NumPy has its own handler outside aligned_allocator().
THEOREM DeclarationsAreTrue == Spec => []SharingIsHonest
<1>1. IInv => SharingIsHonest
  <2> SUFFICES ASSUME IInv PROVE SharingIsHonest
    OBVIOUS
  <2>1. Points(mem, heap)
    BY InvariantTypes
  <2>2. ASSUME NEW o \in Unfreed, NEW i \in DOMAIN mem,
               NEW u \in {v \in Range(heap[o].bufs) : v.block = i}
        PROVE  Declares(heap[o].kind, u, mem[i])
    <3>1. PICK j \in DOMAIN heap[o].bufs : heap[o].bufs[j] = u
      BY DEF Range
    <3>2. o \in DOMAIN heap /\ u.block = i
      BY DEF Unfreed
    <3> QED
      BY <2>1, <3>1, <3>2 DEF Points
  <2>3. handler = "aligned" <=> saved # <<>>
    BY DEF IInv, Handlers
  <2> QED
    BY <2>2, <2>3 DEF SharingIsHonest, Declares
<1> QED
  BY <1>1, Inductive, PTL
=============================================================================
