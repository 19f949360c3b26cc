--------------------------- MODULE StreamRead_proof ---------------------------
(***************************************************************************)
(* The reader hands over whole tensors only and loses no byte: proof, for  *)
(* every transport content, way of cutting the reads and driver failure.   *)
(***************************************************************************)
EXTENDS StreamRead, WellFoundedInduction, TLAPS
-----------------------------------------------------------------------------
(***************************************************************************)
(* Facts about the concatenation of sequences.  Joined is a recursive      *)
(* function; what it returns is proved from its definition, by taking the  *)
(* least length at which the fact would fail.                              *)
(***************************************************************************)

\* A set of natural numbers that is not empty has a least element.
LEMMA Least ==
  ASSUME NEW T, T \subseteq Nat, T # {}
  PROVE  \E x \in T : \A y \in T : x <= y
<1>1. PICK x \in T : \A y \in T : ~ (<<y, x>> \in OpToRel(<, Nat))
  BY NatLessThanWellFounded, WFMin
<1>2. \A y \in T : ~ (y < x)
  BY <1>1 DEF OpToRel
<1> QED
  BY <1>2

\* f[i] is the concatenation of the first i elements of s, for i up to n.
Chain(f, s, n) == f = [i \in 0 .. n |-> IF i = 0 THEN <<>> ELSE f[i - 1] \o s[i]]

\* One element of a chain.
LEMMA ChainStep ==
  ASSUME NEW f, NEW s, NEW n \in Nat, Chain(f, s, n), NEW i \in 0 .. n
  PROVE  f[i] = IF i = 0 THEN <<>> ELSE f[i - 1] \o s[i]
BY DEF Chain

\* Every sequence has a chain, of every length.
LEMMA ChainExists ==
  ASSUME NEW s, NEW k \in Nat
  PROVE  \E f : Chain(f, s, k)
<1> DEFINE T == {n \in Nat : ~ \E f : Chain(f, s, n)}
<1> SUFFICES ASSUME T # {} PROVE FALSE
  OBVIOUS
<1>1. T \subseteq Nat
  OBVIOUS
<1>2. PICK n \in T : \A m \in T : n <= m
  BY <1>1, Least
<1>3. n \in Nat /\ ~ \E f : Chain(f, s, n)
  OBVIOUS
<1>4. \A m \in Nat : m < n => \E f : Chain(f, s, m)
  BY <1>2, <1>3
<1> HIDE DEF T
<1>5. CASE n = 0
  <2> DEFINE f == [i \in 0 .. 0 |-> <<>>]
  <2>1. Chain(f, s, 0)
    BY DEF Chain
  <2> QED
    BY <1>3, <1>5, <2>1
<1>6. CASE n # 0
  <2>1. n - 1 \in Nat /\ n - 1 < n
    BY <1>3, <1>6
  <2>2. PICK f : Chain(f, s, n - 1)
    BY <1>4, <2>1
  <2> DEFINE g == [i \in 0 .. n |-> IF i = n THEN f[n - 1] \o s[n] ELSE f[i]]
  <2>3. ASSUME NEW i \in 0 .. n PROVE g[i] = IF i = 0 THEN <<>> ELSE g[i - 1] \o s[i]
    <3>1. CASE i = n
      BY <1>3, <1>6, <2>1, <3>1
    <3>2. CASE i # n
      <4>1. i \in 0 .. n - 1 /\ g[i] = f[i]
        BY <1>3, <3>2
      <4>2. f[i] = IF i = 0 THEN <<>> ELSE f[i - 1] \o s[i]
        BY <2>1, <2>2, <4>1, ChainStep
      <4>3. i # 0 => g[i - 1] = f[i - 1]
        BY <1>3, <4>1
      <4> QED
        BY <4>1, <4>2, <4>3
    <3> QED
      BY <3>1, <3>2
  <2>4. Chain(g, s, n)
    BY <2>3 DEF Chain
  <2> QED
    BY <1>3, <2>4
<1> QED
  BY <1>5, <1>6

\* It is made of sequences, and depends on those elements of s only.
LEMMA ChainType ==
  ASSUME NEW B, NEW s \in Seq(Seq(B)), NEW n \in 0 .. Len(s), NEW f, Chain(f, s, n)
  PROVE  \A i \in 0 .. n : f[i] \in Seq(B)
<1> DEFINE T == {i \in 0 .. n : f[i] \notin Seq(B)}
<1> SUFFICES ASSUME T # {} PROVE FALSE
  OBVIOUS
<1>1. T \subseteq Nat
  OBVIOUS
<1>2. PICK i \in T : \A j \in T : i <= j
  BY <1>1, Least
<1>3. i \in 0 .. n /\ f[i] \notin Seq(B) /\ \A j \in 0 .. n : j < i => f[j] \in Seq(B)
  BY <1>2
<1> HIDE DEF T
<1>4. n \in Nat /\ (i # 0 => s[i] \in Seq(B))
  BY <1>3
<1>5. f[i] = IF i = 0 THEN <<>> ELSE f[i - 1] \o s[i]
  BY <1>3, <1>4, ChainStep
<1>6. i # 0 => f[i - 1] \in Seq(B)
  BY <1>3, <1>4
<1> QED
  BY <1>3, <1>4, <1>5, <1>6

\* s and t agree up to n.
Same(s, t, n) == \A i \in 1 .. n : s[i] = t[i]

\* Two chains agree as far as their sequences do.
LEMMA ChainAgree ==
  ASSUME NEW s, NEW t, NEW n \in Nat, NEW m \in Nat, n <= m, Same(s, t, n),
         NEW f, NEW g, Chain(f, s, n), Chain(g, t, m)
  PROVE  f[n] = g[n]
<1> DEFINE T == {i \in 0 .. n : f[i] # g[i]}
<1> SUFFICES ASSUME T # {} PROVE FALSE
  OBVIOUS
<1>1. T \subseteq Nat
  OBVIOUS
<1>2. PICK i \in T : \A j \in T : i <= j
  BY <1>1, Least
<1>3. i \in 0 .. n /\ f[i] # g[i] /\ \A j \in 0 .. n : j < i => f[j] = g[j]
  BY <1>2
<1> HIDE DEF T
<1>4. f[i] = IF i = 0 THEN <<>> ELSE f[i - 1] \o s[i]
  BY <1>3, ChainStep
<1>5. i \in 0 .. m
  BY <1>3
<1>6. g[i] = IF i = 0 THEN <<>> ELSE g[i - 1] \o t[i]
  BY <1>5, ChainStep
<1>7. i # 0 => i - 1 \in 0 .. n /\ i - 1 < i /\ i \in 1 .. n
  BY <1>3
<1> QED
  BY <1>3, <1>4, <1>6, <1>7 DEF Same

\* A concatenation is the last element of its chain.
LEMMA JoinedIsChain ==
  ASSUME NEW s, Len(s) \in Nat
  PROVE  \E f : Chain(f, s, Len(s)) /\ Joined(s) = f[Len(s)]
<1>1. \E f : Chain(f, s, Len(s))
  BY ChainExists
<1> DEFINE f == CHOOSE f : Chain(f, s, Len(s))
<1>2. Chain(f, s, Len(s))
  BY <1>1
<1>3. Joined(s) = f[Len(s)]
  BY DEF Joined, Chain
<1> QED
  BY <1>2, <1>3

\* A concatenation of sequences is a sequence.
LEMMA JoinedType ==
  ASSUME NEW B, NEW s \in Seq(Seq(B))
  PROVE  Joined(s) \in Seq(B) /\ (s = <<>> => Joined(s) = <<>>)
<1>1. Len(s) \in Nat /\ (s = <<>> => Len(s) = 0)
  OBVIOUS
<1>2. PICK f : Chain(f, s, Len(s)) /\ Joined(s) = f[Len(s)]
  BY <1>1, JoinedIsChain
<1>3. \A i \in 0 .. Len(s) : f[i] \in Seq(B)
  BY <1>1, <1>2, ChainType
<1>4. 0 \in 0 .. Len(s)
  BY <1>1
<1>5. f[0] = <<>>
  BY <1>1, <1>2, <1>4, ChainStep
<1> QED
  BY <1>1, <1>2, <1>3, <1>5

\* One more element is concatenated at the end.
LEMMA JoinedAppend ==
  ASSUME NEW B, NEW s \in Seq(Seq(B)), NEW x \in Seq(B)
  PROVE  Joined(Append(s, x)) = Joined(s) \o x
<1> DEFINE t == Append(s, x)
<1>1. /\ t \in Seq(Seq(B)) /\ Len(s) \in Nat /\ Len(t) = Len(s) + 1
      /\ t[Len(t)] = x /\ \A i \in 1 .. Len(s) : s[i] = t[i]
  OBVIOUS
<1> HIDE DEF t
<1>2. Len(t) \in Nat /\ Len(t) \in 0 .. Len(t) /\ Len(t) # 0 /\ Len(t) - 1 = Len(s) /\ Len(s) <= Len(t)
  BY <1>1
<1>3. PICK f : Chain(f, s, Len(s)) /\ Joined(s) = f[Len(s)]
  BY <1>1, JoinedIsChain
<1>4. PICK g : Chain(g, t, Len(t)) /\ Joined(t) = g[Len(t)]
  BY <1>2, JoinedIsChain
<1>5. g[Len(t)] = g[Len(s)] \o x
  <2>1. g[Len(t)] = IF Len(t) = 0 THEN <<>> ELSE g[Len(t) - 1] \o t[Len(t)]
    BY <1>2, <1>4, ChainStep
  <2> QED
    BY <1>1, <1>2, <2>1
<1>6. f[Len(s)] = g[Len(s)]
  <2>1. Same(s, t, Len(s))
    BY <1>1 DEF Same
  <2> QED
    BY <1>1, <1>2, <1>3, <1>4, <2>1, ChainAgree
<1> QED
  BY <1>3, <1>4, <1>5, <1>6 DEF t

\* Concatenation is associative,
LEMMA CatAssoc ==
  ASSUME NEW B, NEW s \in Seq(B), NEW t \in Seq(B), NEW u \in Seq(B)
  PROVE  (s \o t) \o u = s \o (t \o u)
OBVIOUS

\* and the empty sequence is neutral.
LEMMA CatEmpty == ASSUME NEW B, NEW s \in Seq(B) PROVE s \o <<>> = s /\ <<>> \o s = s
OBVIOUS

\* A constant function on an initial segment is a sequence.
LEMMA Empties ==
  ASSUME NEW S, NEW x \in S, NEW m \in Nat PROVE [k \in 1 .. m |-> x] \in Seq(S)
OBVIOUS

\* Empty sequences add nothing.
LEMMA JoinedEmpties ==
  ASSUME NEW B, NEW s \in Seq(Seq(B)), NEW m \in Nat
  PROVE  Joined(s \o [k \in 1 .. m |-> <<>>]) = Joined(s)
<1> DEFINE Padded(n) == s \o [k \in 1 .. n |-> <<>>]
           T == {n \in Nat : Joined(Padded(n)) # Joined(s)}
<1> SUFFICES ASSUME T # {} PROVE FALSE
  OBVIOUS
<1>1. T \subseteq Nat
  OBVIOUS
<1>2. PICK n \in T : \A j \in T : n <= j
  BY <1>1, Least
<1>3. n \in Nat /\ Joined(Padded(n)) # Joined(s)
      /\ \A j \in Nat : j < n => Joined(Padded(j)) = Joined(s)
  BY <1>2
<1> HIDE DEF T
<1>4. CASE n = 0
  <2>1. Padded(0) = s
    OBVIOUS
  <2> QED
    BY <1>3, <1>4, <2>1
<1>5. CASE n # 0
  <2>1. n - 1 \in Nat /\ n - 1 < n
    BY <1>3, <1>5
  <2>2. <<>> \in Seq(B)
    OBVIOUS
  <2>3. Padded(n - 1) \in Seq(Seq(B))
    <3> DEFINE e == [k \in 1 .. n - 1 |-> <<>>]
    <3>1. e \in Seq(Seq(B))
      BY <2>1, <2>2, Empties
    <3> HIDE DEF e
    <3>2. s \o e \in Seq(Seq(B))
      BY <3>1
    <3> QED
      BY <3>2 DEF e
  <2>4. Padded(n) = Append(Padded(n - 1), <<>>)
    BY <1>3, <2>1
  <2> HIDE DEF Padded
  <2>5. Joined(Padded(n)) = Joined(Padded(n - 1)) \o <<>>
    BY <2>2, <2>3, <2>4, JoinedAppend
  <2>6. Joined(Padded(n - 1)) \in Seq(B)
    BY <2>3, JoinedType
  <2> QED
    BY <1>3, <2>1, <2>5, <2>6, CatEmpty
<1> QED
  BY <1>4, <1>5

-----------------------------------------------------------------------------

\* The buffers a tensor already has are as long as their handles say.
Partial(id, buffers) ==
  \A i \in 1 .. Len(buffers) : Len(buffers[i]) = Desc[id].bufs[i].size

\* How far the frame in progress is: which buffers of `pending` are full, and that the
\* target being filled is the next one.
Assembling ==
  /\ rstate \in {"Prefix", "Descriptor"} => Len(rstaging) = filled
  /\ rstate = "Prefix" => target = PrefixLen
  /\ rstate = "Descriptor" => target > PrefixLen
  /\ rstate = "Buffer" =>
       /\ Len(pending) = 1
       /\ Len(pending[1].buffers) = rindex - 1
       /\ rindex \in 1 .. Len(Desc[pending[1].id].bufs)
       /\ Partial(pending[1].id, pending[1].buffers)
       /\ target = Desc[pending[1].id].bufs[rindex].size
       /\ Len(dest) = filled
  /\ rstate = "TensorReady" => Len(ready) = 1

IInv == TypeOK /\ Assembling /\ OnlyWholeTensors

-----------------------------------------------------------------------------
\* The empty sequence and a singleton are sequences over any set.
LEMMA ShortSeq == \A S : <<>> \in Seq(S) /\ \A x \in S : <<x>> \in Seq(S)
OBVIOUS

\* A concatenation is a sequence, and where its elements are.
LEMMA ConcatElements ==
  ASSUME NEW S, NEW s \in Seq(S), NEW t \in Seq(S)
  PROVE  /\ s \o t \in Seq(S) /\ Len(s \o t) = Len(s) + Len(t)
         /\ \A i \in 1 .. Len(s) : (s \o t)[i] = s[i]
         /\ \A i \in Len(s) + 1 .. Len(s) + Len(t) : (s \o t)[i] = t[i - Len(s)]
OBVIOUS

\* The buffer table of a descriptor.
LEMMA TableType ==
  ASSUME NEW id \in Ids
  PROVE  /\ Len(Desc[id].bufs) \in Nat
         /\ \A k \in 1 .. Len(Desc[id].bufs) : Desc[id].bufs[k].size \in Nat
<1> DEFINE Handle == [size : Nat, synced : BOOLEAN, allocatable : BOOLEAN]
<1>1. Desc[id].bufs \in Seq(Handle)
  BY DescAssumption DEF Ids
<1>2. \A k \in 1 .. Len(Desc[id].bufs) : Desc[id].bufs[k] \in Handle
  <2> HIDE DEF Handle
  <2> QED
    BY <1>1
<1> QED
  BY <1>1, <1>2

\* Passing over empty buffers up to number n leaves a correct partial tensor.
LEMMA PassedToIsPartial ==
  ASSUME NEW id \in Ids, NEW buffers \in Seq(Seq(Byte)), Partial(id, buffers),
         NEW n \in Len(buffers) + 1 .. Len(Desc[id].bufs) + 1,
         \A k \in Len(buffers) + 1 .. n - 1 : Desc[id].bufs[k].size = 0
  PROVE  /\ PassedTo(buffers, n) \in Seq(Seq(Byte))
         /\ Len(PassedTo(buffers, n)) = n - 1
         /\ Partial(id, PassedTo(buffers, n))
<1> DEFINE S == Seq(Byte)
           gap == [k \in 1 .. n - 1 - Len(buffers) |-> <<>>]
<1>1. Len(buffers) \in Nat /\ n \in Nat /\ n - 1 - Len(buffers) \in Nat
  BY TableType
<1>2. <<>> \in S /\ buffers \in Seq(S)
  OBVIOUS
<1>3. gap \in Seq(S) /\ Len(gap) = n - 1 - Len(buffers)
  <2> HIDE DEF S
  <2> QED
    BY <1>1, <1>2
<1>4. \A k \in 1 .. Len(gap) : gap[k] = <<>>
  BY <1>1, <1>3
<1> HIDE DEF S, gap
<1>5. /\ buffers \o gap \in Seq(S) /\ Len(buffers \o gap) = Len(buffers) + Len(gap)
      /\ \A i \in 1 .. Len(buffers) : (buffers \o gap)[i] = buffers[i]
      /\ \A i \in Len(buffers) + 1 .. Len(buffers) + Len(gap) :
            (buffers \o gap)[i] = gap[i - Len(buffers)]
  BY <1>2, <1>3, ConcatElements
<1>6. PassedTo(buffers, n) = buffers \o gap
  BY DEF PassedTo, gap
<1>7. ASSUME NEW i \in 1 .. n - 1
      PROVE  Len((buffers \o gap)[i]) = Desc[id].bufs[i].size
  <2>1. CASE i \in 1 .. Len(buffers)
    BY <1>5, <2>1 DEF Partial
  <2>2. CASE i \in Len(buffers) + 1 .. n - 1
    <3>1. (buffers \o gap)[i] = gap[i - Len(buffers)] /\ i - Len(buffers) \in 1 .. Len(gap)
      BY <1>1, <1>3, <1>5, <2>2
    <3>2. Len((buffers \o gap)[i]) = 0
      BY <1>4, <3>1
    <3> QED
      BY <2>2, <3>2
  <2>3. i \in 1 .. Len(buffers) \/ i \in Len(buffers) + 1 .. n - 1
    BY <1>1
  <2> QED
    BY <2>1, <2>2, <2>3
<1>8. Len(buffers \o gap) = n - 1
  BY <1>1, <1>3, <1>5
<1> QED
  BY <1>5, <1>6, <1>7, <1>8 DEF S, Partial

\* begin_buffer on a correct partial tensor leaves the core with a correct partial tensor
\* and the next buffer as target, with a whole tensor, or failed.
LEMMA BeginBuffersSafe ==
  ASSUME IInv, NEW id \in Ids, NEW buffers \in Seq(Seq(Byte)),
         Partial(id, buffers), Len(buffers) <= Len(Desc[id].bufs),
         BeginBuffers(id, buffers),
         UNCHANGED <<wire, eof, pos, rstaging, delivered>>
  PROVE  IInv'
<1> DEFINE table == Desc[id].bufs
           stops == Stops(id, Len(buffers) + 1)
           t(n)  == [id |-> id, buffers |-> PassedTo(buffers, n)]
<1>1. Len(table) \in Nat /\ Len(buffers) \in Nat
  BY TableType
<1>2. \A k \in Len(buffers) + 1 .. Len(table) : k \notin stops => table[k].size = 0
  BY <1>1, TableType DEF Stops
<1>3. CASE stops = {} /\ rstate' = "TensorReady" /\ ready' = <<t(Len(table) + 1)>>
           /\ pending' = <<>> /\ dest' = <<>> /\ UNCHANGED <<rindex, target, filled>>
  <2>1. /\ PassedTo(buffers, Len(table) + 1) \in Seq(Seq(Byte))
        /\ Len(PassedTo(buffers, Len(table) + 1)) = Len(table)
        /\ Partial(id, PassedTo(buffers, Len(table) + 1))
    <3> DEFINE n == Len(table) + 1
    <3>1. n \in Len(buffers) + 1 .. Len(table) + 1 /\ n - 1 = Len(table)
      BY <1>1
    <3>2. \A k \in Len(buffers) + 1 .. n - 1 : table[k].size = 0
      BY <1>2, <1>3, <3>1
    <3> HIDE DEF n
    <3>3. /\ PassedTo(buffers, n) \in Seq(Seq(Byte)) /\ Len(PassedTo(buffers, n)) = n - 1
          /\ Partial(id, PassedTo(buffers, n))
      BY <3>1, <3>2, PassedToIsPartial
    <3> QED
      BY <3>1, <3>3 DEF n
  <2>2. t(Len(table) + 1) \in Tensor
    BY <2>1 DEF Tensor
  <2>3. Whole(t(Len(table) + 1))
    <3> DEFINE b == PassedTo(buffers, Len(table) + 1)
    <3> HIDE DEF b
    <3>1. b \in Seq(Seq(Byte)) /\ Len(b) = Len(table) /\ Partial(id, b)
      BY <2>1 DEF b
    <3>2. DOMAIN b = 1 .. Len(b)
      BY <3>1
    <3>3. Whole([id |-> id, buffers |-> b])
      BY <3>1, <3>2 DEF Whole, Partial
    <3> QED
      BY <3>3 DEF b
  <2> HIDE DEF t
  <2>4. /\ ready' \in Seq(Tensor) /\ Len(ready') = 1 /\ ready'[1] = t(Len(table) + 1)
        /\ pending' \in Seq(Tensor) /\ Len(pending') = 0 /\ dest' \in Seq(Byte)
    BY <1>3, <2>2, ShortSeq
  <2>5. TypeOK'
    BY <1>3, <2>4 DEF IInv, TypeOK, Filling
  <2>6. Assembling'
    BY <1>3, <2>4 DEF Assembling
  <2>7. OnlyWholeTensors'
    BY <2>3, <2>4 DEF IInv, OnlyWholeTensors
  <2> QED
    BY <2>5, <2>6, <2>7 DEF IInv
<1>4. ASSUME NEW k \in stops, \A l \in stops : k <= l,
             pending' = <<t(k)>>, dest' = <<>>, UNCHANGED ready,
             \/ rstate' = "Failed" /\ UNCHANGED <<rindex, target, filled>>
             \/ /\ rstate' = "Buffer" /\ rindex' = k
                /\ target' = table[k].size /\ filled' = 0
      PROVE  IInv'
  <2>1. k \in Len(buffers) + 1 .. Len(table)
    BY DEF Stops
  <2>2. \A l \in Len(buffers) + 1 .. k - 1 : table[l].size = 0
    BY <1>1, <1>2, <1>4, <2>1
  <2>3. /\ PassedTo(buffers, k) \in Seq(Seq(Byte)) /\ Len(PassedTo(buffers, k)) = k - 1
        /\ Partial(id, PassedTo(buffers, k))
    BY <1>1, <2>1, <2>2, PassedToIsPartial
  <2>4. t(k) \in Tensor /\ t(k).id = id /\ t(k).buffers = PassedTo(buffers, k)
    BY <2>3 DEF Tensor
  <2>5. table[k].size \in Nat /\ k \in Nat /\ k \in 1 .. Len(table)
    BY <1>1, <2>1, TableType
  <2> HIDE DEF t, stops
  <2>6. /\ pending' \in Seq(Tensor) /\ Len(pending') = 1 /\ pending'[1] = t(k)
        /\ dest' \in Seq(Byte) /\ Len(dest') = 0
    BY <1>4, <2>4, ShortSeq
  <2>7. TypeOK'
    <3>1. CASE rstate' = "Failed" /\ UNCHANGED <<rindex, target, filled>>
      BY <1>4, <2>6, <3>1 DEF IInv, TypeOK, Filling
    <3>2. CASE /\ rstate' = "Buffer" /\ rindex' = k
               /\ target' = table[k].size /\ filled' = 0
      <4>1. rindex' \in Nat /\ target' \in Nat /\ filled' \in Nat /\ filled' <= target'
        BY <2>5, <3>2
      <4> QED
        BY <1>4, <2>6, <3>2, <4>1 DEF IInv, TypeOK, Filling
    <3> QED
      BY <1>4, <3>1, <3>2
  <2>8. Assembling'
    BY <1>4, <2>3, <2>4, <2>5, <2>6 DEF Assembling
  <2>9. OnlyWholeTensors'
    BY <1>4 DEF IInv, OnlyWholeTensors
  <2> QED
    BY <2>7, <2>8, <2>9 DEF IInv
<1> QED
  BY <1>3, <1>4 DEF BeginBuffers

\* The inductive invariant holds initially.
LEMMA ReadInitSafe == Init => IInv
<1> SUFFICES ASSUME Init PROVE IInv
  OBVIOUS
<1>1. /\ wire \in Seq(Byte) /\ eof \in BOOLEAN /\ pos \in 0 .. Len(wire)
      /\ rstaging \in Seq(Byte) /\ dest \in Seq(Byte) /\ Len(rstaging) = 0
      /\ pending \in Seq(Tensor) /\ Len(pending) = 0 /\ ready \in Seq(Tensor)
      /\ Len(ready) = 0 /\ delivered \in Seq(Tensor) /\ ready = <<>> /\ delivered = <<>>
  BY WiresAssumption, ShortSeq DEF Init, ReadInit
<1> QED
  BY <1>1, PrefixLenAssumption DEF Init, ReadInit, IInv, TypeOK, Filling, Assembling,
                                   OnlyWholeTensors

\* step() preserves the inductive invariant.
LEMMA ReadStepSafe == ASSUME IInv, ReadStep, UNCHANGED <<wire, eof>> PROVE IInv'
<1>1. CASE StepPrefix
  <2>1. /\ UNCHANGED <<pos, rindex, filled, rstaging, pending, dest, ready, delivered>>
        /\ rstate = "Prefix" /\ target - filled = 0
        /\ \/ rstate' = "Failed" /\ target' = target
           \/ /\ rstate' = "Descriptor" /\ target' = descriptor_length
              /\ descriptor_length > PrefixLen
    BY <1>1 DEF StepPrefix, unfilled, Filling
  <2>2. /\ target = PrefixLen /\ Len(rstaging) = filled /\ filled = PrefixLen
        /\ PrefixLen \in Nat \ {0} /\ rstaging \in Seq(Byte)
    BY <2>1, PrefixLenAssumption DEF IInv, Assembling, TypeOK
  <2>3. descriptor_length \in Nat
    <3>1. rstaging[1] \in Byte
      BY <2>2
    <3>2. rstaging[1].id \in Ids
      BY <3>1 DEF Byte
    <3> QED
      BY <3>2, DescAssumption DEF descriptor_length, Ids
  <2>4. TypeOK' /\ Assembling'
    BY <1>1, <2>1, <2>2, <2>3 DEF IInv, TypeOK, Assembling, Filling
  <2> QED
    BY <2>1, <2>4 DEF IInv, OnlyWholeTensors
<1>2. CASE StepDescriptor
  <2>1. /\ Len(rstaging) = filled /\ target - filled = 0 /\ target > PrefixLen
        /\ rstaging \in Seq(Byte) /\ target \in Nat /\ filled \in Nat
    BY <1>2 DEF StepDescriptor, unfilled, Filling, IInv, Assembling, TypeOK
  <2>2. rstaging[1].id \in Ids
    <3>1. rstaging[1] \in Byte
      BY <2>1, PrefixLenAssumption
    <3> QED
      BY <3>1 DEF Byte
  <2>3. CASE /\ rstate' = "Failed"
             /\ UNCHANGED <<rindex, target, filled, pending, dest, ready>>
    BY <1>2, <2>3 DEF StepDescriptor, IInv, TypeOK, Assembling, Filling, OnlyWholeTensors
  <2>4. CASE BeginBuffers(rstaging[1].id, <<>>)
    <3>1. <<>> \in Seq(Seq(Byte)) /\ Partial(rstaging[1].id, <<>>)
      BY ShortSeq DEF Partial
    <3>2. Len(<<>>) <= Len(Desc[rstaging[1].id].bufs)
      BY <2>2, TableType
    <3> QED
      BY <1>2, <2>2, <2>4, <3>1, <3>2, BeginBuffersSafe DEF StepDescriptor
  <2> QED
    BY <1>2, <2>3, <2>4 DEF StepDescriptor
<1>3. CASE StepBuffer
  <2> DEFINE id == pending[1].id
             old == pending[1].buffers
  <2>1. /\ Len(pending) = 1 /\ Len(old) = rindex - 1
        /\ rindex \in 1 .. Len(Desc[id].bufs) /\ Partial(id, old)
        /\ target = Desc[id].bufs[rindex].size /\ Len(dest) = filled
        /\ target - filled = 0
    BY <1>3 DEF StepBuffer, unfilled, Filling, IInv, Assembling
  <2>2. target \in Nat /\ filled \in Nat /\ dest \in Seq(Byte) /\ pending \in Seq(Tensor)
    BY DEF IInv, TypeOK
  <2>3. pending[1] \in Tensor
    <3>1. 1 \in 1 .. Len(pending)
      BY <2>1
    <3> QED
      BY <2>2, <3>1
  <2>4. id \in Ids /\ old \in Seq(Seq(Byte))
    BY <2>3 DEF Tensor
  <2>5. Len(Desc[id].bufs) \in Nat
    BY <2>4, TableType
  <2>6. BeginBuffers(id, Append(old, dest))
    BY <1>3 DEF StepBuffer
  <2> HIDE DEF id, old
  <2>7. /\ Append(old, dest) \in Seq(Seq(Byte)) /\ Len(Append(old, dest)) = rindex
        /\ \A i \in 1 .. rindex - 1 : Append(old, dest)[i] = old[i]
        /\ Append(old, dest)[rindex] = dest
    <3> DEFINE S == Seq(Byte)
    <3>1. old \in Seq(S) /\ dest \in S
      BY <2>2, <2>4
    <3> HIDE DEF S
    <3>2. /\ Append(old, dest) \in Seq(S) /\ Len(Append(old, dest)) = Len(old) + 1
          /\ \A i \in 1 .. Len(old) : Append(old, dest)[i] = old[i]
          /\ Append(old, dest)[Len(old) + 1] = dest
      BY <3>1
    <3>3. Len(old) + 1 = rindex
      BY <2>1, <2>5
    <3> QED
      BY <2>1, <3>2, <3>3 DEF S
  <2>8. Partial(id, Append(old, dest))
    BY <2>1, <2>2, <2>5, <2>7 DEF Partial
  <2>9. Len(Append(old, dest)) <= Len(Desc[id].bufs)
    BY <2>1, <2>5, <2>7
  <2> QED
    BY <1>3, <2>4, <2>6, <2>7, <2>8, <2>9, BeginBuffersSafe DEF StepBuffer
<1> QED
  BY <1>1, <1>2, <1>3 DEF ReadStep

\* A read, and its report, preserve the inductive invariant.
LEMMA ReportFilledSafe ==
  ASSUME IInv, NEW n \in 1 .. unfilled, report_filled(n), UNCHANGED <<wire, eof>>
  PROVE  IInv'
<1> DEFINE got == SubSeq(wire, pos + 1, pos + n)
<1>1. /\ wire \in Seq(Byte) /\ pos \in 0 .. Len(wire) /\ Len(wire) \in Nat
      /\ rstaging \in Seq(Byte) /\ dest \in Seq(Byte)
      /\ target \in Nat /\ filled \in Nat
  BY DEF IInv, TypeOK
<1>2. /\ Filling /\ n \in Nat /\ n <= target - filled /\ pos + n <= Len(wire)
      /\ pos' = pos + n /\ filled' = filled + n
      /\ UNCHANGED <<rstate, rindex, target, pending, ready, delivered>>
  BY <1>1 DEF report_filled, unfilled
<1>3. got \in Seq(Byte) /\ Len(got) = n
  BY <1>1, <1>2
<1> HIDE DEF got
<1>4. /\ \/ rstate = "Buffer" /\ dest' = dest \o got /\ rstaging' = rstaging
         \/ rstate # "Buffer" /\ rstaging' = rstaging \o got /\ dest' = dest
  BY DEF report_filled, got
<1>5. /\ dest \o got \in Seq(Byte) /\ Len(dest \o got) = Len(dest) + n
      /\ rstaging \o got \in Seq(Byte) /\ Len(rstaging \o got) = Len(rstaging) + n
  BY <1>1, <1>3, ConcatElements
<1>6. rstaging' \in Seq(Byte) /\ dest' \in Seq(Byte)
  BY <1>1, <1>4, <1>5
<1>7. /\ pos' \in 0 .. Len(wire') /\ filled' \in Nat /\ filled' <= target'
  BY <1>1, <1>2
<1>8. TypeOK'
  BY <1>2, <1>6, <1>7 DEF IInv, TypeOK
<1>9. Assembling'
  BY <1>2, <1>4, <1>5 DEF IInv, Assembling
<1> QED
  BY <1>2, <1>8, <1>9 DEF IInv, OnlyWholeTensors

\* End of input and a lost count end the frame; neither touches what was delivered.
LEMMA ReadEndSafe ==
  ASSUME IInv, UNCHANGED <<wire, eof>>,
         ReportEof \/ \E m \in 0 .. unfilled : OverReport(m) \/ MarkUnusable(m)
  PROVE  IInv'
<1>1. CASE ReportEof
  BY <1>1 DEF ReportEof, IInv, TypeOK, Filling, Assembling, OnlyWholeTensors
<1>2. ASSUME NEW m \in 0 .. unfilled, OverReport(m) \/ MarkUnusable(m) PROVE IInv'
  <2>1. pos' \in 0 .. Len(wire')
    <3>1. unfilled \in Int /\ pos \in Nat /\ Len(wire) \in Nat
      BY DEF unfilled, IInv, TypeOK
    <3>2. pos' = pos + m /\ pos + m <= Len(wire) /\ wire' = wire
      BY <1>2 DEF OverReport, MarkUnusable
    <3> QED
      BY <3>1, <3>2
  <2>2. /\ rstate' = "Unusable"
        /\ UNCHANGED <<rindex, target, filled, rstaging, pending, dest, ready, delivered>>
    BY <1>2 DEF OverReport, MarkUnusable
  <2> QED
    BY <2>1, <2>2 DEF IInv, TypeOK, Filling, Assembling, OnlyWholeTensors
<1> QED
  BY <1>1, <1>2

\* take_tensor moves a whole tensor to the caller and starts the next frame.
LEMMA TakeTensorSafe == ASSUME IInv, take_tensor, UNCHANGED <<wire, eof>> PROVE IInv'
<1>1. /\ ready \in Seq(Tensor) /\ Len(ready) = 1 /\ delivered \in Seq(Tensor)
      /\ Whole(ready[1]) /\ \A i \in DOMAIN delivered : Whole(delivered[i])
  <2>1. ready \in Seq(Tensor) /\ delivered \in Seq(Tensor)
    BY DEF IInv, TypeOK
  <2>2. Len(ready) = 1
    BY DEF take_tensor, IInv, Assembling
  <2>3. ready # <<>>
    BY <2>2
  <2> QED
    BY <2>1, <2>2, <2>3 DEF IInv, OnlyWholeTensors
<1>2. /\ delivered \o ready \in Seq(Tensor)
      /\ Len(delivered \o ready) = Len(delivered) + 1
      /\ \A i \in 1 .. Len(delivered) : (delivered \o ready)[i] = delivered[i]
      /\ (delivered \o ready)[Len(delivered) + 1] = ready[1]
  <2>1. delivered \in Seq(Tensor) /\ ready \in Seq(Tensor)
    BY <1>1
  <2>2. /\ delivered \o ready \in Seq(Tensor)
        /\ Len(delivered \o ready) = Len(delivered) + Len(ready)
        /\ \A i \in 1 .. Len(delivered) : (delivered \o ready)[i] = delivered[i]
        /\ \A i \in Len(delivered) + 1 .. Len(delivered) + Len(ready) :
              (delivered \o ready)[i] = ready[i - Len(delivered)]
    BY <2>1, ConcatElements
  <2>3. /\ Len(delivered) \in Nat /\ Len(ready) = 1
        /\ (Len(delivered) + 1) - Len(delivered) = 1
    BY <1>1
  <2> QED
    BY <2>2, <2>3
<1>3. \A i \in DOMAIN (delivered \o ready) : Whole((delivered \o ready)[i])
  <2> TAKE i \in DOMAIN (delivered \o ready)
  <2>1. i \in 1 .. Len(delivered) \/ i = Len(delivered) + 1
    BY <1>1, <1>2
  <2> QED
    BY <1>1, <1>2, <2>1
<1>4. /\ rstaging' \in Seq(Byte) /\ Len(rstaging') = 0 /\ ready' \in Seq(Tensor)
      /\ Len(ready') = 0 /\ ready' = <<>>
  BY ShortSeq DEF take_tensor
<1>5. /\ delivered' = delivered \o ready /\ rstate' = "Prefix" /\ target' = PrefixLen
      /\ filled' = 0 /\ UNCHANGED <<pos, rindex, pending, dest>>
  BY DEF take_tensor
<1>6. TypeOK'
  BY <1>2, <1>4, <1>5, PrefixLenAssumption DEF IInv, TypeOK, Filling
<1>7. Assembling'
  BY <1>4, <1>5 DEF Assembling
<1>8. OnlyWholeTensors'
  BY <1>3, <1>4, <1>5 DEF OnlyWholeTensors
<1> QED
  BY <1>6, <1>7, <1>8 DEF IInv

\* Every step preserves the inductive invariant.
LEMMA ReadNextSafe == ASSUME IInv, [Next]_vars PROVE IInv'
<1>1. CASE UNCHANGED vars
  BY <1>1 DEF vars, IInv, TypeOK, Filling, Assembling, OnlyWholeTensors
<1>2. CASE Next
  BY <1>2, ReadStepSafe, ReportFilledSafe, ReadEndSafe, TakeTensorSafe DEF Next, ReadNext
<1> QED
  BY <1>1, <1>2

\* TypeOK is an invariant of the reader.
THEOREM ReaderTypeInvariant == Spec => []TypeOK
<1>1. IInv => TypeOK
  BY DEF IInv
<1> QED
  BY <1>1, ReadInitSafe, ReadNextSafe, PTL DEF Spec

\* Every tensor handed over has one buffer per handle, each filled to its byte_size.
THEOREM ReaderDeliversWholeTensors == Spec => []OnlyWholeTensors
<1>1. IInv => OnlyWholeTensors
  BY DEF IInv
<1> QED
  BY <1>1, ReadInitSafe, ReadNextSafe, PTL DEF Spec

\* A reader that finished, failed or lost its position hands over nothing more, and leaves
\* that state only for the last of the three, whatever its driver calls.
THEOREM ReaderEndsForGood == Spec => EndsForGood
<1> DEFINE Over == rstate \in {"Finished", "Failed", "Unusable"}
           Stays == rstate' \in {rstate, "Unusable"} /\ delivered' = delivered
<1>1. [Next]_vars => [Over => Stays]_vars
  <2> SUFFICES ASSUME Next, Over PROVE Stays
    OBVIOUS
  <2>1. ~ ReadStep
    BY DEF ReadStep, StepPrefix, StepDescriptor, StepBuffer
  <2>2. \A n \in 1 .. unfilled : ~ report_filled(n)
    BY DEF report_filled, Filling
  <2>3. ~ ReportEof /\ ~ take_tensor
    BY DEF ReportEof, Filling, take_tensor
  <2>4. CASE \E m \in 0 .. unfilled : OverReport(m) \/ MarkUnusable(m)
    BY <2>4 DEF OverReport, MarkUnusable
  <2> QED
    BY <2>1, <2>2, <2>3, <2>4 DEF Next, ReadNext
<1> QED
  BY <1>1, PTL DEF Spec, EndsForGood

-----------------------------------------------------------------------------
(***************************************************************************)
(* No byte is lost.  The wire read so far is the images of the tensors     *)
(* delivered and what the core holds; the invariant says where that is.    *)
(***************************************************************************)

\* `pending` is empty between frames, the target of a descriptor is its own length, and
\* staging still holds the whole descriptor while its buffers are read.
Staged ==
  /\ rstate \in {"Prefix", "Descriptor", "TensorReady", "Finished"} => pending = <<>>
  /\ rstate = "Descriptor" =>
       Len(rstaging) >= PrefixLen /\ target = Desc[rstaging[1].id].len
  /\ rstate = "Buffer" => rstaging = encode(pending[1].id)
  /\ rstate = "Finished" => rstaging = <<>> /\ pos = Len(wire)

\* What the core holds of the wire, after the tensors it delivered.
Held == IF rstate = "TensorReady" THEN Images(ready) ELSE InProgress

\* The inductive invariant of faithful reading.
FInv == IInv /\ Staged /\ NoByteLost

\* Images are byte sequences.
LEMMA ImageType ==
  ASSUME NEW id \in Ids, NEW buffers \in Seq(Seq(Byte))
  PROVE  /\ encode(id) \in Seq(Byte) /\ Len(encode(id)) = Desc[id].len
         /\ Joined(buffers) \in Seq(Byte)
         /\ Image([id |-> id, buffers |-> buffers]) = encode(id) \o Joined(buffers)
<1>1. Desc[id].len \in Nat
  BY DescAssumption DEF Ids
<1>2. \A k \in 1 .. Desc[id].len : [id |-> id, part |-> 0, at |-> k] \in Byte
  BY <1>1 DEF Byte
<1>3. encode(id) \in Seq(Byte) /\ Len(encode(id)) = Desc[id].len
  <2> DEFINE n == Desc[id].len
  <2>1. encode(id) \in [1 .. n -> Byte]
    BY <1>2 DEF encode
  <2> HIDE DEF n
  <2>2. n \in Nat
    BY <1>1 DEF n
  <2>3. encode(id) \in Seq(Byte) /\ Len(encode(id)) = n
    BY <2>1, <2>2
  <2> QED
    BY <2>3 DEF n
<1>4. Joined(buffers) \in Seq(Byte)
  BY JoinedType
<1> QED
  BY <1>3, <1>4 DEF Image

\* The image of a tensor is a byte sequence,
LEMMA TensorImage == ASSUME NEW t \in Tensor PROVE Image(t) \in Seq(Byte)
<1>1. t.id \in Ids /\ t.buffers \in Seq(Seq(Byte))
  BY DEF Tensor
<1>2. encode(t.id) \in Seq(Byte) /\ Joined(t.buffers) \in Seq(Byte)
  BY <1>1, ImageType
<1> QED
  BY <1>2 DEF Image

\* and so are the images of a sequence of tensors.
LEMMA ImagesType ==
  ASSUME NEW ts \in Seq(Tensor)
  PROVE  /\ [i \in DOMAIN ts |-> Image(ts[i])] \in Seq(Seq(Byte))
         /\ Images(ts) \in Seq(Byte)
<1>1. DOMAIN ts = 1 .. Len(ts) /\ Len(ts) \in Nat /\ \A i \in 1 .. Len(ts) : ts[i] \in Tensor
  OBVIOUS
<1>2. \A i \in 1 .. Len(ts) : Image(ts[i]) \in Seq(Byte)
  BY <1>1, TensorImage
<1> DEFINE S == Seq(Byte)
           s == [i \in DOMAIN ts |-> Image(ts[i])]
<1>3. s \in Seq(S)
  <2> HIDE DEF S
  <2>1. \A i \in 1 .. Len(ts) : Image(ts[i]) \in S
    BY <1>2 DEF S
  <2> QED
    BY <1>1, <2>1
<1> HIDE DEF s
<1>4. Joined(s) \in Seq(Byte)
  BY <1>3, JoinedType DEF S
<1> QED
  BY <1>3, <1>4 DEF s, S, Images

\* No tensor has no image,
LEMMA ImagesOfNone == ASSUME NEW ts, ts = <<>> PROVE Images(ts) = <<>>
<1> DEFINE s == [i \in DOMAIN ts |-> Image(ts[i])]
<1>1. s = <<>>
  OBVIOUS
<1> HIDE DEF s
<1>2. s \in Seq(Seq(Byte))
  BY <1>1
<1>3. Joined(s) = <<>>
  BY <1>1, <1>2, JoinedType
<1> QED
  BY <1>3 DEF s, Images

\* one more tensor adds its image at the end,
LEMMA ImagesAppend ==
  ASSUME NEW ts \in Seq(Tensor), NEW t \in Tensor
  PROVE  Images(Append(ts, t)) = Images(ts) \o Image(t)
<1> DEFINE F(us) == [i \in DOMAIN us |-> Image(us[i])]
<1>1. F(ts) \in Seq(Seq(Byte)) /\ Image(t) \in Seq(Byte)
  BY ImagesType, TensorImage
<1>2. F(Append(ts, t)) = Append(F(ts), Image(t))
  <2>1. /\ Len(ts) \in Nat /\ DOMAIN ts = 1 .. Len(ts)
        /\ DOMAIN Append(ts, t) = 1 .. Len(ts) + 1
        /\ \A i \in 1 .. Len(ts) : Append(ts, t)[i] = ts[i]
        /\ Append(ts, t)[Len(ts) + 1] = t
    OBVIOUS
  <2>2. Len(F(ts)) = Len(ts)
    BY <1>1, <2>1
  <2> QED
    BY <1>1, <2>1, <2>2
<1> HIDE DEF F
<1>3. Joined(F(Append(ts, t))) = Joined(F(ts)) \o Image(t)
  BY <1>1, <1>2, JoinedAppend
<1> QED
  BY <1>3 DEF F, Images

\* and one tensor has its own.
LEMMA ImagesOfOne == ASSUME NEW t \in Tensor PROVE Images(<<t>>) = Image(t)
<1> DEFINE n == <<>>
<1>1. n \in Seq(Tensor) /\ Append(n, t) = <<t>> /\ n = <<>>
  OBVIOUS
<1> HIDE DEF n
<1>2. Images(Append(n, t)) = Images(n) \o Image(t) /\ Images(n) = <<>>
  BY <1>1, ImagesAppend, ImagesOfNone
<1>3. Image(t) \in Seq(Byte)
  BY TensorImage
<1> QED
  BY <1>1, <1>2, <1>3, CatEmpty

\* A sequence of one element.
LEMMA Single ==
  ASSUME NEW S, NEW s \in Seq(S), Len(s) = 1
  PROVE  s # <<>> /\ s[1] \in S /\ s = <<s[1]>>
<1>1. DOMAIN s = 1 .. 1 /\ s = [i \in 1 .. 1 |-> s[i]]
  OBVIOUS
<1>2. s[1] \in S /\ Len(<<>>) = 0
  OBVIOUS
<1>3. s = <<s[1]>>
  BY <1>1
<1>4. s # <<>>
  OBVIOUS
<1> QED
  BY <1>2, <1>3, <1>4

\* A read extends the part of the wire that was read.
LEMMA PrefixExtends ==
  ASSUME NEW B, NEW w \in Seq(B), NEW p \in 0 .. Len(w), NEW n \in Nat, p + n <= Len(w)
  PROVE  /\ SubSeq(w, 1, p) \in Seq(B)
         /\ SubSeq(w, p + 1, p + n) \in Seq(B)
         /\ SubSeq(w, 1, p + n) = SubSeq(w, 1, p) \o SubSeq(w, p + 1, p + n)
OBVIOUS

\* Passing over empty buffers leaves the bytes as they are.
LEMMA PassedToHolds ==
  ASSUME NEW buffers \in Seq(Seq(Byte)), NEW n \in Nat, n > Len(buffers)
  PROVE  /\ PassedTo(buffers, n) \in Seq(Seq(Byte))
         /\ Joined(PassedTo(buffers, n)) = Joined(buffers)
<1> DEFINE m == n - 1 - Len(buffers)
           gap == [k \in 1 .. m |-> <<>>]
           S == Seq(Byte)
<1>1. m \in Nat /\ <<>> \in S /\ buffers \in Seq(S)
  OBVIOUS
<1>2. PassedTo(buffers, n) = buffers \o gap
  BY DEF PassedTo
<1> HIDE DEF m, S
<1>3. gap \in Seq(S)
  BY <1>1, Empties
<1>4. Joined(buffers \o gap) = Joined(buffers)
  BY <1>1, JoinedEmpties DEF S
<1> HIDE DEF gap
<1>5. buffers \o gap \in Seq(S)
  BY <1>1, <1>3
<1> QED
  BY <1>2, <1>4, <1>5 DEF S

\* begin_buffer moves the bytes of the frame without changing them.
LEMMA BeginBuffersHolds ==
  ASSUME NEW id \in Ids, NEW buffers \in Seq(Seq(Byte)),
         Len(buffers) <= Len(Desc[id].bufs),
         rstaging = encode(id), UNCHANGED rstaging, BeginBuffers(id, buffers)
  PROVE  /\ rstate' \in {"TensorReady", "Failed", "Buffer"} /\ Staged'
         /\ Held' = encode(id) \o Joined(buffers)
<1> DEFINE table == Desc[id].bufs
           stops == Stops(id, Len(buffers) + 1)
           t(n)  == [id |-> id, buffers |-> PassedTo(buffers, n)]
<1>1. Len(table) \in Nat /\ Len(buffers) \in Nat
  BY TableType
<1>2. ASSUME NEW n \in Nat, n > Len(buffers)
      PROVE  /\ t(n) \in Tensor /\ t(n).id = id
             /\ Joined(t(n).buffers) = Joined(buffers)
  <2>1. PassedTo(buffers, n) \in Seq(Seq(Byte))
        /\ Joined(PassedTo(buffers, n)) = Joined(buffers)
    BY <1>2, PassedToHolds
  <2> QED
    BY <2>1 DEF Tensor
<1>3. encode(id) \in Seq(Byte) /\ Joined(buffers) \in Seq(Byte)
      /\ encode(id) \o Joined(buffers) \in Seq(Byte)
  <2>1. encode(id) \in Seq(Byte) /\ Joined(buffers) \in Seq(Byte)
    BY ImageType
  <2> QED
    BY <2>1
<1>4. CASE rstate' = "TensorReady" /\ ready' = <<t(Len(table) + 1)>> /\ pending' = <<>>
  <2> DEFINE n == Len(table) + 1
  <2>1. n \in Nat /\ n > Len(buffers)
    BY <1>1
  <2> HIDE DEF n
  <2>2. /\ t(n) \in Tensor /\ t(n).id = id
        /\ Joined(t(n).buffers) = Joined(buffers)
    BY <1>2, <2>1
  <2>3. ready' = <<t(n)>>
    BY <1>4 DEF n
  <2> HIDE DEF t
  <2>4. Images(<<t(n)>>) = encode(id) \o Joined(buffers)
    BY <2>2, ImagesOfOne DEF Image
  <2>5. Held' = Images(<<t(n)>>)
    BY <1>4, <2>3 DEF Held
  <2>6. Staged'
    BY <1>4 DEF Staged
  <2> QED
    BY <1>4, <2>4, <2>5, <2>6
<1>5. ASSUME NEW k \in stops, pending' = <<t(k)>>, dest' = <<>>,
             rstate' \in {"Failed", "Buffer"}
      PROVE  Staged' /\ Held' = encode(id) \o Joined(buffers)
  <2>1. k \in Nat /\ k > Len(buffers)
    BY <1>1 DEF Stops
  <2>2. /\ t(k) \in Tensor /\ t(k).id = id
        /\ Joined(t(k).buffers) = Joined(buffers)
    BY <1>2, <2>1
  <2> HIDE DEF t, stops
  <2>3. pending' # <<>> /\ pending'[1] = t(k)
    BY <1>5
  <2>4. Held' = (rstaging' \o Joined(pending'[1].buffers)) \o dest'
    BY <1>5, <2>3 DEF Held, InProgress
  <2>5. Held' = (encode(id) \o Joined(buffers)) \o <<>>
    BY <1>5, <2>2, <2>3, <2>4
  <2>6. Staged'
    BY <1>5, <2>2, <2>3 DEF Staged
  <2> QED
    BY <1>3, <2>5, <2>6, CatEmpty
<1> QED
  BY <1>4, <1>5 DEF BeginBuffers

\* NoByteLost in terms of what is held.
LEMMA LostMeans ==
  /\ NoByteLost <=> (rstate # "Unusable" => SubSeq(wire, 1, pos) = Images(delivered) \o Held)
  /\ NoByteLost' <=> (rstate' # "Unusable" =>
                        SubSeq(wire', 1, pos') = Images(delivered') \o Held')
BY DEF NoByteLost, Held

\* What is held is a byte sequence.
LEMMA HeldType == ASSUME IInv PROVE Held \in Seq(Byte) /\ Images(delivered) \in Seq(Byte)
<1>1. /\ rstaging \in Seq(Byte) /\ dest \in Seq(Byte) /\ pending \in Seq(Tensor)
      /\ ready \in Seq(Tensor) /\ delivered \in Seq(Tensor)
  BY DEF IInv, TypeOK
<1>2. Images(ready) \in Seq(Byte) /\ Images(delivered) \in Seq(Byte)
  BY <1>1, ImagesType
<1>3. pending # <<>> => (rstaging \o Joined(pending[1].buffers)) \o dest \in Seq(Byte)
  <2> SUFFICES ASSUME pending # <<>>
               PROVE  (rstaging \o Joined(pending[1].buffers)) \o dest \in Seq(Byte)
    OBVIOUS
  <2>1. pending[1] \in Tensor
    BY <1>1
  <2>2. pending[1].buffers \in Seq(Seq(Byte))
    BY <2>1 DEF Tensor
  <2>3. Joined(pending[1].buffers) \in Seq(Byte)
    BY <2>2, JoinedType
  <2> QED
    BY <1>1, <2>3
<1> QED
  BY <1>1, <1>2, <1>3 DEF Held, InProgress

\* step() reads nothing: what is held stays what was held.
LEMMA ReadStepHolds ==
  ASSUME FInv, ReadStep, UNCHANGED <<wire, eof>>
  PROVE  Staged' /\ NoByteLost'
<1>1. UNCHANGED <<wire, pos, delivered>> /\ rstate # "Unusable"
  BY DEF ReadStep, StepPrefix, StepDescriptor, StepBuffer
<1>2. SubSeq(wire', 1, pos') = Images(delivered') \o Held
  BY <1>1, LostMeans DEF FInv
<1>3. SUFFICES Staged' /\ Held' = Held
  BY <1>2, LostMeans
<1>4. CASE StepPrefix
  <2>1. /\ UNCHANGED <<pos, rindex, filled, rstaging, pending, dest, ready, delivered>>
        /\ rstate = "Prefix" /\ target - filled = 0
        /\ \/ rstate' = "Failed" /\ target' = target
           \/ /\ rstate' = "Descriptor" /\ target' = descriptor_length
              /\ descriptor_length > PrefixLen
    BY <1>4 DEF StepPrefix, unfilled, Filling
  <2>2. pending = <<>> /\ Len(rstaging) = PrefixLen /\ PrefixLen \in Nat
    BY <2>1, PrefixLenAssumption DEF FInv, Staged, IInv, Assembling, TypeOK
  <2>3. descriptor_length > PrefixLen => descriptor_length = Desc[rstaging[1].id].len
    BY <2>2 DEF descriptor_length
  <2>4. Held = rstaging /\ Held' = rstaging'
    BY <2>1, <2>2 DEF Held, InProgress
  <2>5. Staged'
    BY <2>1, <2>2, <2>3 DEF Staged
  <2> QED
    BY <2>1, <2>4, <2>5
<1>5. CASE StepDescriptor
  <2>1. /\ Len(rstaging) = filled /\ target - filled = 0 /\ target > PrefixLen
        /\ rstaging \in Seq(Byte) /\ target \in Nat /\ filled \in Nat
        /\ pending = <<>> /\ target = Desc[rstaging[1].id].len
        /\ rstate = "Descriptor" /\ UNCHANGED rstaging
    BY <1>5 DEF StepDescriptor, unfilled, Filling, FInv, Staged, IInv, Assembling, TypeOK
  <2>2. rstaging[1].id \in Ids
    <3>1. rstaging[1] \in Byte
      BY <2>1, PrefixLenAssumption
    <3> QED
      BY <3>1 DEF Byte
  <2>3. Held = rstaging
    BY <2>1 DEF Held, InProgress
  <2>4. CASE rstate' = "Failed" /\ UNCHANGED <<rindex, target, filled, pending, dest, ready>>
    BY <2>1, <2>3, <2>4 DEF Held, InProgress, Staged
  <2>5. CASE Aligned(rstaging, target) /\ BeginBuffers(rstaging[1].id, <<>>)
    <3> DEFINE id == rstaging[1].id
               b == <<>>
    <3>1. rstaging = encode(id)
      <4>1. \A k \in 1 .. target : rstaging[k] = [id |-> id, part |-> 0, at |-> k]
        BY <2>5 DEF Aligned
      <4>2. rstaging = [k \in 1 .. target |-> rstaging[k]]
        BY <2>1
      <4> HIDE DEF id
      <4>3. rstaging = [k \in 1 .. target |-> [id |-> id, part |-> 0, at |-> k]]
        BY <4>1, <4>2
      <4>4. target = Desc[id].len
        BY <2>1 DEF id
      <4> QED
        BY <4>3, <4>4 DEF encode
    <3>2. b \in Seq(Seq(Byte)) /\ Len(b) <= Len(Desc[id].bufs)
      BY <2>2, TableType
    <3>3. Joined(b) = <<>>
      <4>1. b = <<>> /\ b \in Seq(Seq(Byte))
        BY <3>2
      <4> HIDE DEF b
      <4> QED
        BY <4>1, JoinedType
    <3>4. BeginBuffers(id, b)
      BY <2>5
    <3> HIDE DEF id, b
    <3>5. id \in Ids
      BY <2>2 DEF id
    <3>6. Staged' /\ Held' = encode(id) \o Joined(b)
      BY <2>1, <3>1, <3>2, <3>4, <3>5, BeginBuffersHolds
    <3> QED
      BY <2>1, <2>3, <3>1, <3>3, <3>6, CatEmpty
  <2> QED
    BY <1>5, <2>4, <2>5 DEF StepDescriptor
<1>6. CASE StepBuffer
  <2> DEFINE id == pending[1].id
             old == pending[1].buffers
  <2>1. /\ Len(pending) = 1 /\ Len(old) = rindex - 1 /\ rindex \in 1 .. Len(Desc[id].bufs)
        /\ rstaging = encode(id) /\ rstate = "Buffer" /\ UNCHANGED rstaging
        /\ dest \in Seq(Byte) /\ pending \in Seq(Tensor)
    BY <1>6 DEF StepBuffer, FInv, Staged, IInv, Assembling, TypeOK
  <2>2. pending[1] \in Tensor /\ pending # <<>>
    BY <2>1, Single
  <2>3. id \in Ids /\ old \in Seq(Seq(Byte))
    BY <2>2 DEF Tensor
  <2>4. BeginBuffers(id, Append(old, dest))
    BY <1>6 DEF StepBuffer
  <2>5. Held = (encode(id) \o Joined(old)) \o dest
    BY <2>1, <2>2 DEF Held, InProgress
  <2> HIDE DEF id, old
  <2>6. Append(old, dest) \in Seq(Seq(Byte)) /\ Len(Append(old, dest)) = Len(old) + 1
    <3> DEFINE S == Seq(Byte)
    <3>1. old \in Seq(S) /\ dest \in S
      BY <2>1, <2>3
    <3> HIDE DEF S
    <3>2. Append(old, dest) \in Seq(S) /\ Len(Append(old, dest)) = Len(old) + 1
      BY <3>1
    <3> QED
      BY <3>2 DEF S
  <2>7. Len(Append(old, dest)) <= Len(Desc[id].bufs)
    BY <2>1, <2>3, <2>6, TableType
  <2>8. Staged' /\ Held' = encode(id) \o Joined(Append(old, dest))
    BY <2>1, <2>3, <2>4, <2>6, <2>7, BeginBuffersHolds
  <2>9. Joined(Append(old, dest)) = Joined(old) \o dest
    BY <2>1, <2>3, JoinedAppend
  <2>10. encode(id) \in Seq(Byte) /\ Joined(old) \in Seq(Byte) /\ dest \in Seq(Byte)
    BY <2>1, <2>3, ImageType
  <2>11. (encode(id) \o Joined(old)) \o dest = encode(id) \o (Joined(old) \o dest)
    BY <2>10, CatAssoc
  <2> QED
    BY <2>5, <2>8, <2>9, <2>11
<1> QED
  BY <1>4, <1>5, <1>6 DEF ReadStep

\* A read adds to what is held exactly the bytes it took from the wire.
LEMMA ReportFilledHolds ==
  ASSUME FInv, NEW n \in 1 .. unfilled, report_filled(n), UNCHANGED <<wire, eof>>
  PROVE  Staged' /\ NoByteLost'
<1> DEFINE got == SubSeq(wire, pos + 1, pos + n)
<1>1. /\ wire \in Seq(Byte) /\ pos \in 0 .. Len(wire) /\ Len(wire) \in Nat
      /\ rstaging \in Seq(Byte) /\ dest \in Seq(Byte)
      /\ target \in Nat /\ filled \in Nat /\ pending \in Seq(Tensor)
  BY DEF FInv, IInv, TypeOK
<1>2. /\ Filling /\ n \in Nat /\ n > 0 /\ pos + n <= Len(wire) /\ pos' = pos + n
      /\ UNCHANGED <<rstate, rindex, target, pending, ready, delivered>>
      /\ target - filled > 0
  BY <1>1 DEF report_filled, unfilled
<1>3. /\ SubSeq(wire, 1, pos) \in Seq(Byte) /\ got \in Seq(Byte) /\ Len(got) = n
      /\ SubSeq(wire, 1, pos + n) = SubSeq(wire, 1, pos) \o got
  <2>1. /\ SubSeq(wire, 1, pos) \in Seq(Byte) /\ got \in Seq(Byte)
        /\ SubSeq(wire, 1, pos + n) = SubSeq(wire, 1, pos) \o got
    BY <1>1, <1>2, PrefixExtends
  <2>2. Len(got) = n
    BY <1>1, <1>2
  <2> QED
    BY <2>1, <2>2
<1>4. \/ rstate = "Buffer" /\ dest' = dest \o got /\ rstaging' = rstaging
      \/ rstate # "Buffer" /\ rstaging' = rstaging \o got /\ dest' = dest
  BY DEF report_filled
<1> HIDE DEF got
<1>5. Held \in Seq(Byte) /\ Images(delivered) \in Seq(Byte) /\ got \in Seq(Byte)
      /\ rstaging \in Seq(Byte) /\ dest \in Seq(Byte)
  BY <1>1, <1>3, HeldType DEF FInv
<1>6. Held' = Held \o got /\ Staged'
  <2>1. CASE rstate = "Buffer"
    <3>1. pending[1] \in Tensor /\ pending # <<>>
      <4>1. Len(pending) = 1
        BY <2>1 DEF FInv, IInv, Assembling
      <4> QED
        BY <1>1, <4>1, Single
    <3> DEFINE front == rstaging \o Joined(pending[1].buffers)
    <3>2. front \in Seq(Byte)
      <4>2. pending[1].buffers \in Seq(Seq(Byte))
        BY <3>1 DEF Tensor
      <4>3. Joined(pending[1].buffers) \in Seq(Byte)
        BY <4>2, JoinedType
      <4> QED
        BY <1>1, <4>3
    <3>3. Held = front \o dest /\ Held' = front \o (dest \o got)
      BY <1>2, <1>4, <2>1, <3>1 DEF Held, InProgress
    <3>4. Staged'
      BY <1>2, <1>4, <2>1 DEF FInv, Staged
    <3> HIDE DEF front
    <3>5. (front \o dest) \o got = front \o (dest \o got)
      <4>1. front \in Seq(Byte) /\ dest \in Seq(Byte) /\ got \in Seq(Byte)
        BY <1>5, <3>2
      <4> QED
        BY <4>1, CatAssoc
    <3> QED
      BY <3>3, <3>4, <3>5
  <2>2. CASE rstate \in {"Prefix", "Descriptor"}
    <3>1. Held = rstaging /\ Held' = rstaging \o got
      BY <1>2, <1>4, <2>2 DEF Held, InProgress
    <3>2. /\ Len(rstaging \o got) = Len(rstaging) + Len(got) /\ Len(rstaging) \in Nat
          /\ \A i \in 1 .. Len(rstaging) : (rstaging \o got)[i] = rstaging[i]
      BY <1>5, ConcatElements
    <3>3. CASE rstate = "Prefix"
      <4>1. Staged'
        BY <1>2, <3>3 DEF FInv, Staged
      <4> QED
        BY <3>1, <4>1
    <3>4. CASE rstate = "Descriptor"
      <4>1. pending = <<>> /\ Len(rstaging) >= PrefixLen /\ target = Desc[rstaging[1].id].len
        BY <3>4 DEF FInv, Staged
      <4>2. 1 \in 1 .. Len(rstaging) /\ Len(rstaging) + n >= PrefixLen
        BY <1>2, <3>2, <4>1, PrefixLenAssumption
      <4>3. rstaging'[1] = rstaging[1] /\ Len(rstaging') >= PrefixLen
        <5>1. rstaging' = rstaging \o got
          BY <1>4, <3>4
        <5>2. Len(got) = n
          BY <1>3
        <5> QED
          BY <3>2, <4>2, <5>1, <5>2
      <4>4. Staged'
        BY <1>2, <3>4, <4>1, <4>3 DEF Staged
      <4> QED
        BY <3>1, <4>4
    <3> QED
      BY <2>2, <3>3, <3>4
  <2> QED
    BY <1>2, <2>1, <2>2 DEF Filling
<1>7. SubSeq(wire, 1, pos) = Images(delivered) \o Held
  BY <1>2, LostMeans DEF FInv, Filling
<1>8. SubSeq(wire', 1, pos') = Images(delivered') \o Held'
  <2>1. (Images(delivered) \o Held) \o got = Images(delivered) \o (Held \o got)
    BY <1>5, CatAssoc
  <2> QED
    BY <1>2, <1>3, <1>6, <1>7, <2>1
<1> QED
  BY <1>6, <1>8, LostMeans

\* End of input and a lost count change nothing that is held.
LEMMA ReadEndHolds ==
  ASSUME FInv, UNCHANGED <<wire, eof>>,
         ReportEof \/ \E m \in 0 .. unfilled : OverReport(m) \/ MarkUnusable(m)
  PROVE  Staged' /\ NoByteLost'
<1>1. CASE ReportEof
  <2>1. /\ UNCHANGED <<wire, pos, rindex, target, filled, rstaging, pending, dest, ready, delivered>>
        /\ rstate \in {"Prefix", "Descriptor", "Buffer"} /\ pos = Len(wire)
        /\ \/ rstate' = "Failed"
           \/ rstate' = "Finished" /\ rstate = "Prefix" /\ filled = 0
    BY <1>1 DEF ReportEof, Filling
  <2>2. Held' = Held
    <3>1. CASE rstate \in {"Prefix", "Descriptor"}
      BY <2>1, <3>1 DEF Held, InProgress, FInv, Staged
    <3>2. CASE rstate = "Buffer"
      BY <2>1, <3>2 DEF Held, InProgress
    <3> QED
      BY <2>1, <3>1, <3>2
  <2>3. rstate = "Prefix" /\ filled = 0 => rstaging = <<>>
    BY DEF FInv, IInv, Assembling, TypeOK
  <2>4. Staged'
    BY <2>1, <2>3 DEF FInv, Staged
  <2>5. NoByteLost'
    BY <2>1, <2>2, LostMeans DEF FInv
  <2> QED
    BY <2>4, <2>5
<1>2. CASE \E m \in 0 .. unfilled : OverReport(m) \/ MarkUnusable(m)
  <2>1. rstate' = "Unusable"
    BY <1>2 DEF OverReport, MarkUnusable
  <2> QED
    BY <2>1 DEF Staged, NoByteLost
<1> QED
  BY <1>1, <1>2

\* take_tensor moves the image of the ready tensor behind those delivered.
LEMMA TakeTensorHolds ==
  ASSUME FInv, take_tensor, UNCHANGED <<wire, eof>>
  PROVE  Staged' /\ NoByteLost'
<1>1. /\ ready \in Seq(Tensor) /\ Len(ready) = 1 /\ delivered \in Seq(Tensor)
      /\ pending = <<>> /\ rstate = "TensorReady"
  BY DEF FInv, IInv, TypeOK, Assembling, Staged, take_tensor
<1> DEFINE t == ready[1]
<1>2. t \in Tensor /\ ready = <<t>>
  BY <1>1, Single
<1>3. /\ rstate' = "Prefix" /\ rstaging' = <<>> /\ UNCHANGED <<wire, pos, pending>>
      /\ delivered' = delivered \o ready
  BY DEF take_tensor
<1> HIDE DEF t
<1>4. delivered' = Append(delivered, t)
  BY <1>1, <1>2, <1>3
<1>5. Images(delivered') = Images(delivered) \o Image(t) /\ Images(ready) = Image(t)
  BY <1>1, <1>2, <1>4, ImagesAppend, ImagesOfOne
<1>6. Held = Images(ready) /\ Held' = <<>>
  BY <1>1, <1>3 DEF Held, InProgress
<1>7. Images(delivered) \o Image(t) \in Seq(Byte)
  <2>1. Images(delivered) \in Seq(Byte) /\ Image(t) \in Seq(Byte)
    BY <1>1, <1>2, ImagesType, TensorImage
  <2> QED
    BY <2>1
<1>8. SubSeq(wire, 1, pos) = Images(delivered) \o Image(t)
  BY <1>1, <1>5, <1>6, LostMeans DEF FInv
<1>9. SubSeq(wire', 1, pos') = Images(delivered') \o Held'
  BY <1>3, <1>5, <1>6, <1>7, <1>8, CatEmpty
<1>10. Staged'
  BY <1>1, <1>3 DEF Staged
<1> QED
  BY <1>9, <1>10, LostMeans

\* FInv holds initially.
LEMMA ReadInitHolds == Init => FInv
<1> SUFFICES ASSUME Init PROVE FInv
  OBVIOUS
<1>1. IInv
  BY ReadInitSafe
<1>2. Staged
  BY DEF Init, ReadInit, Staged
<1>3. delivered = <<>> /\ Held = <<>> /\ pos = 0 /\ wire \in Seq(Byte)
  BY <1>1 DEF Init, ReadInit, Held, InProgress, IInv, TypeOK
<1>4. Images(delivered) = <<>> /\ SubSeq(wire, 1, pos) = <<>>
  BY <1>3, ImagesOfNone
<1>5. Images(delivered) \o Held = <<>>
  BY <1>3, <1>4
<1> QED
  BY <1>1, <1>2, <1>4, <1>5, LostMeans DEF FInv

\* Every step preserves it.
LEMMA ReadNextHolds == ASSUME FInv, [Next]_vars PROVE FInv'
<1>1. IInv'
  BY ReadNextSafe DEF FInv
<1>2. CASE UNCHANGED vars
  <2>1. Held' = Held
    BY <1>2 DEF vars, Held, InProgress
  <2>2. Staged'
    BY <1>2 DEF vars, FInv, Staged
  <2> QED
    BY <1>1, <1>2, <2>1, <2>2, LostMeans DEF vars, FInv
<1>3. CASE Next
  <2>1. Staged' /\ NoByteLost'
    BY <1>3, ReadStepHolds, ReportFilledHolds, ReadEndHolds, TakeTensorHolds
       DEF Next, ReadNext
  <2> QED
    BY <1>1, <2>1 DEF FInv
<1> QED
  BY <1>2, <1>3

\* However the reads are cut and whatever the transport holds, the bytes taken from it are
\* those of the tensors delivered and of the frame in progress, in order and each once, and
\* a clean end is announced only when all of them were delivered.
THEOREM ReaderLosesNothing == Spec => []ReadIsFaithful
<1>1. FInv => ReadIsFaithful
  <2> SUFFICES ASSUME FInv PROVE CleanEndIsWhole
    BY DEF FInv, ReadIsFaithful
  <2> SUFFICES ASSUME rstate = "Finished" PROVE wire = Images(delivered)
    BY DEF CleanEndIsWhole
  <2>1. /\ pending = <<>> /\ rstaging = <<>> /\ pos = Len(wire) /\ wire \in Seq(Byte)
    BY DEF FInv, Staged, IInv, TypeOK
  <2>2. Held = <<>>
    BY <2>1 DEF Held, InProgress
  <2>3. SubSeq(wire, 1, pos) = wire
    BY <2>1
  <2>4. Images(delivered) \in Seq(Byte)
    BY HeldType DEF FInv
  <2> QED
    BY <2>2, <2>3, <2>4, LostMeans, CatEmpty DEF FInv
<1> QED
  BY <1>1, ReadInitHolds, ReadNextHolds, PTL DEF Spec
=============================================================================
