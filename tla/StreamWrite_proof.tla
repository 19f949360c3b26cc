-------------------------- MODULE StreamWrite_proof --------------------------
(***************************************************************************)
(* The writer never splices one item into another: proofs, for every set   *)
(* of items, descriptor lengths, chunking of writes and driver failure.    *)
(***************************************************************************)
EXTENDS StreamWrite, WellFoundedInduction, TLAPS
-----------------------------------------------------------------------------
(***************************************************************************)
(* Facts about the concatenation of sequences.  Joined is a recursive      *)
(* function; what it returns is proved from its definition, by taking the  *)
(* least length at which the fact would fail.                              *)
(***************************************************************************)

\* A set of natural numbers that is not empty has a least element.
LEMMA Least ==
  ASSUME NEW T, T \subseteq Nat, T # {}
  PROVE  \E x \in T : \A y \in T : x <= y
<1>1. PICK x \in T : \A y \in T : ~ (<<y, x>> \in OpToRel(<, Nat))
  BY NatLessThanWellFounded, WFMin
<1>2. \A y \in T : ~ (y < x)
  BY <1>1 DEF OpToRel
<1> QED
  BY <1>2

\* f[i] is the concatenation of the first i elements of s, for i up to n.
Chain(f, s, n) == f = [i \in 0 .. n |-> IF i = 0 THEN <<>> ELSE f[i - 1] \o s[i]]

\* One element of a chain.
LEMMA ChainStep ==
  ASSUME NEW f, NEW s, NEW n \in Nat, Chain(f, s, n), NEW i \in 0 .. n
  PROVE  f[i] = IF i = 0 THEN <<>> ELSE f[i - 1] \o s[i]
BY DEF Chain

\* Every sequence has a chain, of every length.
LEMMA ChainExists ==
  ASSUME NEW s, NEW k \in Nat
  PROVE  \E f : Chain(f, s, k)
<1> DEFINE T == {n \in Nat : ~ \E f : Chain(f, s, n)}
<1> SUFFICES ASSUME T # {} PROVE FALSE
  OBVIOUS
<1>1. T \subseteq Nat
  OBVIOUS
<1>2. PICK n \in T : \A m \in T : n <= m
  BY <1>1, Least
<1>3. n \in Nat /\ ~ \E f : Chain(f, s, n)
  OBVIOUS
<1>4. \A m \in Nat : m < n => \E f : Chain(f, s, m)
  BY <1>2, <1>3
<1> HIDE DEF T
<1>5. CASE n = 0
  <2> DEFINE f == [i \in 0 .. 0 |-> <<>>]
  <2>1. Chain(f, s, 0)
    BY DEF Chain
  <2> QED
    BY <1>3, <1>5, <2>1
<1>6. CASE n # 0
  <2>1. n - 1 \in Nat /\ n - 1 < n
    BY <1>3, <1>6
  <2>2. PICK f : Chain(f, s, n - 1)
    BY <1>4, <2>1
  <2> DEFINE g == [i \in 0 .. n |-> IF i = n THEN f[n - 1] \o s[n] ELSE f[i]]
  <2>3. ASSUME NEW i \in 0 .. n PROVE g[i] = IF i = 0 THEN <<>> ELSE g[i - 1] \o s[i]
    <3>1. CASE i = n
      BY <1>3, <1>6, <2>1, <3>1
    <3>2. CASE i # n
      <4>1. i \in 0 .. n - 1 /\ g[i] = f[i]
        BY <1>3, <3>2
      <4>2. f[i] = IF i = 0 THEN <<>> ELSE f[i - 1] \o s[i]
        BY <2>1, <2>2, <4>1, ChainStep
      <4>3. i # 0 => g[i - 1] = f[i - 1]
        BY <1>3, <4>1
      <4> QED
        BY <4>1, <4>2, <4>3
    <3> QED
      BY <3>1, <3>2
  <2>4. Chain(g, s, n)
    BY <2>3 DEF Chain
  <2> QED
    BY <1>3, <2>4
<1> QED
  BY <1>5, <1>6

\* It is made of sequences, and depends on those elements of s only.
LEMMA ChainType ==
  ASSUME NEW B, NEW s \in Seq(Seq(B)), NEW n \in 0 .. Len(s), NEW f, Chain(f, s, n)
  PROVE  \A i \in 0 .. n : f[i] \in Seq(B)
<1> DEFINE T == {i \in 0 .. n : f[i] \notin Seq(B)}
<1> SUFFICES ASSUME T # {} PROVE FALSE
  OBVIOUS
<1>1. T \subseteq Nat
  OBVIOUS
<1>2. PICK i \in T : \A j \in T : i <= j
  BY <1>1, Least
<1>3. i \in 0 .. n /\ f[i] \notin Seq(B) /\ \A j \in 0 .. n : j < i => f[j] \in Seq(B)
  BY <1>2
<1> HIDE DEF T
<1>4. n \in Nat /\ (i # 0 => s[i] \in Seq(B))
  BY <1>3
<1>5. f[i] = IF i = 0 THEN <<>> ELSE f[i - 1] \o s[i]
  BY <1>3, <1>4, ChainStep
<1>6. i # 0 => f[i - 1] \in Seq(B)
  BY <1>3, <1>4
<1> QED
  BY <1>3, <1>4, <1>5, <1>6

\* s and t agree up to n.
Same(s, t, n) == \A i \in 1 .. n : s[i] = t[i]

\* Two chains agree as far as their sequences do.
LEMMA ChainAgree ==
  ASSUME NEW s, NEW t, NEW n \in Nat, NEW m \in Nat, n <= m, Same(s, t, n),
         NEW f, NEW g, Chain(f, s, n), Chain(g, t, m)
  PROVE  f[n] = g[n]
<1> DEFINE T == {i \in 0 .. n : f[i] # g[i]}
<1> SUFFICES ASSUME T # {} PROVE FALSE
  OBVIOUS
<1>1. T \subseteq Nat
  OBVIOUS
<1>2. PICK i \in T : \A j \in T : i <= j
  BY <1>1, Least
<1>3. i \in 0 .. n /\ f[i] # g[i] /\ \A j \in 0 .. n : j < i => f[j] = g[j]
  BY <1>2
<1> HIDE DEF T
<1>4. f[i] = IF i = 0 THEN <<>> ELSE f[i - 1] \o s[i]
  BY <1>3, ChainStep
<1>5. i \in 0 .. m
  BY <1>3
<1>6. g[i] = IF i = 0 THEN <<>> ELSE g[i - 1] \o t[i]
  BY <1>5, ChainStep
<1>7. i # 0 => i - 1 \in 0 .. n /\ i - 1 < i /\ i \in 1 .. n
  BY <1>3
<1> QED
  BY <1>3, <1>4, <1>6, <1>7 DEF Same

\* A concatenation is the last element of its chain.
LEMMA JoinedIsChain ==
  ASSUME NEW s, Len(s) \in Nat
  PROVE  \E f : Chain(f, s, Len(s)) /\ Joined(s) = f[Len(s)]
<1>1. \E f : Chain(f, s, Len(s))
  BY ChainExists
<1> DEFINE f == CHOOSE f : Chain(f, s, Len(s))
<1>2. Chain(f, s, Len(s))
  BY <1>1
<1>3. Joined(s) = f[Len(s)]
  BY DEF Joined, Chain
<1> QED
  BY <1>2, <1>3

\* A concatenation of sequences is a sequence.
LEMMA JoinedType ==
  ASSUME NEW B, NEW s \in Seq(Seq(B))
  PROVE  Joined(s) \in Seq(B) /\ (s = <<>> => Joined(s) = <<>>)
<1>1. Len(s) \in Nat /\ (s = <<>> => Len(s) = 0)
  OBVIOUS
<1>2. PICK f : Chain(f, s, Len(s)) /\ Joined(s) = f[Len(s)]
  BY <1>1, JoinedIsChain
<1>3. \A i \in 0 .. Len(s) : f[i] \in Seq(B)
  BY <1>1, <1>2, ChainType
<1>4. 0 \in 0 .. Len(s)
  BY <1>1
<1>5. f[0] = <<>>
  BY <1>1, <1>2, <1>4, ChainStep
<1> QED
  BY <1>1, <1>2, <1>3, <1>5

\* One more element is concatenated at the end.
LEMMA JoinedAppend ==
  ASSUME NEW B, NEW s \in Seq(Seq(B)), NEW x \in Seq(B)
  PROVE  Joined(Append(s, x)) = Joined(s) \o x
<1> DEFINE t == Append(s, x)
<1>1. /\ t \in Seq(Seq(B)) /\ Len(s) \in Nat /\ Len(t) = Len(s) + 1
      /\ t[Len(t)] = x /\ \A i \in 1 .. Len(s) : s[i] = t[i]
  OBVIOUS
<1> HIDE DEF t
<1>2. Len(t) \in Nat /\ Len(t) \in 0 .. Len(t) /\ Len(t) # 0 /\ Len(t) - 1 = Len(s) /\ Len(s) <= Len(t)
  BY <1>1
<1>3. PICK f : Chain(f, s, Len(s)) /\ Joined(s) = f[Len(s)]
  BY <1>1, JoinedIsChain
<1>4. PICK g : Chain(g, t, Len(t)) /\ Joined(t) = g[Len(t)]
  BY <1>2, JoinedIsChain
<1>5. g[Len(t)] = g[Len(s)] \o x
  <2>1. g[Len(t)] = IF Len(t) = 0 THEN <<>> ELSE g[Len(t) - 1] \o t[Len(t)]
    BY <1>2, <1>4, ChainStep
  <2> QED
    BY <1>1, <1>2, <2>1
<1>6. f[Len(s)] = g[Len(s)]
  <2>1. Same(s, t, Len(s))
    BY <1>1 DEF Same
  <2> QED
    BY <1>1, <1>2, <1>3, <1>4, <2>1, ChainAgree
<1> QED
  BY <1>3, <1>4, <1>5, <1>6 DEF t

\* Concatenation is associative,
LEMMA CatAssoc ==
  ASSUME NEW B, NEW s \in Seq(B), NEW t \in Seq(B), NEW u \in Seq(B)
  PROVE  (s \o t) \o u = s \o (t \o u)
OBVIOUS

\* and the empty sequence is neutral.
LEMMA CatEmpty == ASSUME NEW B, NEW s \in Seq(B) PROVE s \o <<>> = s /\ <<>> \o s = s
OBVIOUS

\* A constant function on an initial segment is a sequence.
LEMMA Empties ==
  ASSUME NEW S, NEW x \in S, NEW m \in Nat PROVE [k \in 1 .. m |-> x] \in Seq(S)
OBVIOUS

\* Empty sequences add nothing.
LEMMA JoinedEmpties ==
  ASSUME NEW B, NEW s \in Seq(Seq(B)), NEW m \in Nat
  PROVE  Joined(s \o [k \in 1 .. m |-> <<>>]) = Joined(s)
<1> DEFINE Padded(n) == s \o [k \in 1 .. n |-> <<>>]
           T == {n \in Nat : Joined(Padded(n)) # Joined(s)}
<1> SUFFICES ASSUME T # {} PROVE FALSE
  OBVIOUS
<1>1. T \subseteq Nat
  OBVIOUS
<1>2. PICK n \in T : \A j \in T : n <= j
  BY <1>1, Least
<1>3. n \in Nat /\ Joined(Padded(n)) # Joined(s)
      /\ \A j \in Nat : j < n => Joined(Padded(j)) = Joined(s)
  BY <1>2
<1> HIDE DEF T
<1>4. CASE n = 0
  <2>1. Padded(0) = s
    OBVIOUS
  <2> QED
    BY <1>3, <1>4, <2>1
<1>5. CASE n # 0
  <2>1. n - 1 \in Nat /\ n - 1 < n
    BY <1>3, <1>5
  <2>2. <<>> \in Seq(B)
    OBVIOUS
  <2>3. Padded(n - 1) \in Seq(Seq(B))
    <3> DEFINE e == [k \in 1 .. n - 1 |-> <<>>]
    <3>1. e \in Seq(Seq(B))
      BY <2>1, <2>2, Empties
    <3> HIDE DEF e
    <3>2. s \o e \in Seq(Seq(B))
      BY <3>1
    <3> QED
      BY <3>2 DEF e
  <2>4. Padded(n) = Append(Padded(n - 1), <<>>)
    BY <1>3, <2>1
  <2> HIDE DEF Padded
  <2>5. Joined(Padded(n)) = Joined(Padded(n - 1)) \o <<>>
    BY <2>2, <2>3, <2>4, JoinedAppend
  <2>6. Joined(Padded(n - 1)) \in Seq(B)
    BY <2>3, JoinedType
  <2> QED
    BY <1>3, <2>1, <2>5, <2>6, CatEmpty
<1> QED
  BY <1>4, <1>5

\* The first m elements of a sequence.
LEMMA FrontPart ==
  ASSUME NEW S, NEW u \in Seq(S), NEW m \in 0 .. Len(u)
  PROVE  /\ SubSeq(u, 1, m) \in Seq(S) /\ Len(SubSeq(u, 1, m)) = m
         /\ \A i \in 1 .. m : SubSeq(u, 1, m)[i] = u[i]
OBVIOUS

\* The last element of a sequence that is not empty.
LEMMA SplitLast ==
  ASSUME NEW S, NEW u \in Seq(S), Len(u) # 0
  PROVE  /\ SubSeq(u, 1, Len(u) - 1) \in Seq(S) /\ u[Len(u)] \in S
         /\ Len(SubSeq(u, 1, Len(u) - 1)) = Len(u) - 1
         /\ u = Append(SubSeq(u, 1, Len(u) - 1), u[Len(u)])
<1> DEFINE n == Len(u)
           v == SubSeq(u, 1, n - 1)
<1>1. n \in Nat /\ n - 1 \in Nat /\ n \in 1 .. n /\ u[n] \in S
  OBVIOUS
<1>2. v \in Seq(S) /\ Len(v) = n - 1 /\ \A i \in 1 .. n - 1 : v[i] = u[i]
  <2>1. n - 1 \in 0 .. Len(u)
    BY <1>1
  <2> QED
    BY <2>1, FrontPart
<1> HIDE DEF v
<1>3. /\ Append(v, u[n]) \in Seq(S) /\ Len(Append(v, u[n])) = n
      /\ \A i \in 1 .. n : Append(v, u[n])[i] = u[i]
  BY <1>1, <1>2
<1>4. u = Append(v, u[n])
  BY <1>1, <1>3
<1> QED
  BY <1>1, <1>2, <1>4 DEF v

\* One element in front and one behind.
LEMMA ConsAppend ==
  ASSUME NEW S, NEW x \in S, NEW v \in Seq(S), NEW y \in S
  PROVE  /\ <<x>> \in Seq(S) /\ <<x>> \o v \in Seq(S)
         /\ <<x>> \o Append(v, y) = Append(<<x>> \o v, y)
OBVIOUS

\* Joined of one element.
LEMMA JoinedOne == ASSUME NEW B, NEW x \in Seq(B) PROVE Joined(<<x>>) = x
<1> DEFINE n == <<>>
<1>1. n \in Seq(Seq(B)) /\ Append(n, x) = <<x>> /\ n = <<>>
  OBVIOUS
<1> HIDE DEF n
<1>2. Joined(Append(n, x)) = Joined(n) \o x /\ Joined(n) = <<>>
  BY <1>1, JoinedAppend, JoinedType
<1> QED
  BY <1>1, <1>2, CatEmpty

\* One more element in front is concatenated in front.
LEMMA JoinedCons ==
  ASSUME NEW B, NEW x \in Seq(B)
  PROVE  \A s \in Seq(Seq(B)) : Joined(<<x>> \o s) = x \o Joined(s)
<1> DEFINE Fails(u) == Joined(<<x>> \o u) # x \o Joined(u)
           S == Seq(B)
           T == {n \in Nat : \E u \in Seq(S) : Len(u) = n /\ Fails(u)}
<1>0. x \in S
  OBVIOUS
<1> SUFFICES \A s \in Seq(S) : ~ Fails(s)
  OBVIOUS
<1> HIDE DEF S, Fails
<1> SUFFICES ASSUME T # {} PROVE FALSE
  <2>1. \A s \in Seq(S) : Len(s) \in Nat
    OBVIOUS
  <2> QED
    BY <2>1
<1>1. T \subseteq Nat
  OBVIOUS
<1>2. PICK n \in T : \A j \in T : n <= j
  BY <1>1, Least
<1>3. PICK u \in Seq(S) : Len(u) = n /\ Fails(u)
  OBVIOUS
<1>4. n \in Nat /\ \A v \in Seq(S) : Len(v) < n => ~ Fails(v)
  <2>1. \A v \in Seq(S) : Len(v) \in Nat
    OBVIOUS
  <2> QED
    BY <1>2, <2>1
<1>5. x \in S
  BY <1>0
<1> HIDE DEF T
<1>6. CASE n = 0
  <2>1. <<x>> \o u = <<x>> /\ u = <<>>
    BY <1>3, <1>5, <1>6
  <2>2. Joined(u) = <<>>
    BY <1>3, <2>1, JoinedType DEF S
  <2>3. Joined(<<x>>) = x
    BY JoinedOne
  <2> QED
    BY <1>3, <2>1, <2>2, <2>3, CatEmpty DEF Fails
<1>7. CASE n # 0
  <2> DEFINE v == SubSeq(u, 1, Len(u) - 1)
             y == u[Len(u)]
  <2>1. v \in Seq(S) /\ y \in S /\ Len(v) = n - 1 /\ u = Append(v, y)
    BY <1>3, <1>7, SplitLast
  <2> HIDE DEF v, y
  <2>2. ~ Fails(v)
    BY <1>4, <2>1
  <2>3. <<x>> \o v \in Seq(S) /\ <<x>> \o u = Append(<<x>> \o v, y)
    BY <1>5, <2>1, ConsAppend
  <2>4. Joined(<<x>> \o u) = Joined(<<x>> \o v) \o y
    BY <2>1, <2>3, JoinedAppend DEF S
  <2>5. Joined(u) = Joined(v) \o y
    BY <2>1, JoinedAppend DEF S
  <2>6. Joined(v) \in Seq(B) /\ y \in Seq(B) /\ x \in Seq(B)
    BY <2>1, JoinedType DEF S
  <2>7. Joined(<<x>> \o v) = x \o Joined(v)
    BY <2>2 DEF Fails
  <2>8. (x \o Joined(v)) \o y = x \o (Joined(v) \o y)
    BY <2>6, CatAssoc
  <2> QED
    BY <1>3, <2>4, <2>5, <2>7, <2>8 DEF Fails
<1> QED
  BY <1>6, <1>7

\* The concatenation of the elements of s from the i-th on.
Suffix(s, i) == Joined([k \in 1 .. Len(s) + 1 - i |-> s[i - 1 + k]])

\* It is a sequence; the whole one, and the one past the end.
LEMMA SuffixType ==
  ASSUME NEW B, NEW s \in Seq(Seq(B)), NEW i \in 1 .. Len(s) + 1
  PROVE  /\ Suffix(s, i) \in Seq(B) /\ Suffix(s, 1) = Joined(s)
         /\ [k \in 1 .. Len(s) + 1 - i |-> s[i - 1 + k]] \in Seq(Seq(B))
<1> DEFINE S == Seq(B)
           t == [k \in 1 .. Len(s) + 1 - i |-> s[i - 1 + k]]
           a == [k \in 1 .. Len(s) + 1 - 1 |-> s[1 - 1 + k]]
<1>1. s \in Seq(S)
  OBVIOUS
<1> HIDE DEF S
<1>2. Len(s) \in Nat /\ Len(s) + 1 - i \in Nat /\ \A k \in 1 .. Len(s) + 1 - i : i - 1 + k \in 1 .. Len(s)
  BY <1>1
<1>3. \A k \in 1 .. Len(s) + 1 - i : s[i - 1 + k] \in S
  BY <1>1, <1>2
<1>4. t \in Seq(S)
  BY <1>2, <1>3
<1>5. a = s
  BY <1>1
<1> HIDE DEF t
<1>6. Joined(t) \in Seq(B)
  BY <1>4, JoinedType DEF S
<1> QED
  BY <1>4, <1>5, <1>6 DEF t, S, Suffix

\* Past the last element there is nothing.
LEMMA SuffixEnd ==
  ASSUME NEW s, NEW i \in Nat, Len(s) \in Nat, i > Len(s)
  PROVE  Suffix(s, i) = <<>>
<1> DEFINE t == [k \in 1 .. Len(s) + 1 - i |-> s[i - 1 + k]]
<1>1. t = <<>>
  OBVIOUS
<1> HIDE DEF t
<1>2. t \in Seq(Seq({}))
  BY <1>1
<1>3. Joined(t) = <<>>
  BY <1>1, <1>2, JoinedType
<1> QED
  BY <1>3 DEF t, Suffix

\* The i-th element, and then the others.
LEMMA SuffixStep ==
  ASSUME NEW B, NEW s \in Seq(Seq(B)), NEW i \in 1 .. Len(s)
  PROVE  s[i] \in Seq(B) /\ Suffix(s, i) = s[i] \o Suffix(s, i + 1)
<1> DEFINE S == Seq(B)
           t(j) == [k \in 1 .. Len(s) + 1 - j |-> s[j - 1 + k]]
<1>1. s \in Seq(S) /\ i \in 1 .. Len(s) + 1 /\ i + 1 \in 1 .. Len(s) + 1
  OBVIOUS
<1>2. t(i + 1) \in Seq(Seq(B))
  BY <1>1, SuffixType
<1>3. s[i] \in S
  <2> HIDE DEF S
  <2> QED
    BY <1>1
<1>4. t(i) = <<s[i]>> \o t(i + 1)
  <2> HIDE DEF S
  <2>1. t(i + 1) \in Seq(S)
    BY <1>2 DEF S
  <2> QED
    BY <1>1, <1>3, <2>1
<1> HIDE DEF t
<1>5. Joined(<<s[i]>> \o t(i + 1)) = s[i] \o Joined(t(i + 1))
  BY <1>2, <1>3, JoinedCons DEF S
<1> QED
  BY <1>3, <1>4, <1>5 DEF t, S, Suffix

\* The elements of s from i up to j are empty.
Blank(s, i, j) == \A k \in i .. j - 1 : s[k] = <<>>

\* They add nothing.
LEMMA SuffixSkip ==
  ASSUME NEW B, NEW s \in Seq(Seq(B)), NEW i \in 1 .. Len(s) + 1, NEW j \in i .. Len(s) + 1,
         Blank(s, i, j)
  PROVE  Suffix(s, i) = Suffix(s, j)
<1> DEFINE d == j - i
           Differs(n) == Suffix(s, i + n) # Suffix(s, i)
           T == {n \in Nat : n <= d /\ Differs(n)}
<1>0. d \in Nat /\ d <= d /\ i + d = j /\ (Suffix(s, i) = Suffix(s, j) \/ Differs(d))
  OBVIOUS
<1> HIDE DEF d, Differs
<1> SUFFICES ASSUME T # {} PROVE FALSE
  BY <1>0
<1>1. T \subseteq Nat
  OBVIOUS
<1>2. PICK n \in T : \A m \in T : n <= m
  BY <1>1, Least
<1>3. n \in Nat /\ n <= d /\ Differs(n) /\ \A m \in Nat : m < n => ~ Differs(m)
  BY <1>0, <1>2
<1> HIDE DEF T
<1>4. n # 0
  BY <1>3 DEF Differs
<1> DEFINE p == i + (n - 1)
<1>5. /\ n - 1 \in Nat /\ n - 1 < n /\ p \in 1 .. Len(s) /\ p \in i .. j - 1 /\ p + 1 = i + n
      /\ p + 1 \in 1 .. Len(s) + 1
  BY <1>0, <1>3, <1>4
<1>6. Suffix(s, p) = Suffix(s, i)
  BY <1>3, <1>5 DEF Differs
<1> HIDE DEF p
<1>7. s[p] = <<>> /\ Suffix(s, p) = s[p] \o Suffix(s, p + 1)
  BY <1>5, SuffixStep DEF Blank
<1>8. Suffix(s, p + 1) \in Seq(B)
  BY <1>5, SuffixType
<1> QED
  BY <1>3, <1>5, <1>6, <1>7, <1>8, CatEmpty DEF Differs

-----------------------------------------------------------------------------

\* The link between the operation's bookkeeping and the core's two flags, without which
\* the safety invariants are not inductive.
Bookkeeping ==
  /\ lost => unusable # "None"
  /\ Offering => (unusable = "None" /\ Len(submitted) \notin done)
  /\ opState = "Done" => Len(submitted) \in done
  /\ (opState \notin {"None", "Done"} /\ unusable = "None") => (torn <=> emitted > 0)

IInv == /\ TypeOK /\ Bookkeeping
        /\ NoSplice /\ UsableMeansWhole /\ TornMeansUnfinished /\ EmittedIsExact

-----------------------------------------------------------------------------
\* What the operators on descriptors and payloads return.

\* The empty sequence and a singleton are sequences over any set.
LEMMA ShortSeq == \A S : <<>> \in Seq(S) /\ \A x \in S : <<x>> \in Seq(S)
OBVIOUS

\* An encoded descriptor is a sequence of bytes.
LEMMA EncodeType == ASSUME NEW id \in Ids PROVE encode(id) \in Seq(Byte)
<1>1. Desc[id].len \in Nat
  BY DescAssumption DEF Ids
<1>2. \A k \in 1 .. Desc[id].len : [id |-> id, part |-> 0, at |-> k] \in Byte
  BY <1>1 DEF Byte
<1> QED
  BY <1>1, <1>2 DEF encode

\* The payload slices of a node are sequences of bytes.
LEMMA PayloadsType == ASSUME NEW n \in Nodes PROVE payloads_of(n) \in Seq(Seq(Byte))
<1>1. n.id \in Ids /\ n.slices \in Seq(Nat)
  BY NodesAssumption
<1>2. DOMAIN n.slices = 1 .. Len(n.slices) /\ Len(n.slices) \in Nat
  BY <1>1
<1>3. ASSUME NEW i \in 1 .. Len(n.slices)
      PROVE  Payload(n.id, i, n.slices[i]) \in Seq(Byte)
  <2>1. n.slices[i] \in Nat
    BY <1>1
  <2>2. \A k \in 1 .. n.slices[i] : [id |-> n.id, part |-> i, at |-> k] \in Byte
    BY <1>1, <1>2, <2>1 DEF Byte
  <2> QED
    BY <2>1, <2>2 DEF Payload
<1> QED
  BY <1>2, <1>3 DEF payloads_of

\* The slice being offered is a sequence of bytes.
LEMMA SliceType == ASSUME TypeOK, Offering PROVE CurrentSlice \in Seq(Byte)
<1>1. CASE opState = "Descriptor"
  BY <1>1 DEF TypeOK, CurrentSlice
<1>2. CASE opState = "Payload"
  BY <1>2 DEF TypeOK, CurrentSlice
<1> QED
  BY <1>1, <1>2 DEF Offering

\* The bytes a transfer adds to the wire: consecutive bytes of the current item.
LEMMA TakenBytes ==
  ASSUME TypeOK, NEW m \in 0 .. remaining
  PROVE  /\ Taken(m) \in Seq(WireByte) /\ Len(Taken(m)) = m
         /\ \A k \in 1 .. m : /\ Taken(m)[k].item = Len(submitted)
                              /\ Taken(m)[k].nth = emitted + k
<1>1. m \in Nat /\ Len(submitted) \in Nat /\ emitted \in Nat
  <2>1. remaining \in Int
    BY SliceType DEF remaining, TypeOK
  <2> QED
    BY <2>1 DEF TypeOK
<1>2. ASSUME NEW k \in 1 .. m PROVE output_src[k] \in Byte
  <2>1. Offering
    BY <1>1 DEF remaining
  <2>2. CurrentSlice \in Seq(Byte) /\ written \in Nat /\ Len(CurrentSlice) \in Nat
    BY <2>1, SliceType DEF TypeOK
  <2>3. written + k \in 1 .. Len(CurrentSlice)
    BY <1>1, <2>1, <2>2 DEF remaining
  <2>4. output_src[k] = CurrentSlice[written + k]
    BY <1>1, <2>2, <2>3 DEF output_src
  <2> QED
    BY <2>2, <2>3, <2>4
<1>3. \A k \in 1 .. m : [item |-> Len(submitted), nth |-> emitted + k, byte |-> output_src[k]]
                          \in WireByte
  BY <1>1, <1>2 DEF WireByte
<1> QED
  BY <1>1, <1>3 DEF Taken

-----------------------------------------------------------------------------
\* Type correctness

\* TypeOK holds initially.
LEMMA TypeInit == Init => TypeOK
<1> SUFFICES ASSUME Init PROVE TypeOK
  OBVIOUS
<1>1. /\ staging \in Seq(Byte) /\ payloads \in Seq(Seq(Byte)) /\ stack \in Seq(Frame)
      /\ wire \in Seq(WireByte) /\ submitted \in Seq(Items)
  BY ShortSeq DEF Init, NoOp
<1>2. Len(submitted) <= MaxItems
  BY MaxItemsAssumption DEF Init
<1> QED
  BY <1>1, <1>2 DEF Init, NoOp, TypeOK, Offering

\* An operation begins on node n: what tensor and composite do after they have validated it.
Begins(n) ==
  /\ opState = "None" /\ retired = "None"
  /\ Len(submitted) < MaxItems
  /\ opState' = "Descriptor" /\ index' = 0
  /\ staging' = encode(n.id)
  /\ written' = 0 /\ emitted' = 0
  /\ submitted' = Append(submitted, n)
  /\ payloads' = payloads_of(n) \/ payloads' = <<>>
  /\ stack' = <<>> \/ stack' = <<[members |-> n.members, next |-> 1]>>
  /\ UNCHANGED <<unusable, torn, wire, done, lost>>

\* Both kinds of submission begin so.
LEMMA SubmissionBegins == ASSUME NEW n, tensor(n) \/ composite(n) PROVE Begins(n)
<1>1. BeginOp(n)
  BY DEF tensor, composite
<1> QED
  BY <1>1 DEF tensor, composite, BeginOp, Begins

\* A submission preserves TypeOK: what it stages is the encoding of a descriptor.
LEMMA TypeSubmit ==
  ASSUME TypeOK, NEW n \in Items, Begins(n)
  PROVE  TypeOK'
<1> USE DEF TypeOK
<1>1. n \in Nodes /\ n.id \in Ids /\ n.members \in Seq(Nodes)
  BY ItemsAssumption, NodesAssumption
<1>3. staging' \in Seq(Byte) /\ index' \in Nat /\ written' \in Nat /\ emitted' \in Nat
  BY <1>1, EncodeType DEF Begins
<1>4. payloads' \in Seq(Seq(Byte))
  <2>1. payloads' = payloads_of(n) \/ payloads' = <<>>
    BY DEF Begins
  <2>2. payloads_of(n) \in Seq(Seq(Byte))
    BY <1>1, PayloadsType
  <2> QED
    BY <2>1, <2>2, ShortSeq
<1>5. stack' \in Seq(Frame)
  <2>1. stack' = <<>> \/ stack' = <<[members |-> n.members, next |-> 1]>>
    BY DEF Begins
  <2>2. [members |-> n.members, next |-> 1] \in Frame
    BY <1>1 DEF Frame
  <2> QED
    BY <2>1, <2>2, ShortSeq
<1>6. /\ submitted' \in Seq(Items) /\ Len(submitted') = Len(submitted) + 1
      /\ Len(submitted') <= MaxItems
  BY MaxItemsAssumption DEF Begins
<1>7. done' \subseteq 1 .. Len(submitted')
  BY <1>6 DEF Begins
<1>8. opState' = "Descriptor" /\ written' = 0
  BY DEF Begins
<1>9. written' <= Len(CurrentSlice')
  BY <1>3, <1>8 DEF CurrentSlice
<1>10. submitted' # <<>>
  BY <1>6
<1> QED
  BY <1>3, <1>4, <1>5, <1>6, <1>7, <1>8, <1>9, <1>10 DEF Begins

\* A step that moves on inside the item preserves TypeOK.
LEMMA TypeStep == ASSUME TypeOK, step PROVE TypeOK'
<1> USE DEF TypeOK
<1>1. CASE StepPayload
  <2>1. PICK j \in LaterPayloads : index' = j
    BY <1>1 DEF StepPayload
  <2>2. index' \in Nat /\ index' \in 1 .. Len(payloads)
    BY <2>1 DEF LaterPayloads
  <2>3. Len(CurrentSlice') \in Nat
    BY <1>1, <2>2 DEF StepPayload, CurrentSlice
  <2> QED
    BY <1>1, <2>2, <2>3 DEF StepPayload, SliceExhausted, Offering
<1>2. CASE StepNode
  <2>1. PICK f \in OpenFrames :
          TakeMember(stack[f].members[stack[f].next],
                     SubSeq([stack EXCEPT ![f] = Advance(@)], 1, f))
    BY <1>2 DEF StepNode
  <2> DEFINE node == stack[f].members[stack[f].next]
             more == [stack EXCEPT ![f] = Advance(@)]
             kept == SubSeq(more, 1, f)
  <2>2. f \in 1 .. Len(stack) /\ Len(stack) \in Nat /\ stack[f] \in Frame
    BY DEF OpenFrames
  <2>3. kept \in Seq(Frame)
    <3>1. Advance(stack[f]) \in Frame
      <4>1. stack[f].members \in Seq(Nodes) /\ stack[f].next + 1 \in Nat \ {0}
        BY <2>2 DEF Frame
      <4> QED
        BY <4>1 DEF Frame, Advance
    <3>2. more \in Seq(Frame) /\ Len(more) = Len(stack)
      BY <2>2, <3>1
    <3> QED
      BY <2>2, <3>2
  <2>4. node \in Nodes /\ node.id \in Ids /\ node.members \in Seq(Nodes)
    <3>1. stack[f].next \in 1 .. Len(stack[f].members)
      BY <2>2 DEF OpenFrames, Frame
    <3>2. node \in Nodes
      BY <2>2, <3>1 DEF Frame
    <3> QED
      BY <3>2, NodesAssumption
  <2>5. TakeMember(node, kept) /\ written' = 0
    BY <1>2, <2>1 DEF StepNode
  <2> HIDE DEF node, kept
  <2>6. CASE Encodable(Desc[node.id])
    <3>1. /\ opState' = "Descriptor" /\ index' = 0 /\ staging' = encode(node.id)
          /\ payloads' = IF node.kind = "Tensor" THEN payloads_of(node) ELSE <<>>
          /\ stack' = IF node.kind = "Tensor" THEN kept
                      ELSE Append(kept, [members |-> node.members, next |-> 1])
      BY <2>5, <2>6 DEF TakeMember
    <3>2. staging' \in Seq(Byte)
      BY <2>4, <3>1, EncodeType
    <3>3. payloads' \in Seq(Seq(Byte))
      BY <2>4, <3>1, PayloadsType
    <3>4. stack' \in Seq(Frame)
      <4>1. [members |-> node.members, next |-> 1] \in Frame
        BY <2>4 DEF Frame
      <4>2. Append(kept, [members |-> node.members, next |-> 1]) \in Seq(Frame)
        BY <2>3, <4>1
      <4> QED
        BY <2>3, <3>1, <4>2
    <3>5. written' <= Len(CurrentSlice')
      BY <2>5, <3>1, <3>2 DEF CurrentSlice
    <3> QED
      BY <1>2, <2>5, <3>1, <3>2, <3>3, <3>4, <3>5 DEF StepNode, SliceExhausted, Offering
  <2>7. CASE ~ Encodable(Desc[node.id])
    <3>1. /\ opState' = "Failed" /\ stack' = kept
          /\ UNCHANGED <<index, staging, payloads>>
      BY <2>5, <2>7 DEF TakeMember
    <3> QED
      BY <1>2, <2>3, <2>5, <3>1 DEF StepNode, SliceExhausted, Offering
  <2> QED
    BY <2>6, <2>7
<1>3. CASE StepDone
  <2>1. Len(submitted) \in 1 .. Len(submitted)
    BY <1>3 DEF StepDone, SliceExhausted, Offering
  <2>2. done' \subseteq 1 .. Len(submitted')
    BY <1>3, <2>1 DEF StepDone
  <2>3. payloads' \in Seq(Seq(Byte)) /\ stack' \in Seq(Frame)
    BY <1>3, ShortSeq DEF StepDone
  <2> QED
    BY <1>3, <2>1, <2>2, <2>3 DEF StepDone, Offering, SliceExhausted
<1> QED
  BY <1>1, <1>2, <1>3 DEF step

\* The transfers and their reports preserve TypeOK.
LEMMA TypeTransfer ==
  ASSUME TypeOK, NEW m \in 0 .. remaining,
         report_written(m) \/ OverReport(m) \/ MarkUnusable(m)
  PROVE  TypeOK'
<1> USE DEF TypeOK
<1>1. wire' = wire \o Taken(m)
  BY DEF report_written, OverReport, MarkUnusable
<1>2. wire' \in Seq(WireByte)
  BY <1>1, TakenBytes
<1>3. CASE report_written(m)
  <2>1. m \in Nat /\ written + m <= Len(CurrentSlice)
    BY <1>3, SliceType DEF report_written, remaining
  <2>2. CurrentSlice' = CurrentSlice
    BY <1>3 DEF report_written, CurrentSlice
  <2>3. torn' \in BOOLEAN
    BY <1>3 DEF report_written
  <2> QED
    BY <1>2, <1>3, <2>1, <2>2, <2>3 DEF report_written, Offering
<1>4. CASE OverReport(m) \/ MarkUnusable(m)
  BY <1>2, <1>4 DEF OverReport, MarkUnusable, Offering
<1> QED
  BY <1>3, <1>4

\* The end of an operation preserves TypeOK.
LEMMA TypeEnd == ASSUME TypeOK, report_sink_closed \/ Drop PROVE TypeOK'
<1> USE DEF TypeOK
<1>1. CASE report_sink_closed
  BY <1>1 DEF report_sink_closed, Offering
<1>2. CASE Drop
  <2>1. staging' \in Seq(Byte) /\ payloads' \in Seq(Seq(Byte)) /\ stack' \in Seq(Frame)
    BY <1>2, ShortSeq DEF Drop
  <2> QED
    BY <1>2, <2>1 DEF Drop, Offering
<1> QED
  BY <1>1, <1>2

\* Every step preserves TypeOK.
LEMMA TypeNext == ASSUME TypeOK, [Next]_vars PROVE TypeOK'
<1>1. CASE UNCHANGED vars
  BY <1>1 DEF TypeOK, vars, Offering, CurrentSlice
<1>2. ASSUME NEW n \in Items, tensor(n) \/ composite(n) PROVE TypeOK'
  BY <1>2, SubmissionBegins, TypeSubmit
<1>3. ASSUME NEW n \in 1 .. remaining, report_written(n) PROVE TypeOK'
  <2>1. n \in 0 .. remaining
    BY SliceType DEF remaining, TypeOK
  <2> QED
    BY <1>3, <2>1, TypeTransfer
<1>4. ASSUME NEW m \in 0 .. remaining, OverReport(m) \/ MarkUnusable(m) PROVE TypeOK'
  BY <1>4, TypeTransfer
<1> QED
  BY <1>1, <1>2, <1>3, <1>4, TypeStep, TypeEnd DEF Next

\* TypeOK is an invariant of the writer.
THEOREM TypeInvariant == Spec => []TypeOK
<1>1. Init => TypeOK
  BY TypeInit
<1>2. TypeOK /\ [Next]_vars => TypeOK'
  BY TypeNext
<1> QED
  BY <1>1, <1>2, PTL DEF Spec

-----------------------------------------------------------------------------
\* The safety invariants

\* Where the elements of a concatenation are.
LEMMA ConcatElements ==
  ASSUME NEW S, NEW s \in Seq(S), NEW t \in Seq(S)
  PROVE  /\ Len(s \o t) = Len(s) + Len(t)
         /\ \A i \in 1 .. Len(s) : (s \o t)[i] = s[i]
         /\ \A k \in 1 .. Len(t) : (s \o t)[Len(s) + k] = t[k]
OBVIOUS

\* Where the old and the new bytes are after a transfer of m bytes.
LEMMA WireGrows ==
  ASSUME TypeOK, NEW m \in 0 .. remaining, wire' = wire \o Taken(m)
  PROVE  /\ m \in Nat /\ Len(wire) \in Nat /\ Len(wire') = Len(wire) + m
         /\ \A i \in 1 .. Len(wire) : wire'[i] = wire[i]
         /\ \A k \in 1 .. m : /\ wire'[Len(wire) + k].item = Len(submitted)
                              /\ wire'[Len(wire) + k].nth = emitted + k
<1> DEFINE T == Taken(m)
<1>1. m \in Nat
  BY SliceType DEF remaining, TypeOK
<1>2. T \in Seq(WireByte)
  BY TakenBytes
<1>3. Len(T) = m /\ \A k \in 1 .. m : T[k].item = Len(submitted) /\ T[k].nth = emitted + k
  BY TakenBytes
<1>4. wire \in Seq(WireByte)
  BY DEF TypeOK
<1> HIDE DEF T
<1>5. /\ Len(wire \o T) = Len(wire) + Len(T)
      /\ \A i \in 1 .. Len(wire) : (wire \o T)[i] = wire[i]
      /\ \A k \in 1 .. Len(T) : (wire \o T)[Len(wire) + k] = T[k]
  BY <1>2, <1>4, ConcatElements
<1>6. Len(wire) \in Nat /\ wire' = wire \o T
  BY <1>4 DEF T
<1> QED
  BY <1>1, <1>3, <1>5, <1>6

\* A transfer from a sound core extends the current item or starts it after a completed
\* one: in neither case does it splice.
LEMMA TransferNoSplice ==
  ASSUME TypeOK, NoSplice, EmittedIsExact, opState # "None", ~ lost,
         NEW m \in 0 .. remaining, wire' = wire \o Taken(m), done' = done
  PROVE  NoSplice'
<1> DEFINE L == Len(wire)
<1>1. /\ m \in Nat /\ L \in Nat /\ Len(wire') = L + m
      /\ \A i \in 1 .. L : wire'[i] = wire[i]
      /\ \A k \in 1 .. m : /\ wire'[L + k].item = Len(submitted)
                           /\ wire'[L + k].nth = emitted + k
  BY WireGrows
<1>2. emitted \in Nat /\ Len(submitted) \in Nat /\ wire \in Seq(WireByte)
  BY DEF TypeOK
<1>3. wire # <<>> => L > 0
  BY <1>2
<1>4. wire = <<>> => L = 0
  OBVIOUS
<1>5. wire = <<>> => emitted = 0
  BY DEF EmittedIsExact
<1> HIDE DEF L
<1>6. wire' # <<>> => wire'[1].nth = 1
  <2>1. CASE wire = <<>>
    <3>1. CASE m = 0
      BY <1>1, <1>2, <1>4, <2>1, <3>1, TakenBytes
    <3>2. CASE m > 0
      <4>1. wire'[0 + 1].nth = 0 + 1
        BY <1>1, <1>4, <1>5, <2>1, <3>2
      <4> QED
        BY <4>1
    <3> QED
      BY <1>1, <3>1, <3>2
  <2>2. CASE wire # <<>>
    BY <1>1, <1>3, <2>2 DEF NoSplice
  <2> QED
    BY <2>1, <2>2
<1>7. ASSUME NEW i \in 1 .. Len(wire') - 1
      PROVE  \/ /\ wire'[i + 1].item = wire'[i].item
                /\ wire'[i + 1].nth = wire'[i].nth + 1
             \/ /\ wire'[i].item \in done
                /\ wire'[i + 1].item > wire'[i].item
                /\ wire'[i + 1].nth = 1
  <2>1. CASE i < L
    <3>1. i \in 1 .. L - 1 /\ i \in 1 .. L /\ i + 1 \in 1 .. L
      BY <1>1, <2>1
    <3>2. wire'[i] = wire[i] /\ wire'[i + 1] = wire[i + 1]
      BY <1>1, <3>1
    <3> QED
      BY <3>1, <3>2 DEF NoSplice, L
  <2>2. CASE i = L
    <3>1. m >= 1 /\ wire # <<>> /\ wire'[i] = LastByte
      BY <1>1, <1>4, <2>2 DEF LastByte, L
    <3>2. wire'[i + 1].item = Len(submitted) /\ wire'[i + 1].nth = emitted + 1
      BY <1>1, <2>2, <3>1
    <3>3. CASE emitted = 0
      <4>1. LastByte.item \in done /\ LastByte.item < Len(submitted)
        BY <3>1, <3>3 DEF EmittedIsExact
      <4>2. done \subseteq Nat
        BY <1>2 DEF TypeOK
      <4> QED
        BY <1>2, <3>1, <3>2, <3>3, <4>1, <4>2
    <3>4. CASE emitted # 0
      BY <1>2, <3>1, <3>2, <3>4 DEF EmittedIsExact
    <3> QED
      BY <3>3, <3>4
  <2>3. CASE i > L
    <3>1. PICK k \in 1 .. m - 1 : i = L + k
      BY <1>1, <2>3
    <3>2. i + 1 = L + (k + 1) /\ k + 1 \in 1 .. m /\ k \in 1 .. m
      BY <1>1, <3>1
    <3>3. wire'[i].item = Len(submitted) /\ wire'[i].nth = emitted + k
      BY <1>1, <3>1, <3>2
    <3>4. wire'[i + 1].item = Len(submitted) /\ wire'[i + 1].nth = emitted + (k + 1)
      BY <1>1, <3>2
    <3> QED
      BY <1>2, <3>1, <3>3, <3>4
  <2> QED
    BY <1>1, <2>1, <2>2, <2>3
<1> QED
  BY <1>6, <1>7 DEF NoSplice

\* The inductive invariant holds initially.
LEMMA SafeInit == Init => IInv
BY TypeInit DEF Init, NoOp, IInv, Bookkeeping, NoSplice, UsableMeansWhole,
                TornMeansUnfinished, EmittedIsExact, Offering

\* A submission: the new item comes after a completed one, and the core is not torn.
LEMMA SafeSubmit ==
  ASSUME IInv, NEW n \in Items, Begins(n)
  PROVE  IInv'
<1> USE DEF IInv
<1>1. TypeOK'
  BY TypeSubmit
<1>3. /\ opState = "None" /\ unusable = "None" /\ ~ torn /\ ~ lost
      /\ opState' = "Descriptor" /\ emitted' = 0
      /\ UNCHANGED <<unusable, torn, wire, done, lost>>
  BY DEF Begins, retired, Bookkeeping
<1>4. /\ Len(submitted) \in Nat /\ Len(submitted') = Len(submitted) + 1
      /\ done \subseteq 1 .. Len(submitted)
  BY DEF Begins, TypeOK
<1>5. wire # <<>> => (LastByte.item \in done /\ LastByte.item < Len(submitted'))
  <2>1. wire # <<>> => LastByte.item \in done
    BY <1>3 DEF UsableMeansWhole, retired
  <2>2. \A d \in done : d < Len(submitted')
    BY <1>4
  <2> QED
    BY <2>1, <2>2
<1>6. EmittedIsExact'
  BY <1>3, <1>5 DEF EmittedIsExact, LastByte
<1>7. Len(submitted') \notin done
  BY <1>4
<1>8. Bookkeeping'
  BY <1>3, <1>7 DEF Bookkeeping, Offering
<1> QED
  BY <1>1, <1>3, <1>6, <1>8 DEF NoSplice, UsableMeansWhole, TornMeansUnfinished, LastByte

\* Moving on inside an item changes nothing on the wire; finishing it clears `torn` and
\* records the item as done in the same step.
LEMMA SafeStep == ASSUME IInv, step PROVE IInv'
<1> USE DEF IInv
<1>1. TypeOK'
  BY TypeStep
<1>2. CASE StepPayload \/ StepNode
  <2>1. /\ Offering /\ opState' \in {"Descriptor", "Payload", "Failed"}
        /\ UNCHANGED <<unusable, torn, emitted, wire, submitted, done, lost>>
    BY <1>2 DEF StepPayload, StepNode, SliceExhausted, TakeMember
  <2> QED
    BY <1>1, <2>1 DEF Bookkeeping, Offering, NoSplice, UsableMeansWhole,
                      TornMeansUnfinished, EmittedIsExact, LastByte
<1>3. CASE StepDone
  <2>1. /\ Offering /\ opState' = "Done" /\ torn' = FALSE /\ unusable = "None"
        /\ done' = done \cup {Len(submitted)}
        /\ UNCHANGED <<unusable, emitted, wire, submitted, lost>>
    BY <1>3 DEF StepDone, SliceExhausted
  <2>2. NoSplice'
    BY <2>1 DEF NoSplice
  <2> QED
    BY <1>1, <2>1, <2>2 DEF Bookkeeping, Offering, UsableMeansWhole,
                            TornMeansUnfinished, EmittedIsExact, LastByte
<1> QED
  BY <1>2, <1>3 DEF step

\* A transfer: the last byte on the wire is now the current item's, which is not done,
\* and `torn` was set by the first of them.
LEMMA SafeTransfer ==
  ASSUME IInv, NEW m \in 0 .. remaining,
         report_written(m) \/ OverReport(m) \/ MarkUnusable(m)
  PROVE  IInv'
<1> USE DEF IInv
<1>1. TypeOK'
  BY TypeTransfer
<1>2. /\ wire' = wire \o Taken(m) /\ opState # "None"
      /\ UNCHANGED <<submitted, done>>
  BY DEF report_written, OverReport, MarkUnusable, Offering
<1>3. /\ m \in Nat /\ Len(wire) \in Nat /\ Len(wire') = Len(wire) + m
      /\ \A i \in 1 .. Len(wire) : wire'[i] = wire[i]
      /\ \A k \in 1 .. m : /\ wire'[Len(wire) + k].item = Len(submitted)
                           /\ wire'[Len(wire) + k].nth = emitted + k
  BY <1>2, WireGrows
<1>4. m = 0 => wire' = wire
  BY <1>2, <1>3, TakenBytes DEF TypeOK
<1>5. m > 0 => /\ wire' # <<>> /\ LastByte'.item = Len(submitted)
               /\ LastByte'.nth = emitted + m
  <2>1. SUFFICES ASSUME m > 0 PROVE /\ wire' # <<>> /\ LastByte'.item = Len(submitted)
                                    /\ LastByte'.nth = emitted + m
    OBVIOUS
  <2>2. m \in 1 .. m /\ Len(wire') > 0
    BY <1>3, <2>1
  <2>3. LastByte' = wire'[Len(wire) + m]
    BY <1>3 DEF LastByte
  <2> QED
    BY <1>3, <2>2, <2>3
<1>6. m > 0 => Offering
  BY <1>3 DEF remaining
<1>7. NoSplice'
  <2>1. CASE m = 0
    BY <1>2, <1>4, <2>1 DEF NoSplice
  <2>2. CASE m > 0
    <3>1. ~ lost
      BY <1>6, <2>2 DEF Bookkeeping
    <3> QED
      BY <1>2, <3>1, TransferNoSplice
  <2> QED
    BY <1>3, <2>1, <2>2
<1>8. TornMeansUnfinished'
  <2>1. CASE m > 0
    BY <1>2, <1>5, <1>6, <2>1 DEF TornMeansUnfinished, Bookkeeping
  <2>2. CASE m = 0
    <3>1. OverReport(m) \/ MarkUnusable(m)
      BY <2>2 DEF report_written
    <3> QED
      BY <1>2, <1>4, <2>2, <3>1 DEF OverReport, MarkUnusable, TornMeansUnfinished, LastByte
  <2> QED
    BY <1>3, <2>1, <2>2
<1>9. CASE report_written(m)
  <2>1. /\ m > 0 /\ Offering /\ Offering' /\ opState' = opState /\ UNCHANGED <<unusable, lost>>
        /\ emitted' = emitted + m /\ torn' = (emitted = 0 \/ torn)
    BY <1>3, <1>9 DEF report_written, Offering
  <2>2. emitted \in Nat /\ torn \in BOOLEAN
    BY DEF TypeOK
  <2>3. unusable = "None" /\ (torn <=> emitted > 0)
    BY <2>1 DEF Bookkeeping, Offering
  <2>4. torn' /\ emitted' > 0
    <3>1. emitted' > 0
      BY <1>3, <2>1, <2>2
    <3>2. emitted = 0 \/ emitted > 0
      BY <2>2
    <3>3. torn'
      BY <2>1, <2>3, <3>2, Zenon
    <3> QED
      BY <3>1, <3>3
  <2>5. Bookkeeping'
    BY <1>2, <2>1, <2>3, <2>4 DEF Bookkeeping, Offering
  <2>6. EmittedIsExact'
    BY <1>2, <1>5, <2>1, <2>4 DEF EmittedIsExact
  <2> QED
    BY <1>1, <1>2, <1>7, <1>8, <2>1, <2>5, <2>6 DEF UsableMeansWhole
<1>10. CASE OverReport(m) \/ MarkUnusable(m)
  <2>1. /\ opState' = "Failed" /\ unusable' = "LostWriteCount" /\ lost'
    BY <1>10 DEF OverReport, MarkUnusable
  <2> QED
    BY <1>1, <1>7, <1>8, <2>1 DEF Bookkeeping, Offering, UsableMeansWhole, EmittedIsExact
<1> QED
  BY <1>9, <1>10

\* The end of an operation: if the core is left usable, nothing of the item left, or all
\* of it did.
LEMMA SafeEnd == ASSUME IInv, report_sink_closed \/ Drop PROVE IInv'
<1> USE DEF IInv
<1>1. TypeOK'
  BY TypeEnd
<1>2. UNCHANGED <<torn, wire, submitted, done, lost>> /\ opState # "None"
  BY DEF report_sink_closed, Drop
<1>3. NoSplice' /\ TornMeansUnfinished'
  BY <1>2 DEF NoSplice, TornMeansUnfinished, LastByte
<1>4. CASE report_sink_closed
  <2>1. opState' = "Failed" /\ unusable' = "IncompleteOutput" /\ emitted' = emitted
    BY <1>4 DEF report_sink_closed
  <2> QED
    BY <1>1, <1>2, <1>3, <2>1 DEF Bookkeeping, Offering, UsableMeansWhole, EmittedIsExact,
                                  LastByte
<1>5. CASE Drop
  <2>1. opState' = "None" /\ unusable' = unusable
    BY <1>5 DEF Drop
  <2>2. UsableMeansWhole'
    <3>1. SUFFICES ASSUME unusable = "None", ~ torn, wire # <<>>
                   PROVE  LastByte.item \in done
      BY <1>2, <2>1 DEF UsableMeansWhole, retired, LastByte
    <3>2. ~ lost /\ emitted \in Nat
      BY <3>1 DEF Bookkeeping, TypeOK
    <3>3. CASE opState = "Done"
      BY <1>2, <3>1, <3>2, <3>3 DEF EmittedIsExact, Bookkeeping
    <3>4. CASE opState # "Done"
      BY <1>2, <3>1, <3>2, <3>4 DEF EmittedIsExact, Bookkeeping
    <3> QED
      BY <3>3, <3>4
  <2> QED
    BY <1>1, <1>2, <1>3, <2>1, <2>2 DEF Bookkeeping, Offering, EmittedIsExact
<1> QED
  BY <1>4, <1>5

\* Every step preserves the inductive invariant.
LEMMA SafeNext == ASSUME IInv, [Next]_vars PROVE IInv'
<1>1. CASE UNCHANGED vars
  BY <1>1, TypeNext DEF vars, IInv, Bookkeeping, Offering, NoSplice, UsableMeansWhole,
                        retired, TornMeansUnfinished, EmittedIsExact, LastByte
<1>2. ASSUME NEW n \in Items, tensor(n) \/ composite(n) PROVE IInv'
  BY <1>2, SubmissionBegins, SafeSubmit
<1>3. ASSUME NEW n \in 1 .. remaining, report_written(n) PROVE IInv'
  <2>1. n \in 0 .. remaining
    BY SliceType DEF IInv, remaining, TypeOK
  <2> QED
    BY <1>3, <2>1, SafeTransfer
<1>4. ASSUME NEW m \in 0 .. remaining, OverReport(m) \/ MarkUnusable(m) PROVE IInv'
  BY <1>4, SafeTransfer
<1> QED
  BY <1>1, <1>2, <1>3, <1>4, SafeStep, SafeEnd DEF Next

\* The writer never splices: in every reachable state each byte on the wire is followed by
\* the next byte of its item or, after a completed item, by the first byte of a later one.
THEOREM WriterNeverSplices == Spec => []NoSplice
<1>1. Init => IInv
  BY SafeInit
<1>2. IInv /\ [Next]_vars => IInv'
  BY SafeNext
<1>3. IInv => NoSplice
  BY DEF IInv
<1> QED
  BY <1>1, <1>2, <1>3, PTL DEF Spec

\* The two flags of the core say exactly what the wire looks like: a usable writer ends
\* with a whole item, a torn one does not, and emitted() is the rank of the last byte.
THEOREM FlagsMatchTheWire ==
  Spec => [](UsableMeansWhole /\ TornMeansUnfinished /\ EmittedIsExact)
<1>1. Init => IInv
  BY SafeInit
<1>2. IInv /\ [Next]_vars => IInv'
  BY SafeNext
<1>3. IInv => UsableMeansWhole /\ TornMeansUnfinished /\ EmittedIsExact
  BY DEF IInv
<1> QED
  BY <1>1, <1>2, <1>3, PTL DEF Spec

\* retired(): a retired core takes no other item, and only the completion of the item that
\* tore it makes it usable again.
THEOREM RetiredForGood == Spec => RetiredIsFinal
<1>1. Init => IInv
  BY SafeInit
<1>2. IInv /\ [Next]_vars => IInv'
  BY SafeNext
<1>3. IInv /\ [Next]_vars =>
        [(retired # "None") =>
           /\ submitted' = submitted
           /\ (retired' = "None") =>
                (LastByte.item = Len(submitted) /\ LastByte.item \in done')]_vars
  <2> SUFFICES ASSUME IInv, Next, retired # "None"
               PROVE  /\ submitted' = submitted
                      /\ (retired' = "None") =>
                           (LastByte.item = Len(submitted) /\ LastByte.item \in done')
    OBVIOUS
  <2>1. ASSUME NEW n \in Items, tensor(n) \/ composite(n) PROVE FALSE
    BY <2>1 DEF tensor, composite, BeginOp
  <2>2. CASE StepPayload \/ StepNode
    BY <2>2 DEF StepPayload, StepNode, retired
  <2>3. CASE StepDone
    <3>1. /\ Offering /\ unusable = "None" /\ torn
          /\ submitted' = submitted /\ done' = done \cup {Len(submitted)}
      BY <2>3 DEF StepDone, SliceExhausted, retired
    <3>2. opState \notin {"None", "Done"} /\ ~ lost /\ emitted > 0
      BY <3>1 DEF Offering, IInv, Bookkeeping
    <3>3. LastByte.item = Len(submitted)
      BY <3>2 DEF IInv, EmittedIsExact
    <3> QED
      BY <3>1, <3>3
  <2>4. ASSUME NEW n \in 1 .. remaining, report_written(n)
        PROVE  submitted' = submitted /\ retired' # "None"
    BY <2>4 DEF report_written, retired
  <2>5. ASSUME NEW m \in 0 .. remaining, OverReport(m) \/ MarkUnusable(m)
        PROVE  submitted' = submitted /\ retired' # "None"
    BY <2>5 DEF OverReport, MarkUnusable, retired
  <2>6. CASE report_sink_closed \/ Drop
    BY <2>6 DEF report_sink_closed, Drop, retired
  <2> QED
    BY <2>1, <2>2, <2>3, <2>4, <2>5, <2>6 DEF Next, step
<1> QED
  BY <1>1, <1>2, <1>3, PTL DEF Spec, RetiredIsFinal

-----------------------------------------------------------------------------
(***************************************************************************)
(* A driver that always knows what its sink took, as those over callbacks  *)
(* do: neither OverReport nor MarkUnusable.  The lemmas are for the proofs *)
(* about such drivers.                                                     *)
(***************************************************************************)

\* A failed operation has retired the core, since a whole descriptor was out before a member
\* could fail; and until its first byte is reported no byte of an item is on the wire.
Driven ==
  /\ IInv /\ ~ lost
  /\ opState = "Done" => retired = "None"
  /\ opState = "Failed" => retired # "None"
  /\ Offering => written <= emitted /\ Len(CurrentSlice) > 0
  /\ \A i \in DOMAIN wire : wire[i].item \in 1 .. Len(submitted)
  /\ opState # "None" /\ emitted = 0 => \A i \in DOMAIN wire : wire[i].item # Len(submitted)

\* A new core.
LEMMA DrivenInit == Init => Driven
BY SafeInit DEF Init, NoOp, Driven, Offering

\* A core that is left alone.
LEMMA DrivenStutter == ASSUME Driven, UNCHANGED vars PROVE Driven'
<1>1. IInv'
  BY SafeNext DEF Driven
<1> QED
  BY <1>1 DEF Driven, vars, Offering, CurrentSlice, retired

\* A submission.
LEMMA DrivenSubmit ==
  ASSUME Driven, NEW n \in Items, Begins(n)
  PROVE  Driven' /\ Len(submitted) \in Nat /\ Len(submitted') = Len(submitted) + 1
<1>1. IInv'
  BY SafeSubmit DEF Driven
<1>2. Len(submitted) \in Nat /\ Len(submitted') = Len(submitted) + 1
  BY DEF Begins, Driven, IInv, TypeOK
<1>3. n.id \in Ids
  BY ItemsAssumption, NodesAssumption
<1>4. Desc[n.id].len \in Nat /\ Desc[n.id].len > 0
  BY <1>3, DescAssumption, EncodedLengthAssumption DEF Ids
<1>5. Len(CurrentSlice') > 0
  <2>1. CurrentSlice' = encode(n.id)
    BY DEF Begins, CurrentSlice
  <2> QED
    BY <1>4, <2>1 DEF encode
<1>6. \A i \in DOMAIN wire : wire[i].item \in 1 .. Len(submitted') /\ wire[i].item # Len(submitted')
  BY <1>2 DEF Driven
<1> QED
  BY <1>1, <1>2, <1>5, <1>6 DEF Begins, Driven, Offering

\* A step of the operation: a member that fails does so after a byte of the item.
LEMMA DrivenStep ==
  ASSUME Driven, step
  PROVE  /\ Driven' /\ UNCHANGED <<wire, submitted>> /\ done \subseteq done'
         /\ opState # "None" /\ opState' # "None" /\ Len(submitted) \notin done
         /\ done' = done \/ (opState' = "Done" /\ done' = done \cup {Len(submitted)})
<1>1. IInv'
  BY SafeStep DEF Driven
<1>2. TypeOK /\ TypeOK' /\ Offering /\ unusable = "None" /\ remaining = 0
  BY <1>1 DEF Driven, IInv, step, StepPayload, StepNode, StepDone, SliceExhausted
<1>3. written \in Nat /\ emitted \in Nat /\ CurrentSlice \in Seq(Byte)
  BY <1>2, SliceType DEF TypeOK
<1>4. emitted > 0
  BY <1>2, <1>3 DEF Driven, remaining
<1>5. UNCHANGED <<unusable, emitted, wire, submitted, lost>> /\ done \subseteq done' /\ written' = 0
  BY DEF step, StepPayload, StepNode, StepDone
<1>6. torn
  BY <1>2, <1>4 DEF Driven, IInv, Bookkeeping, Offering
<1>0. Len(submitted) \notin done
  BY <1>2 DEF Driven, IInv, Bookkeeping
<1>7. CASE StepPayload
  <2>1. PICK j \in LaterPayloads : index' = j
    BY <1>7 DEF StepPayload
  <2>2. opState' = "Payload" /\ payloads' = payloads /\ Len(payloads[j]) > 0
    BY <1>7, <2>1 DEF StepPayload, LaterPayloads
  <2>3. Len(CurrentSlice') > 0
    BY <2>1, <2>2 DEF CurrentSlice
  <2>4. done' = done
    BY <1>7 DEF StepPayload
  <2> QED
    BY <1>0, <1>1, <1>2, <1>3, <1>4, <1>5, <2>2, <2>3, <2>4 DEF Driven, Offering
<1>8. CASE StepNode
  <2>1. PICK f \in OpenFrames :
          TakeMember(stack[f].members[stack[f].next],
                     SubSeq([stack EXCEPT ![f] = Advance(@)], 1, f))
    BY <1>8 DEF StepNode
  <2> DEFINE node == stack[f].members[stack[f].next]
  <2>2. node \in Nodes
    <3>1. stack[f] \in Frame /\ f \in DOMAIN stack
      BY <1>2 DEF TypeOK, OpenFrames
    <3>2. stack[f].next \in 1 .. Len(stack[f].members)
      BY <3>1 DEF OpenFrames, Frame
    <3> QED
      BY <3>1, <3>2 DEF Frame
  <2>3. node.id \in Ids
    BY <2>2, NodesAssumption
  <2>4. Desc[node.id].len \in Nat /\ Desc[node.id].len > 0
    BY <2>3, DescAssumption, EncodedLengthAssumption DEF Ids
  <2>5. \/ opState' = "Descriptor" /\ staging' = encode(node.id)
        \/ opState' = "Failed"
    BY <2>1 DEF TakeMember
  <2> HIDE DEF node
  <2>6. torn' = torn /\ done' = done
    BY <1>8 DEF StepNode
  <2>7. opState' = "Descriptor" => Len(CurrentSlice') > 0
    BY <2>4, <2>5 DEF CurrentSlice, encode
  <2>8. retired' # "None"
    BY <1>2, <1>5, <1>6, <2>6 DEF retired
  <2> QED
    BY <1>0, <1>1, <1>2, <1>3, <1>4, <1>5, <2>5, <2>6, <2>7, <2>8 DEF Driven, Offering
<1>9. CASE StepDone
  <2>1. opState' = "Done" /\ retired' = "None" /\ done' = done \cup {Len(submitted)}
    BY <1>2, <1>5, <1>9 DEF StepDone, retired
  <2> QED
    BY <1>0, <1>1, <1>2, <1>3, <1>4, <1>5, <2>1 DEF Driven, Offering
<1> QED
  BY <1>7, <1>8, <1>9 DEF step

\* A report: the wire grows by bytes of the last item.
LEMMA DrivenWritten ==
  ASSUME Driven, NEW n \in 1 .. remaining, report_written(n)
  PROVE  /\ Driven' /\ UNCHANGED <<submitted, done, opState>> /\ opState # "None"
         /\ \A i \in DOMAIN wire' : (i \in DOMAIN wire /\ wire'[i] = wire[i]) \/ wire'[i].item = Len(submitted)
<1>1. TypeOK /\ Offering
  BY DEF Driven, IInv, report_written
<1>2. CurrentSlice \in Seq(Byte) /\ written \in Nat /\ emitted \in Nat /\ remaining \in Int
  BY <1>1, SliceType DEF TypeOK, remaining
<1>3. n \in 0 .. remaining /\ n > 0 /\ n \in Nat
  BY <1>2
<1>4. IInv'
  BY <1>3, SafeTransfer DEF Driven
<1>5. /\ Len(wire) \in Nat /\ Len(wire') = Len(wire) + n
      /\ \A i \in 1 .. Len(wire) : wire'[i] = wire[i]
      /\ \A k \in 1 .. n : wire'[Len(wire) + k].item = Len(submitted)
  BY <1>1, <1>3, WireGrows DEF report_written
<1>6. wire \in Seq(WireByte) /\ wire' \in Seq(WireByte)
  BY <1>1, <1>4 DEF IInv, TypeOK
<1>7. DOMAIN wire = 1 .. Len(wire) /\ DOMAIN wire' = 1 .. Len(wire')
  BY <1>6
<1>8. \A i \in DOMAIN wire' : (i \in DOMAIN wire /\ wire'[i] = wire[i]) \/ wire'[i].item = Len(submitted)
  <2> SUFFICES ASSUME NEW i \in DOMAIN wire', i \notin DOMAIN wire PROVE wire'[i].item = Len(submitted)
    BY <1>5, <1>7
  <2>1. i - Len(wire) \in 1 .. n /\ i = Len(wire) + (i - Len(wire))
    BY <1>3, <1>5, <1>7
  <2> QED
    BY <1>5, <2>1
<1>9. Len(submitted) \in 1 .. Len(submitted)
  BY <1>1 DEF TypeOK, Offering
<1>10. /\ UNCHANGED <<unusable, opState, index, staging, payloads, submitted, done, lost>>
       /\ written' = written + n /\ emitted' = emitted + n
  BY DEF report_written
<1>11. CurrentSlice' = CurrentSlice /\ Offering'
  BY <1>1, <1>10 DEF CurrentSlice, Offering
<1>12. written' <= emitted' /\ Len(CurrentSlice') > 0 /\ emitted' > 0
  BY <1>1, <1>2, <1>3, <1>10, <1>11 DEF Driven
<1>13. \A i \in DOMAIN wire' : wire'[i].item \in 1 .. Len(submitted')
  BY <1>8, <1>9, <1>10 DEF Driven
<1>14. Driven'
  BY <1>1, <1>4, <1>10, <1>11, <1>12, <1>13 DEF Driven, Offering
<1> QED
  BY <1>1, <1>8, <1>10, <1>14 DEF Offering

\* The end of an operation: it leaves the core usable exactly when nothing or all of the item
\* is on the wire.
LEMMA DrivenEnd ==
  ASSUME Driven, report_sink_closed \/ Drop
  PROVE  /\ Driven' /\ UNCHANGED <<wire, submitted, done>> /\ opState # "None"
         /\ report_sink_closed => opState' = "Failed"
         /\ Drop => /\ opState' = "None" /\ retired' = retired
                    /\ opState \notin {"Done", "Failed"} => (retired # "None" <=> emitted > 0)
                    /\ opState = "Done" => Len(submitted) \in done
<1>1. IInv'
  BY SafeEnd DEF Driven
<1>2. UNCHANGED <<wire, submitted, done, lost>> /\ opState # "None"
  BY DEF report_sink_closed, Drop
<1>3. TypeOK /\ Bookkeeping
  BY DEF Driven, IInv
<1>4. opState \notin {"Done", "Failed"} => Offering
  BY <1>2, <1>3 DEF TypeOK, Offering
<1>5. opState \notin {"Done", "Failed"} => (retired # "None" <=> emitted > 0)
  BY <1>3, <1>4 DEF Bookkeeping, Offering, retired
<1>6. opState = "Done" => Len(submitted) \in done
  BY <1>3 DEF Bookkeeping
<1>7. CASE report_sink_closed
  <2>1. opState' = "Failed" /\ unusable' = "IncompleteOutput" /\ emitted' = emitted
    BY <1>7 DEF report_sink_closed
  <2>2. ~ Drop
    BY <2>1 DEF Drop
  <2>3. Driven'
    BY <1>1, <1>2, <2>1 DEF Driven, Offering, retired
  <2> QED
    BY <1>2, <2>1, <2>2, <2>3
<1>8. CASE Drop
  <2>1. opState' = "None" /\ UNCHANGED <<unusable, torn>>
    BY <1>8 DEF Drop
  <2>2. ~ report_sink_closed
    BY <2>1 DEF report_sink_closed
  <2>3. Driven' /\ retired' = retired
    BY <1>1, <1>2, <2>1 DEF Driven, Offering, retired
  <2> QED
    BY <1>2, <1>5, <1>6, <2>1, <2>2, <2>3
<1> QED
  BY <1>7, <1>8

-----------------------------------------------------------------------------
(***************************************************************************)
(* What is on the wire is the wire image of the items.  First: the image,  *)
(* a recursive function over the trees of nodes, exists and is unique.     *)
(***************************************************************************)

\* The image of n when f gives those of its members.
Piece(f, n) ==
  encode(n.id) \o Joined(IF n.kind = "Tensor" THEN payloads_of(n)
                             ELSE [i \in DOMAIN n.members |-> f[n.members[i]]])

\* f gives the images of the nodes in D, which has the members of its nodes.
Closed(D) == \A n \in D : \A i \in DOMAIN n.members : n.members[i] \in D
Coding(f, D) == D \subseteq Nodes /\ Closed(D) /\ f = [n \in D |-> Piece(f, n)]

\* f and g agree on the members of n.
Alike(f, g, n) == \A i \in DOMAIN n.members : f[n.members[i]] = g[n.members[i]]

\* The image depends on the images of the members only.
LEMMA PieceAgrees == ASSUME NEW f, NEW g, NEW n, Alike(f, g, n) PROVE Piece(f, n) = Piece(g, n)
<1>1. [i \in DOMAIN n.members |-> f[n.members[i]]] = [i \in DOMAIN n.members |-> g[n.members[i]]]
  BY DEF Alike
<1> QED
  BY <1>1 DEF Piece

\* A node has one image.
LEMMA CodingUnique ==
  ASSUME NEW f, NEW D, Coding(f, D), NEW g, NEW E, Coding(g, E)
  PROVE  \A n \in D \cap E : f[n] = g[n]
<1> DEFINE S == {n \in D \cap E : f[n] # g[n]}
<1> SUFFICES ASSUME S # {} PROVE FALSE
  OBVIOUS
<1>1. S \in SUBSET Nodes
  BY DEF Coding
<1>2. PICK n \in S : \A i \in DOMAIN n.members : n.members[i] \notin S
  BY <1>1, NodesAreTrees
<1>3. n \in D /\ n \in E /\ f[n] # g[n]
  OBVIOUS
<1>4. \A i \in DOMAIN n.members : n.members[i] \in D /\ n.members[i] \in E
  BY <1>3 DEF Coding, Closed
<1>5. Alike(f, g, n)
  BY <1>2, <1>4 DEF Alike
<1> HIDE DEF S
<1>6. f[n] = Piece(f, n) /\ g[n] = Piece(g, n)
  BY <1>3 DEF Coding
<1> QED
  BY <1>3, <1>5, <1>6, PieceAgrees

\* Every node has one.
LEMMA CodingExists == \E f : Coding(f, Nodes)
<1> DEFINE Has(n) == \E f, D : Coding(f, D) /\ n \in D
           All == {n \in Nodes : Has(n)}
           pick(n) == CHOOSE f : \E D : Coding(f, D) /\ n \in D
           e == [n \in All |-> pick(n)[n]]
<1>1. ASSUME NEW f, NEW D, Coding(f, D), NEW n \in D PROVE n \in All /\ e[n] = f[n]
  <2>1. n \in All
    BY <1>1 DEF Coding
  <2>2. PICK E : Coding(pick(n), E) /\ n \in E
    BY <1>1
  <2> HIDE DEF pick
  <2>3. pick(n)[n] = f[n]
    BY <1>1, <2>2, CodingUnique
  <2> QED
    BY <2>1, <2>3
<1>2. ASSUME NEW n \in All PROVE e[n] = Piece(e, n) /\ \A i \in DOMAIN n.members : n.members[i] \in All
  <2>1. PICK f, D : Coding(f, D) /\ n \in D
    OBVIOUS
  <2> HIDE DEF e, All
  <2>2. \A i \in DOMAIN n.members : n.members[i] \in D
    BY <2>1 DEF Coding, Closed
  <2>3. \A i \in DOMAIN n.members : n.members[i] \in All /\ e[n.members[i]] = f[n.members[i]]
    BY <1>1, <2>1, <2>2
  <2>4. e[n] = f[n] /\ f[n] = Piece(f, n)
    BY <1>1, <2>1 DEF Coding
  <2>5. Piece(e, n) = Piece(f, n)
    BY <2>3, PieceAgrees DEF Alike
  <2> QED
    BY <2>3, <2>4, <2>5
<1>3. Coding(e, All)
  <2>1. All \subseteq Nodes /\ Closed(All)
    BY <1>2 DEF Closed
  <2>2. e = [n \in All |-> e[n]]
    OBVIOUS
  <2> HIDE DEF e, All
  <2>3. e = [n \in All |-> Piece(e, n)]
    BY <1>2, <2>2
  <2> QED
    BY <2>1, <2>3 DEF Coding
<1>4. ASSUME Nodes \ All # {} PROVE FALSE
  <2>1. Nodes \ All \in SUBSET Nodes
    OBVIOUS
  <2>2. PICK n \in Nodes \ All : \A i \in DOMAIN n.members : n.members[i] \notin Nodes \ All
    BY <1>4, <2>1, NodesAreTrees
  <2>3. \A i \in DOMAIN n.members : n.members[i] \in All
    <3>1. n.members \in Seq(Nodes)
      BY NodesAssumption
    <3>2. \A i \in DOMAIN n.members : n.members[i] \in Nodes
      BY <3>1
    <3> QED
      BY <2>2, <3>2
  <2> DEFINE D == All \cup {n}
             g == [m \in D |-> IF m = n THEN Piece(e, n) ELSE e[m]]
  <2>4. n \notin All /\ \A m \in All : g[m] = e[m]
    OBVIOUS
  <2>5. g[n] = Piece(e, n) /\ n \in D /\ n \in Nodes
    OBVIOUS
  <2>6. D \subseteq Nodes /\ Closed(D)
    BY <1>3, <2>3 DEF Closed, Coding
  <2> HIDE DEF e, Has
  <2>7. ASSUME NEW m \in D PROVE g[m] = Piece(g, m)
    <3>1. \A i \in DOMAIN m.members : m.members[i] \in All
      BY <1>2, <2>3
    <3>2. Alike(g, e, m)
      BY <2>4, <3>1 DEF Alike
    <3>3. Piece(g, m) = Piece(e, m)
      BY <3>2, PieceAgrees
    <3>4. g[m] = Piece(e, m)
      BY <1>2, <2>4, <2>5
    <3> QED
      BY <3>3, <3>4
  <2>8. g = [m \in D |-> g[m]]
    OBVIOUS
  <2> HIDE DEF g, D
  <2>9. Coding(g, D)
    BY <2>6, <2>7, <2>8 DEF Coding
  <2>10. Has(n)
    BY <2>5, <2>9 DEF Has
  <2> QED
    BY <2>4, <2>5, <2>10
<1>5. All = Nodes
  BY <1>4
<1> QED
  BY <1>3, <1>5

\* The definition of Encoded holds, and images are byte sequences.
LEMMA EncodedUnfolds ==
  ASSUME NEW n \in Nodes
  PROVE  /\ n.kind = "Tensor" => Encoded[n] = encode(n.id) \o Joined(payloads_of(n))
         /\ n.kind # "Tensor" =>
              Encoded[n] = encode(n.id) \o Joined([i \in DOMAIN n.members |-> Encoded[n.members[i]]])
<1> DEFINE f == CHOOSE f : f = [m \in Nodes |-> Piece(f, m)]
<1>1. \E g : g = [m \in Nodes |-> Piece(g, m)]
  BY CodingExists DEF Coding
<1>2. f = [m \in Nodes |-> Piece(f, m)]
  BY <1>1
<1>3. Encoded = f
  BY DEF Encoded, Piece
<1> HIDE DEF f
<1>4. Encoded[n] = Piece(Encoded, n)
  BY <1>2, <1>3
<1> QED
  BY <1>4 DEF Piece

\* The images of a sequence of nodes, and what of them is left of a frame of the stack.
ImagesOf(ms) == [i \in DOMAIN ms |-> Encoded[ms[i]]]
Left(frame) == Suffix(ImagesOf(frame.members), frame.next)

\* What is left of the frames of a stack, innermost first.
Below(st) == Joined([k \in 1 .. Len(st) |-> Left(st[Len(st) + 1 - k])])

\* Images are byte sequences.
LEMMA EncodedType == \A n \in Nodes : Encoded[n] \in Seq(Byte)
<1> DEFINE B == Seq(Byte)
           S == {n \in Nodes : Encoded[n] \notin B}
<1> SUFFICES ASSUME S # {} PROVE FALSE
  OBVIOUS
<1>1. S \in SUBSET Nodes
  OBVIOUS
<1>2. PICK n \in S : \A i \in DOMAIN n.members : n.members[i] \notin S
  BY <1>1, NodesAreTrees
<1>3. n \in Nodes /\ Encoded[n] \notin B
  OBVIOUS
<1>4. n.id \in Ids /\ n.members \in Seq(Nodes)
  BY <1>3, NodesAssumption
<1>5. \A i \in DOMAIN n.members : Encoded[n.members[i]] \in B
  <2>1. \A i \in DOMAIN n.members : n.members[i] \in Nodes
    BY <1>4
  <2> QED
    BY <1>2, <2>1
<1> HIDE DEF S, B
<1> DEFINE p == payloads_of(n)
           m == [i \in DOMAIN n.members |-> Encoded[n.members[i]]]
<1>6. p \in Seq(Seq(Byte))
  BY <1>3, PayloadsType
<1>7. m \in Seq(B)
  <2>1. DOMAIN n.members = 1 .. Len(n.members) /\ Len(n.members) \in Nat
    BY <1>4
  <2> QED
    BY <1>5, <2>1
<1> HIDE DEF p, m
<1>8. Joined(p) \in Seq(Byte) /\ Joined(m) \in Seq(Byte)
  BY <1>6, <1>7, JoinedType DEF B
<1>9. encode(n.id) \in Seq(Byte)
  BY <1>4, EncodeType
<1>10. Encoded[n] = encode(n.id) \o Joined(p) \/ Encoded[n] = encode(n.id) \o Joined(m)
  BY <1>3, EncodedUnfolds DEF p, m
<1>11. Encoded[n] \in Seq(Byte)
  <2> DEFINE e == encode(n.id)
             x == Joined(p)
             y == Joined(m)
  <2>1. e \in Seq(Byte) /\ x \in Seq(Byte) /\ y \in Seq(Byte)
    BY <1>8, <1>9
  <2>2. Encoded[n] = e \o x \/ Encoded[n] = e \o y
    BY <1>10
  <2> HIDE DEF e, x, y
  <2>3. e \o x \in Seq(Byte) /\ e \o y \in Seq(Byte)
    BY ONLY <2>1
  <2> QED
    BY ONLY <2>2, <2>3
<1> QED
  BY <1>3, <1>11 DEF B

\* The images of the members of a frame.
LEMMA ImagesOfType ==
  ASSUME NEW ms \in Seq(Nodes)
  PROVE  /\ ImagesOf(ms) \in Seq(Seq(Byte)) /\ Len(ImagesOf(ms)) = Len(ms) /\ Len(ms) \in Nat
         /\ \A i \in 1 .. Len(ms) : ImagesOf(ms)[i] = Encoded[ms[i]]
<1> DEFINE B == Seq(Byte)
<1>1. Len(ms) \in Nat /\ DOMAIN ms = 1 .. Len(ms) /\ \A i \in 1 .. Len(ms) : ms[i] \in Nodes
  OBVIOUS
<1>2. \A i \in 1 .. Len(ms) : Encoded[ms[i]] \in B
  BY <1>1, EncodedType
<1> HIDE DEF B
<1>3. ImagesOf(ms) \in Seq(B) /\ Len(ImagesOf(ms)) = Len(ms)
  BY <1>1, <1>2 DEF ImagesOf
<1>4. \A i \in 1 .. Len(ms) : ImagesOf(ms)[i] = Encoded[ms[i]]
  BY <1>1 DEF ImagesOf
<1> QED
  BY <1>1, <1>3, <1>4 DEF B

\* A frame that is done has nothing left; another has its next member and then the rest.
LEMMA LeftCases ==
  ASSUME NEW frame \in Frame
  PROVE  /\ Left(frame) \in Seq(Byte)
         /\ frame.next > Len(frame.members) => Left(frame) = <<>>
         /\ frame.next <= Len(frame.members) =>
              /\ frame.members[frame.next] \in Nodes
              /\ Advance(frame) \in Frame
              /\ Left(frame) = Encoded[frame.members[frame.next]] \o Left(Advance(frame))
<1> DEFINE ms == frame.members
           n == frame.next
           im == ImagesOf(ms)
<1>1. ms \in Seq(Nodes) /\ n \in Nat /\ n > 0
  BY DEF Frame
<1>2. im \in Seq(Seq(Byte)) /\ Len(im) = Len(ms) /\ Len(ms) \in Nat /\ \A i \in 1 .. Len(ms) : im[i] = Encoded[ms[i]]
  BY <1>1, ImagesOfType
<1>3. Left(frame) = Suffix(im, n)
  BY DEF Left
<1>4. ASSUME n > Len(ms) PROVE Left(frame) = <<>>
  <2> HIDE DEF im, ms, n
  <2> QED
    BY <1>1, <1>2, <1>3, <1>4, SuffixEnd
<1>5. ASSUME n <= Len(ms) PROVE ms[n] \in Nodes /\ n \in 1 .. Len(im)
  BY <1>1, <1>2, <1>5
<1>6. Left(frame) \in Seq(Byte)
  <2>1. CASE n > Len(ms)
    BY <1>4, <2>1
  <2>2. CASE n <= Len(ms)
    <3>1. n \in 1 .. Len(im) + 1
      BY <1>1, <1>2, <2>2
    <3> HIDE DEF im, ms, n
    <3> QED
      BY <1>2, <1>3, <3>1, SuffixType
  <2> QED
    BY <1>1, <1>2, <2>1, <2>2
<1>7. ASSUME n <= Len(ms) PROVE Left(frame) = Encoded[ms[n]] \o Suffix(im, n + 1)
  <2>1. n \in 1 .. Len(im) /\ n \in 1 .. Len(ms)
    BY <1>1, <1>2, <1>7
  <2> HIDE DEF im, ms, n
  <2>2. Suffix(im, n) = im[n] \o Suffix(im, n + 1)
    BY <1>2, <2>1, SuffixStep
  <2> QED
    BY <1>2, <1>3, <2>1, <2>2
<1>8. Left(Advance(frame)) = Suffix(im, n + 1) /\ Advance(frame) \in Frame
  BY <1>1 DEF Left, Advance, Frame
<1> HIDE DEF im
<1> QED
  BY <1>4, <1>5, <1>6, <1>7, <1>8

\* The pieces of Below.
LEMMA BelowPieces ==
  ASSUME NEW st \in Seq(Frame)
  PROVE  /\ [k \in 1 .. Len(st) |-> Left(st[Len(st) + 1 - k])] \in Seq(Seq(Byte))
         /\ Below(st) \in Seq(Byte) /\ (st = <<>> => Below(st) = <<>>)
<1> DEFINE B == Seq(Byte)
           r == [k \in 1 .. Len(st) |-> Left(st[Len(st) + 1 - k])]
<1>1. Len(st) \in Nat /\ \A k \in 1 .. Len(st) : st[Len(st) + 1 - k] \in Frame
  OBVIOUS
<1>2. \A k \in 1 .. Len(st) : Left(st[Len(st) + 1 - k]) \in B
  BY <1>1, LeftCases
<1> HIDE DEF B
<1>3. r \in Seq(B)
  BY <1>1, <1>2
<1>4. st = <<>> => r = <<>>
  OBVIOUS
<1> HIDE DEF r
<1>5. Joined(r) \in Seq(Byte) /\ (r = <<>> => Joined(r) = <<>>)
  BY <1>3, JoinedType DEF B
<1> QED
  BY <1>3, <1>4, <1>5 DEF r, B, Below

\* A frame pushed comes first.
LEMMA BelowPush ==
  ASSUME NEW st \in Seq(Frame), NEW fr \in Frame
  PROVE  Below(Append(st, fr)) = Left(fr) \o Below(st)
<1> DEFINE B == Seq(Byte)
           r == [k \in 1 .. Len(st) |-> Left(st[Len(st) + 1 - k])]
           tt == Append(st, fr)
           q == [k \in 1 .. Len(tt) |-> Left(tt[Len(tt) + 1 - k])]
<1>1. r \in Seq(B) /\ Left(fr) \in B
  BY BelowPieces, LeftCases
<1>2. /\ Len(st) \in Nat /\ Len(tt) = Len(st) + 1 /\ tt[Len(tt)] = fr
      /\ \A k \in 1 .. Len(st) : tt[k] = st[k]
  OBVIOUS
<1> HIDE DEF B, tt
<1>3. /\ <<Left(fr)>> \o r \in Seq(B) /\ Len(<<Left(fr)>> \o r) = Len(st) + 1
      /\ (<<Left(fr)>> \o r)[1] = Left(fr)
      /\ \A k \in 2 .. Len(st) + 1 : (<<Left(fr)>> \o r)[k] = r[k - 1]
  <2>1. Len(r) = Len(st)
    BY <1>1, <1>2
  <2> HIDE DEF r
  <2> QED
    BY <1>1, <1>2, <2>1
<1>4. ASSUME NEW k \in 1 .. Len(st) + 1 PROVE q[k] = (<<Left(fr)>> \o r)[k]
  <2>1. CASE k = 1
    <3>1. q[k] = Left(tt[Len(tt)])
      BY <1>2, <2>1
    <3> HIDE DEF q, r
    <3> QED
      BY <1>2, <1>3, <2>1, <3>1
  <2>2. CASE k \in 2 .. Len(st) + 1
    <3>1. k - 1 \in 1 .. Len(st) /\ Len(tt) + 1 - k = Len(st) + 1 - (k - 1) /\ Len(tt) + 1 - k \in 1 .. Len(st)
          /\ k \in 1 .. Len(tt)
      BY <1>2, <2>2
    <3>2. q[k] = Left(tt[Len(tt) + 1 - k]) /\ r[k - 1] = Left(st[Len(st) + 1 - (k - 1)])
      BY <3>1
    <3>3. q[k] = r[k - 1]
      BY <1>2, <3>1, <3>2
    <3> HIDE DEF q, r
    <3> QED
      BY <1>3, <2>2, <3>3
  <2> QED
    BY <1>2, <2>1, <2>2
<1>5. q = <<Left(fr)>> \o r
  <2>1. q = [k \in 1 .. Len(st) + 1 |-> q[k]]
    BY <1>2
  <2>2. <<Left(fr)>> \o r = [k \in 1 .. Len(st) + 1 |-> (<<Left(fr)>> \o r)[k]]
    <3> HIDE DEF r
    <3> QED
      BY <1>3
  <2> HIDE DEF q, r
  <2> QED
    BY <1>4, <2>1, <2>2
<1>6. Joined(<<Left(fr)>> \o r) = Left(fr) \o Joined(r)
  <2> HIDE DEF r
  <2> QED
    BY <1>1, JoinedCons DEF B
<1> QED
  BY <1>5, <1>6 DEF tt, Below

\* A prefix one element longer.
LEMMA FrontAppend ==
  ASSUME NEW S, NEW u \in Seq(S), NEW n \in 1 .. Len(u)
  PROVE  SubSeq(u, 1, n) = Append(SubSeq(u, 1, n - 1), u[n]) /\ SubSeq(u, 1, n - 1) \in Seq(S)
OBVIOUS

\* The whole prefix and the empty one.
LEMMA FrontEnds ==
  ASSUME NEW S, NEW u \in Seq(S)
  PROVE  SubSeq(u, 1, Len(u)) = u /\ SubSeq(u, 1, 0) = <<>>
OBVIOUS

\* The frames of st above the f-th have no member left.
Spent(st, f) == \A g \in f + 1 .. Len(st) : st[g].next > Len(st[g].members)

\* Popping them changes nothing.
LEMMA BelowTo ==
  ASSUME NEW st \in Seq(Frame), NEW f \in 0 .. Len(st), Spent(st, f)
  PROVE  Below(st) = Below(SubSeq(st, 1, f))
<1> DEFINE Differs(n) == Below(SubSeq(st, 1, n)) # Below(SubSeq(st, 1, f))
           T == {n \in Nat : f <= n /\ n <= Len(st) /\ Differs(n)}
<1>1. T \subseteq Nat /\ Len(st) \in Nat /\ f \in Nat /\ f <= Len(st) /\ ~ Differs(f)
  OBVIOUS
<1>2. SubSeq(st, 1, Len(st)) = st
  BY FrontEnds
<1>3. SUFFICES ASSUME T # {} PROVE FALSE
  <2>1. Len(st) \in T \/ ~ Differs(Len(st))
    BY <1>1
  <2>2. ~ Differs(Len(st)) => Below(st) = Below(SubSeq(st, 1, f))
    BY <1>2
  <2> HIDE DEF T, Differs
  <2> QED
    BY <2>1, <2>2
<1>4. PICK n \in T : \A m \in T : n <= m
  BY <1>1, <1>3, Least
<1>5. n \in Nat /\ f <= n /\ n <= Len(st) /\ Differs(n)
  OBVIOUS
<1>6. n - 1 \in T \/ ~ (n - 1 \in Nat /\ f <= n - 1 /\ n - 1 <= Len(st) /\ Differs(n - 1))
  OBVIOUS
<1>7. n - 1 \notin T
  BY <1>4, <1>5
<1> HIDE DEF T
<1>8. n # f
  <2> HIDE DEF Differs
  <2> QED
    BY <1>1, <1>5
<1>9. n \in 1 .. Len(st) /\ n \in f + 1 .. Len(st) /\ n - 1 \in Nat /\ f <= n - 1 /\ n - 1 <= Len(st)
  BY <1>1, <1>5, <1>8
<1>10. ~ Differs(n - 1)
  BY <1>6, <1>7, <1>9
<1>11. st[n] \in Frame /\ st[n].next > Len(st[n].members)
  BY <1>9 DEF Spent
<1> DEFINE u == SubSeq(st, 1, n - 1)
<1>12. SubSeq(st, 1, n) = Append(u, st[n]) /\ u \in Seq(Frame)
  BY <1>9, FrontAppend
<1>13. Below(SubSeq(st, 1, n - 1)) = Below(SubSeq(st, 1, f))
  BY <1>10
<1>14. Below(SubSeq(st, 1, n)) # Below(SubSeq(st, 1, f))
  BY <1>5
<1> HIDE DEF u
<1>15. Below(Append(u, st[n])) = Left(st[n]) \o Below(u)
  BY <1>11, <1>12, BelowPush
<1>16. Left(st[n]) = <<>>
  BY <1>11, LeftCases
<1>17. Below(u) \in Seq(Byte)
  BY <1>12, BelowPieces
<1>18. Left(st[n]) \o Below(u) = Below(u)
  BY <1>16, <1>17, CatEmpty
<1> QED
  BY <1>12, <1>13, <1>14, <1>15, <1>18 DEF u

\* The next member of the innermost frame with one left: it comes first, then what is left
\* once it is taken off.
LEMMA BelowNext ==
  ASSUME NEW st \in Seq(Frame), NEW f \in 1 .. Len(st), Spent(st, f),
         st[f].next <= Len(st[f].members), NEW kept, kept = SubSeq([st EXCEPT ![f] = Advance(@)], 1, f)
  PROVE  /\ st[f].members[st[f].next] \in Nodes /\ kept \in Seq(Frame)
         /\ Below(st) = Encoded[st[f].members[st[f].next]] \o Below(kept)
<1> DEFINE u == SubSeq(st, 1, f - 1)
           x == st[f]
           a == Advance(st[f])
           n == x.members[x.next]
<1>1. x \in Frame /\ f \in 0 .. Len(st)
  OBVIOUS
<1>2. SubSeq(st, 1, f) = Append(u, x) /\ u \in Seq(Frame)
  BY FrontAppend
<1>3. n \in Nodes /\ a \in Frame /\ Left(x) = Encoded[n] \o Left(a)
      /\ Left(a) \in Seq(Byte)
  BY <1>1, LeftCases
<1>4. kept = Append(u, a)
  <2>0. a \in Frame /\ st \in Seq(Frame) /\ f \in 1 .. Len(st)
    BY <1>3
  <2> HIDE DEF a
  <2>1. [st EXCEPT ![f] = a] \in Seq(Frame) /\ Len([st EXCEPT ![f] = a]) = Len(st)
    BY ONLY <2>0
  <2>2. [st EXCEPT ![f] = Advance(@)] = [st EXCEPT ![f] = a]
    BY DEF a
  <2> DEFINE w == [st EXCEPT ![f] = a]
  <2>3. w[f] = a /\ \A i \in 1 .. f - 1 : w[i] = st[i]
    BY ONLY <2>0
  <2> HIDE DEF w
  <2>4. SubSeq(w, 1, f) = Append(SubSeq(w, 1, f - 1), a)
    BY <2>1, <2>3, FrontAppend DEF w
  <2>5. SubSeq(w, 1, f - 1) = u
    BY <2>1, <2>3 DEF w
  <2> QED
    BY <2>2, <2>4, <2>5 DEF w
<1>5. Encoded[n] \in Seq(Byte)
  BY <1>3, EncodedType
<1>6. Below(u) \in Seq(Byte)
  BY <1>2, BelowPieces
<1>7. Below(st) = Below(Append(u, x))
  BY <1>1, <1>2, BelowTo
<1> HIDE DEF u, x, a, n
<1>8. Below(Append(u, x)) = Left(x) \o Below(u) /\ Below(Append(u, a)) = Left(a) \o Below(u)
  BY <1>1, <1>2, <1>3, BelowPush
<1>9. (Encoded[n] \o Left(a)) \o Below(u) = Encoded[n] \o (Left(a) \o Below(u))
  <2> DEFINE p == Encoded[n]
             q == Left(a)
             r == Below(u)
  <2>1. p \in Seq(Byte) /\ q \in Seq(Byte) /\ r \in Seq(Byte)
    BY <1>3, <1>5, <1>6
  <2> HIDE DEF p, q, r
  <2>2. (p \o q) \o r = p \o (q \o r)
    BY ONLY <2>1
  <2> QED
    BY <2>2 DEF p, q, r
<1>10. kept \in Seq(Frame)
  BY <1>2, <1>3, <1>4
<1>11. Below(st) = Encoded[n] \o Below(kept)
  BY <1>3, <1>4, <1>7, <1>8, <1>9
<1> QED
  BY <1>3, <1>10, <1>11 DEF n, x

-----------------------------------------------------------------------------
\* What an operation still has to put on the wire: the rest of the slice it offers, the
\* later payloads of the node, what is left of the open frames.
RestOf(src, pays, at, st) == (src \o Suffix(pays, at + 1)) \o Below(st)
Rest == RestOf(output_src, payloads, index, stack)

\* A node just staged on a stack has its whole image to put before the rest of the stack.
LEMMA RestStaged ==
  ASSUME NEW n \in Nodes, NEW kept \in Seq(Frame), NEW pays, NEW st,
         pays = IF n.kind = "Tensor" THEN payloads_of(n) ELSE <<>>,
         st = IF n.kind = "Tensor" THEN kept ELSE Append(kept, [members |-> n.members, next |-> 1])
  PROVE  RestOf(encode(n.id), pays, 0, st) = Encoded[n] \o Below(kept)
<1> DEFINE e == encode(n.id)
           y == Below(kept)
           s == Suffix(pays, 1)
<1>1. n.id \in Ids /\ n.members \in Seq(Nodes) /\ e \in Seq(Byte)
  BY NodesAssumption, EncodeType
<1>2. y \in Seq(Byte)
  BY BelowPieces
<1>3. 0 + 1 = 1
  OBVIOUS
<1>4. CASE n.kind = "Tensor"
  <2>1. pays \in Seq(Seq(Byte)) /\ pays = payloads_of(n) /\ st = kept
    BY <1>4, PayloadsType
  <2>2. 1 \in 1 .. Len(pays) + 1
    BY <2>1
  <2>3. s = Joined(pays)
    BY <2>1, <2>2, SuffixType
  <2>4. Encoded[n] = e \o s
    BY <1>4, <2>1, <2>3, EncodedUnfolds
  <2> HIDE DEF e, y, s
  <2> QED
    BY <1>3, <2>1, <2>4 DEF RestOf, e, y, s
<1>5. CASE n.kind # "Tensor"
  <2> DEFINE fr == [members |-> n.members, next |-> 1]
             l == Left(fr)
  <2>1. fr \in Frame /\ fr.members = n.members /\ fr.next = 1
    BY <1>1 DEF Frame
  <2>2. pays = <<>> /\ st = Append(kept, fr)
    BY <1>5
  <2>3. s = <<>>
    <3>1. Len(pays) = 0 /\ Len(pays) \in Nat /\ 1 > Len(pays) /\ 1 \in Nat
      BY <2>2
    <3> QED
      BY <3>1, SuffixEnd
  <2>4. l \in Seq(Byte)
    BY <2>1, LeftCases
  <2>5. Encoded[n] = e \o l
    <3> DEFINE im == ImagesOf(n.members)
    <3>1. im \in Seq(Seq(Byte)) /\ 1 \in 1 .. Len(im) + 1
      BY <1>1, ImagesOfType
    <3>2. l = Suffix(im, 1)
      BY <2>1 DEF Left
    <3> HIDE DEF im, l, fr
    <3>3. l = Joined(im)
      BY <3>1, <3>2, SuffixType
    <3>4. Encoded[n] = e \o Joined(im)
      BY <1>5, EncodedUnfolds DEF im, ImagesOf
    <3> QED
      BY <3>3, <3>4
  <2>6. Below(Append(kept, fr)) = l \o y
    BY <2>1, BelowPush
  <2> HIDE DEF e, y, s, l, fr
  <2>7. RestOf(encode(n.id), pays, 0, st) = (e \o s) \o (l \o y)
    BY <1>3, <2>2, <2>6 DEF RestOf, e, s
  <2>8. e \o s = e
    BY <1>1, <2>3, CatEmpty
  <2>9. (e \o l) \o y = e \o (l \o y)
    <3>1. e \in Seq(Byte) /\ l \in Seq(Byte) /\ y \in Seq(Byte)
      BY <1>1, <1>2, <2>4
    <3> QED
      BY ONLY <3>1
  <2> QED
    BY <2>5, <2>7, <2>8, <2>9 DEF y
<1> QED
  BY <1>4, <1>5

\* With nothing left of the slice, empty payloads are skipped and the next one comes first.
LEMMA RestPayload ==
  ASSUME NEW pays \in Seq(Seq(Byte)), NEW at \in Nat, NEW j \in at + 1 .. Len(pays),
         Blank(pays, at + 1, j), NEW st \in Seq(Frame), NEW src, src = <<>>
  PROVE  RestOf(src, pays, at, st) = RestOf(pays[j], pays, j, st)
<1>1. /\ at + 1 \in 1 .. Len(pays) + 1 /\ j \in at + 1 .. Len(pays) + 1 /\ j \in 1 .. Len(pays)
      /\ j + 1 \in 1 .. Len(pays) + 1
  OBVIOUS
<1>2. Suffix(pays, at + 1) = Suffix(pays, j)
  BY <1>1, SuffixSkip
<1>3. Suffix(pays, j) = pays[j] \o Suffix(pays, j + 1)
  BY <1>1, SuffixStep
<1>4. Suffix(pays, at + 1) \in Seq(Byte)
  BY <1>1, SuffixType
<1>5. src \o Suffix(pays, at + 1) = Suffix(pays, at + 1)
  BY <1>4, CatEmpty
<1> QED
  BY <1>2, <1>3, <1>5 DEF RestOf

\* With nothing left of the slice and of the payloads, only the frames remain.
LEMMA RestFrames ==
  ASSUME NEW pays \in Seq(Seq(Byte)), NEW at \in Nat, at <= Len(pays),
         Blank(pays, at + 1, Len(pays) + 1), NEW st \in Seq(Frame), NEW src, src = <<>>
  PROVE  RestOf(src, pays, at, st) = Below(st)
<1>1. /\ at + 1 \in 1 .. Len(pays) + 1 /\ Len(pays) + 1 \in at + 1 .. Len(pays) + 1
      /\ Len(pays) \in Nat /\ Len(pays) + 1 > Len(pays) /\ Len(pays) + 1 \in Nat
  OBVIOUS
<1>2. Suffix(pays, at + 1) = Suffix(pays, Len(pays) + 1)
  BY <1>1, SuffixSkip
<1>3. Suffix(pays, Len(pays) + 1) = <<>>
  BY <1>1, SuffixEnd
<1>4. Below(st) \in Seq(Byte)
  BY BelowPieces
<1>5. src \o Suffix(pays, at + 1) = <<>>
  BY <1>2, <1>3
<1>6. <<>> \o Below(st) = Below(st)
  BY <1>4, CatEmpty
<1> QED
  BY <1>5, <1>6 DEF RestOf

\* From its n-th byte on, the image is the sequence rest.
Ends(image, n, rest) ==
  Len(image) = n + Len(rest) /\ \A k \in 1 .. Len(rest) : image[n + k] = rest[k]

\* The image of the current item.
Image == Encoded[submitted[Len(submitted)]]

\* What the operation still has to put on the wire is what the wire does not have of the
\* image of its item.
OnTrack ==
  Offering => /\ opState = "Descriptor" => index = 0
              /\ Ends(Image, emitted, Rest)

\* A slice written to its end has nothing left to offer.
LEMMA NothingOffered ==
  ASSUME TypeOK, OnTrack, SliceExhausted
  PROVE  /\ output_src = <<>> /\ index \in Nat /\ index <= Len(payloads)
         /\ payloads \in Seq(Seq(Byte)) /\ stack \in Seq(Frame)
<1>1. Offering /\ written = Len(CurrentSlice)
  <2>1. CurrentSlice \in Seq(Byte) /\ Offering
    BY SliceType DEF SliceExhausted
  <2>2. Len(CurrentSlice) \in Nat /\ written \in Nat /\ Len(CurrentSlice) - written = 0
    BY <2>1 DEF SliceExhausted, remaining, TypeOK
  <2> QED
    BY <2>1, <2>2
<1>2. output_src = <<>>
  <2> DEFINE c == CurrentSlice
  <2>1. c \in Seq(Byte) /\ output_src = SubSeq(c, written + 1, Len(c)) /\ written = Len(c)
    BY <1>1, SliceType DEF output_src
  <2> HIDE DEF c
  <2> QED
    BY <2>1
<1>3. index \in Nat /\ index <= Len(payloads)
  <2>1. payloads \in Seq(Seq(Byte)) /\ index \in Nat
    BY DEF TypeOK
  <2>2. Len(payloads) \in Nat
    BY <2>1
  <2>3. index = 0 \/ index \in 1 .. Len(payloads)
    BY <1>1 DEF OnTrack, Offering, TypeOK
  <2> QED
    BY <2>1, <2>2, <2>3
<1> QED
  BY <1>2, <1>3 DEF TypeOK

\* begin_payload keeps to the image.
LEMMA TrackPayload == ASSUME TypeOK, OnTrack, StepPayload PROVE OnTrack'
<1>1. PICK j \in LaterPayloads : /\ \A k \in LaterPayloads : j <= k
                                 /\ index' = j
  BY DEF StepPayload
<1>2. /\ output_src = <<>> /\ index \in Nat /\ index <= Len(payloads)
      /\ payloads \in Seq(Seq(Byte)) /\ stack \in Seq(Frame)
  BY NothingOffered DEF StepPayload
<1>3. j \in index + 1 .. Len(payloads)
  BY DEF LaterPayloads
<1>4. Blank(payloads, index + 1, j)
  <2>1. SUFFICES ASSUME NEW k \in index + 1 .. j - 1 PROVE payloads[k] = <<>>
    BY DEF Blank
  <2>2. Len(payloads) \in Nat /\ k \in index + 1 .. Len(payloads) /\ ~ (j <= k) /\ k \in 1 .. Len(payloads)
    BY <1>2, <1>3
  <2>3. ~ (Len(payloads[k]) > 0)
    BY <1>1, <2>2 DEF LaterPayloads
  <2> DEFINE B == Seq(Byte)
  <2>4. payloads[k] \in B
    BY <1>2, <2>2
  <2> QED
    BY <2>3, <2>4
<1>5. RestOf(output_src, payloads, index, stack) = RestOf(payloads[j], payloads, j, stack)
  BY <1>2, <1>3, <1>4, RestPayload
<1>6. output_src' = payloads[j]
  <2>1. CurrentSlice' = payloads[j] /\ written' = 0
    BY <1>1 DEF StepPayload, CurrentSlice
  <2> DEFINE c == payloads[j]
             B == Seq(Byte)
  <2>2. c \in B
    BY <1>2, <1>3
  <2>3. output_src' = SubSeq(c, 0 + 1, Len(c))
    BY <2>1 DEF output_src
  <2> HIDE DEF c
  <2>4. SubSeq(c, 1, Len(c)) = c /\ 0 + 1 = 1
    BY <2>2, FrontEnds
  <2> QED
    BY <2>3, <2>4 DEF c
<1>7. Rest' = Rest
  BY <1>1, <1>5, <1>6 DEF Rest, StepPayload
<1>8. Offering /\ opState' = "Payload" /\ Image' = Image /\ emitted' = emitted
  BY DEF StepPayload, SliceExhausted, Image
<1> QED
  BY <1>7, <1>8 DEF OnTrack

\* With no payload left to offer, only the frames of the stack remain.
LEMMA OnlyFrames ==
  ASSUME TypeOK, OnTrack, SliceExhausted, LaterPayloads = {}
  PROVE  Rest = Below(stack) /\ stack \in Seq(Frame)
<1>1. /\ output_src = <<>> /\ index \in Nat /\ index <= Len(payloads)
      /\ payloads \in Seq(Seq(Byte)) /\ stack \in Seq(Frame)
  BY NothingOffered
<1>2. Blank(payloads, index + 1, Len(payloads) + 1)
  <2>1. SUFFICES ASSUME NEW k \in index + 1 .. Len(payloads) + 1 - 1 PROVE payloads[k] = <<>>
    BY DEF Blank
  <2>2. k \in index + 1 .. Len(payloads) /\ k \in 1 .. Len(payloads)
    BY <1>1
  <2>3. ~ (Len(payloads[k]) > 0)
    BY <2>2 DEF LaterPayloads
  <2> DEFINE B == Seq(Byte)
  <2>4. payloads[k] \in B
    BY <1>1, <2>2
  <2> QED
    BY <2>3, <2>4
<1> QED
  BY <1>1, <1>2, RestFrames DEF Rest

\* next_node keeps to the image.
LEMMA TrackNode == ASSUME TypeOK, OnTrack, StepNode PROVE OnTrack'
<1>1. PICK f \in OpenFrames :
        /\ \A g \in OpenFrames : g <= f
        /\ TakeMember(stack[f].members[stack[f].next],
                      SubSeq([stack EXCEPT ![f] = Advance(@)], 1, f))
  BY DEF StepNode
<1> DEFINE n == stack[f].members[stack[f].next]
           kept == SubSeq([stack EXCEPT ![f] = Advance(@)], 1, f)
<1>2. Rest = Below(stack) /\ stack \in Seq(Frame)
  BY OnlyFrames DEF StepNode
<1>3. f \in 1 .. Len(stack) /\ stack[f].next <= Len(stack[f].members)
  BY <1>2 DEF OpenFrames
<1>4. Spent(stack, f)
  <2>1. SUFFICES ASSUME NEW g \in f + 1 .. Len(stack) PROVE stack[g].next > Len(stack[g].members)
    BY DEF Spent
  <2>2. g \in 1 .. Len(stack) /\ ~ (g <= f) /\ g \in DOMAIN stack
    BY <1>2, <1>3
  <2>3. ~ (stack[g].next <= Len(stack[g].members))
    BY <1>1, <2>2 DEF OpenFrames
  <2>4. stack[g] \in Frame
    BY <1>2, <2>2
  <2>5. stack[g].next \in Nat /\ Len(stack[g].members) \in Nat
    BY <2>4 DEF Frame
  <2> QED
    BY <2>3, <2>5
<1>5. n \in Nodes /\ kept \in Seq(Frame) /\ Below(stack) = Encoded[n] \o Below(kept)
  BY <1>2, <1>3, <1>4, BelowNext
<1>6. TakeMember(n, kept)
  BY <1>1
<1> HIDE DEF n, kept
<1>7. CASE opState' = "Failed"
  BY <1>7 DEF OnTrack, Offering
<1>8. CASE opState' # "Failed"
  <2>1. /\ opState' = "Descriptor" /\ index' = 0 /\ staging' = encode(n.id)
        /\ payloads' = IF n.kind = "Tensor" THEN payloads_of(n) ELSE <<>>
        /\ stack' = IF n.kind = "Tensor" THEN kept ELSE Append(kept, [members |-> n.members, next |-> 1])
    BY <1>6, <1>8 DEF TakeMember
  <2>2. output_src' = encode(n.id)
    <3>1. CurrentSlice' = encode(n.id) /\ written' = 0
      BY <2>1 DEF CurrentSlice, StepNode
    <3> DEFINE c == encode(n.id)
    <3>2. c \in Seq(Byte)
      BY <1>5, NodesAssumption, EncodeType
    <3>3. output_src' = SubSeq(c, 0 + 1, Len(c))
      BY <3>1 DEF output_src
    <3> HIDE DEF c
    <3>4. SubSeq(c, 1, Len(c)) = c /\ 0 + 1 = 1
      BY <3>2, FrontEnds
    <3> QED
      BY <3>3, <3>4 DEF c
  <2>3. RestOf(encode(n.id), payloads', 0, stack') = Encoded[n] \o Below(kept)
    BY <1>5, <2>1, RestStaged
  <2>4. Rest' = Rest
    BY <1>2, <1>5, <2>1, <2>2, <2>3 DEF Rest
  <2>5. Offering /\ Image' = Image /\ emitted' = emitted
    BY DEF StepNode, SliceExhausted, Image
  <2> QED
    BY <2>1, <2>4, <2>5 DEF OnTrack
<1> QED
  BY <1>7, <1>8

\* When the operation is done nothing of the image is missing.
LEMMA TrackDone ==
  ASSUME TypeOK, OnTrack, StepDone
  PROVE  OnTrack' /\ Len(Image) = emitted
<1>1. Rest = Below(stack) /\ stack \in Seq(Frame)
  BY OnlyFrames DEF StepDone
<1>2. Spent(stack, 0)
  <2>1. SUFFICES ASSUME NEW g \in 0 + 1 .. Len(stack) PROVE stack[g].next > Len(stack[g].members)
    BY DEF Spent
  <2>2. g \in 1 .. Len(stack) /\ g \in DOMAIN stack
    BY <1>1
  <2>3. ~ (stack[g].next <= Len(stack[g].members))
    BY <2>2 DEF OpenFrames, StepDone
  <2>4. stack[g] \in Frame
    BY <1>1, <2>2
  <2>5. stack[g].next \in Nat /\ Len(stack[g].members) \in Nat
    BY <2>4 DEF Frame
  <2> QED
    BY <2>3, <2>5
<1>3. Below(stack) = Below(SubSeq(stack, 1, 0)) /\ SubSeq(stack, 1, 0) = <<>>
  <2>1. 0 \in 0 .. Len(stack)
    BY <1>1
  <2> QED
    BY <1>1, <1>2, <2>1, BelowTo, FrontEnds
<1>4. Rest = <<>>
  <2> DEFINE e == SubSeq(stack, 1, 0)
  <2>1. e = <<>> /\ e \in Seq(Frame)
    BY <1>1, <1>3, ShortSeq
  <2> HIDE DEF e
  <2>2. Below(e) = <<>>
    BY <2>1, BelowPieces
  <2> QED
    BY <1>1, <1>3, <2>2 DEF e
<1>5. Len(Image) = emitted + 0
  BY <1>4 DEF OnTrack, Ends, StepDone, SliceExhausted
<1>6. emitted \in Nat /\ opState' = "Done"
  BY DEF StepDone, TypeOK
<1> QED
  BY <1>5, <1>6 DEF OnTrack, Offering

\* A submission has the whole image of its item before it.
LEMMA TrackSubmit ==
  ASSUME TypeOK, NEW n \in Items, tensor(n) \/ composite(n)
  PROVE  OnTrack'
<1> DEFINE none == <<>>
           fr == [members |-> n.members, next |-> 1]
<1>1. n \in Nodes /\ submitted \in Seq(Items)
  BY ItemsAssumption DEF TypeOK
<1>2. n.id \in Ids /\ n.kind \in {"Tensor", "Composite"} /\ n.members \in Seq(Nodes)
  BY <1>1, NodesAssumption
<1>3. none \in Seq(Frame) /\ none = <<>> /\ Append(none, fr) = <<fr>>
  BY ShortSeq
<1>4. /\ opState' = "Descriptor" /\ index' = 0 /\ staging' = encode(n.id)
      /\ written' = 0 /\ emitted' = 0 /\ submitted' = Append(submitted, n)
  BY DEF tensor, composite, BeginOp
<1> HIDE DEF none
<1>5. /\ payloads' = IF n.kind = "Tensor" THEN payloads_of(n) ELSE <<>>
      /\ stack' = IF n.kind = "Tensor" THEN none ELSE Append(none, fr)
  BY <1>2, <1>3 DEF tensor, composite
<1>6. output_src' = encode(n.id)
  <2>1. CurrentSlice' = encode(n.id)
    BY <1>4 DEF CurrentSlice
  <2> DEFINE c == encode(n.id)
  <2>2. c \in Seq(Byte)
    BY <1>2, EncodeType
  <2>3. output_src' = SubSeq(c, 0 + 1, Len(c))
    BY <1>4, <2>1 DEF output_src
  <2> HIDE DEF c
  <2>4. SubSeq(c, 1, Len(c)) = c /\ 0 + 1 = 1
    BY <2>2, FrontEnds
  <2> QED
    BY <2>3, <2>4 DEF c
<1>7. RestOf(encode(n.id), payloads', 0, stack') = Encoded[n] \o Below(none)
  BY <1>1, <1>3, <1>5, RestStaged
<1>8. Encoded[n] \in Seq(Byte) /\ Below(none) = <<>>
  BY <1>1, <1>3, EncodedType, BelowPieces
<1>9. Rest' = Encoded[n]
  <2>1. Encoded[n] \o Below(none) = Encoded[n]
    BY <1>8, CatEmpty
  <2> QED
    BY <1>4, <1>6, <1>7, <2>1 DEF Rest
<1>10. Image' = Encoded[n]
  <2>1. submitted'[Len(submitted')] = n
    BY <1>1, <1>4
  <2> QED
    BY <2>1 DEF Image
<1>11. Ends(Encoded[n], 0, Encoded[n])
  <2> DEFINE x == Encoded[n]
  <2>1. x \in Seq(Byte)
    BY <1>8
  <2> HIDE DEF x
  <2> QED
    BY <2>1 DEF Ends, x
<1>12. Ends(Image', emitted', Rest')
  BY <1>4, <1>9, <1>10, <1>11
<1> QED
  BY <1>4, <1>12 DEF OnTrack

\* The rest of a sequence ending an image, once its first m elements are gone.
LEMMA EndsDrop ==
  ASSUME NEW image, NEW n \in Nat, NEW m \in Nat, NEW r, NEW t, Len(t) \in Nat,
         Len(r) = m + Len(t), \A k \in 1 .. Len(t) : t[k] = r[m + k], Ends(image, n, r)
  PROVE  Ends(image, n + m, t)
<1>1. Len(image) = (n + m) + Len(t)
  BY DEF Ends
<1>2. ASSUME NEW k \in 1 .. Len(t) PROVE image[(n + m) + k] = t[k]
  <2>1. m + k \in 1 .. Len(r) /\ n + (m + k) = (n + m) + k
    OBVIOUS
  <2>2. image[n + (m + k)] = r[m + k]
    BY <2>1 DEF Ends
  <2> QED
    BY <2>1, <2>2
<1> QED
  BY <1>1, <1>2 DEF Ends

\* The sequence that is offered comes first in the rest.
LEMMA RestParts ==
  ASSUME TypeOK, OnTrack, Offering
  PROVE  /\ output_src \in Seq(Byte) /\ Len(output_src) = remaining /\ remaining \in Nat
         /\ CurrentSlice \in Seq(Byte) /\ written \in Nat /\ written + remaining = Len(CurrentSlice)
         /\ \E tail \in Seq(Byte) :
               tail = Suffix(payloads, index + 1) \o Below(stack) /\ Rest = output_src \o tail
<1> DEFINE c == CurrentSlice
           o == output_src
           p == Suffix(payloads, index + 1)
           b == Below(stack)
<1>1. c \in Seq(Byte)
  BY SliceType
<1>2. written \in Nat /\ written <= Len(c) /\ o = SubSeq(c, written + 1, Len(c)) /\ remaining = Len(c) - written
  BY DEF TypeOK, output_src, remaining
<1>3. b \in Seq(Byte)
  BY BelowPieces DEF TypeOK
<1>4. p \in Seq(Byte)
  <2>1. payloads \in Seq(Seq(Byte)) /\ index \in Nat
    BY DEF TypeOK
  <2>2. Len(payloads) \in Nat
    BY <2>1
  <2>3. index = 0 \/ index \in 1 .. Len(payloads)
    BY DEF OnTrack, Offering, TypeOK
  <2>4. index + 1 \in 1 .. Len(payloads) + 1
    BY <2>1, <2>2, <2>3
  <2> QED
    BY <2>1, <2>4, SuffixType
<1>5. Rest = (o \o p) \o b
  BY DEF Rest, RestOf
<1> HIDE DEF c, o, p, b
<1>6. o \in Seq(Byte) /\ Len(o) = remaining /\ remaining \in Nat /\ written + remaining = Len(c)
  BY <1>1, <1>2
<1>7. (o \o p) \o b = o \o (p \o b)
  BY ONLY <1>3, <1>4, <1>6
<1>8. p \o b \in Seq(Byte)
  BY <1>3, <1>4
<1> QED
  BY <1>1, <1>2, <1>5, <1>6, <1>7, <1>8 DEF c, o, p, b

\* The bytes offered are the next ones of the image.
LEMMA OfferedBytes ==
  ASSUME TypeOK, OnTrack, Offering
  PROVE  \A k \in 1 .. remaining : /\ emitted + k \in 1 .. Len(Image) /\ Len(Image) \in Nat
                                   /\ output_src[k] = Image[emitted + k]
<1>1. PICK tail \in Seq(Byte) : Rest = output_src \o tail
  BY RestParts
<1>2. output_src \in Seq(Byte) /\ Len(output_src) = remaining /\ remaining \in Nat /\ emitted \in Nat
  BY RestParts DEF TypeOK
<1>3. Len(Image) = emitted + Len(Rest) /\ \A k \in 1 .. Len(Rest) : Image[emitted + k] = Rest[k]
  BY DEF OnTrack, Ends
<1> DEFINE o == output_src
           r == Rest
<1> HIDE DEF o, r
<1>4. Len(r) = remaining + Len(tail) /\ Len(tail) \in Nat /\ \A k \in 1 .. remaining : r[k] = o[k]
  BY <1>1, <1>2 DEF o, r
<1>5. Len(Image) = emitted + Len(r) /\ \A k \in 1 .. Len(r) : Image[emitted + k] = r[k]
  BY <1>3 DEF r
<1>6. \A k \in 1 .. remaining : /\ emitted + k \in 1 .. Len(Image) /\ Len(Image) \in Nat
                                /\ o[k] = Image[emitted + k]
  BY <1>2, <1>4, <1>5
<1> QED
  BY <1>6 DEF o

\* A report of n bytes leaves the rest without its first n bytes.
LEMMA TrackWritten ==
  ASSUME TypeOK, OnTrack, NEW n \in 1 .. remaining, report_written(n)
  PROVE  OnTrack'
<1>0. Offering /\ Offering' /\ Image' = Image /\ opState' = opState /\ index' = index
      /\ emitted' = emitted + n /\ written' = written + n /\ CurrentSlice' = CurrentSlice
      /\ payloads' = payloads /\ stack' = stack
  BY DEF report_written, Offering, Image, CurrentSlice
<1> DEFINE c == CurrentSlice
           o == output_src
           q == SubSeq(c, written + n + 1, Len(c))
<1>1. PICK tail \in Seq(Byte) : tail = Suffix(payloads, index + 1) \o Below(stack) /\ Rest = o \o tail
  BY <1>0, RestParts
<1>2. /\ o \in Seq(Byte) /\ Len(o) = remaining /\ remaining \in Nat /\ emitted \in Nat
      /\ c \in Seq(Byte) /\ written \in Nat /\ written + remaining = Len(c)
      /\ o = SubSeq(c, written + 1, Len(c)) /\ n \in 1 .. remaining
  BY <1>0, RestParts DEF TypeOK, output_src
<1>3. output_src' = q
  BY <1>0 DEF output_src
<1>4. Suffix(payloads, index + 1) \in Seq(Byte) /\ Below(stack) \in Seq(Byte)
  <2>1. payloads \in Seq(Seq(Byte)) /\ index \in Nat /\ stack \in Seq(Frame)
    BY DEF TypeOK
  <2>2. Len(payloads) \in Nat
    BY <2>1
  <2>3. index = 0 \/ index \in 1 .. Len(payloads)
    BY <1>0 DEF OnTrack, Offering, TypeOK
  <2>4. index + 1 \in 1 .. Len(payloads) + 1
    BY <2>1, <2>2, <2>3
  <2> QED
    BY <2>1, <2>4, SuffixType, BelowPieces
<1>5. Rest' = (q \o Suffix(payloads, index + 1)) \o Below(stack)
  BY <1>0, <1>3 DEF Rest, RestOf
<1> HIDE DEF c, o
<1>6. /\ q \in Seq(Byte) /\ Len(q) = remaining - n /\ n \in Nat /\ remaining - n \in Nat
      /\ \A k \in 1 .. remaining - n : q[k] = o[n + k]
  BY <1>2
<1> HIDE DEF q
<1>7. Rest' = q \o tail
  <2> DEFINE p == Suffix(payloads, index + 1)
             b == Below(stack)
  <2>1. p \in Seq(Byte) /\ b \in Seq(Byte) /\ Rest' = (q \o p) \o b /\ tail = p \o b
    BY <1>1, <1>4, <1>5
  <2> HIDE DEF p, b
  <2>2. q \in Seq(Byte)
    BY <1>6
  <2>3. (q \o p) \o b = q \o (p \o b)
    BY ONLY <2>1, <2>2
  <2> QED
    BY ONLY <2>1, <2>3
<1>8. /\ Len(q \o tail) = remaining - n + Len(tail) /\ Len(o \o tail) = remaining + Len(tail)
      /\ Len(tail) \in Nat
      /\ \A k \in 1 .. Len(q \o tail) : (q \o tail)[k] = (o \o tail)[n + k]
  <2> DEFINE R == remaining
  <2>1. R \in Nat /\ n \in 1 .. R /\ Len(o) = R /\ o \in Seq(Byte) /\ tail \in Seq(Byte)
    BY <1>2
  <2>2. q \in Seq(Byte) /\ Len(q) = R - n /\ \A k \in 1 .. R - n : q[k] = o[n + k]
    BY <1>6
  <2> HIDE DEF R
  <2>3. Len(q \o tail) = R - n + Len(tail) /\ Len(o \o tail) = R + Len(tail) /\ Len(tail) \in Nat
    BY ONLY <2>1, <2>2
  <2>4. ASSUME NEW k \in 1 .. R - n + Len(tail) PROVE (q \o tail)[k] = (o \o tail)[n + k]
    <3>1. CASE k <= R - n
      <4>1. k \in 1 .. Len(q) /\ n + k \in 1 .. Len(o) /\ q[k] = o[n + k]
        BY ONLY <2>1, <2>2, <2>3, <2>4, <3>1
      <4> QED
        BY ONLY <2>1, <2>2, <4>1, ConcatElements
    <3>2. CASE k > R - n
      <4> DEFINE i == k - (R - n)
      <4>1. i \in 1 .. Len(tail) /\ k = Len(q) + i /\ n + k = Len(o) + i
        BY ONLY <2>1, <2>2, <2>3, <2>4, <3>2
      <4> HIDE DEF i
      <4>0. q \in Seq(Byte) /\ o \in Seq(Byte) /\ tail \in Seq(Byte) /\ i \in 1 .. Len(tail)
        BY ONLY <2>1, <2>2, <4>1
      <4>2. (q \o tail)[Len(q) + i] = tail[i]
        BY ONLY <4>0
      <4>3. (o \o tail)[Len(o) + i] = tail[i]
        BY ONLY <4>0
      <4> QED
        BY ONLY <4>1, <4>2, <4>3
    <3>3. k <= R - n \/ k > R - n
      BY ONLY <2>1, <2>3, <2>4
    <3> QED
      BY <3>1, <3>2, <3>3
  <2> QED
    BY <2>3, <2>4 DEF R
<1>9. Ends(Image, emitted, o \o tail)
  BY <1>0, <1>1 DEF OnTrack
<1>10. Ends(Image, emitted + n, q \o tail)
  <2> DEFINE r == o \o tail
             t == q \o tail
             R == remaining
  <2>0. /\ Len(t) = R - n + Len(tail) /\ Len(r) = R + Len(tail) /\ Len(tail) \in Nat
        /\ \A k \in 1 .. Len(t) : t[k] = r[n + k]
    BY <1>8
  <2>2. Ends(Image, emitted, r)
    BY <1>9
  <2>4. R \in Nat /\ n \in Nat /\ R - n \in Nat
    BY <1>2, <1>6
  <2> HIDE DEF r, t, R
  <2>1. Len(t) \in Nat /\ Len(r) = n + Len(t) /\ \A k \in 1 .. Len(t) : t[k] = r[n + k]
    BY ONLY <2>0, <2>4
  <2>3. Ends(Image, emitted + n, t)
    BY <1>2, <1>6, <2>1, <2>2, EndsDrop
  <2> QED
    BY <2>3 DEF t
<1>11. Ends(Image', emitted', Rest')
  BY <1>0, <1>7, <1>10
<1> QED
  BY <1>0, <1>11 DEF OnTrack

-----------------------------------------------------------------------------
\* The wire holds the images.

\* Byte b is the byte of its rank in the image; the wire w has the n-th byte of item s.
ByteOf(image, b) == b.nth \in DOMAIN image /\ b.byte = image[b.nth]
Holds(w, s, n) == \E i \in DOMAIN w : w[i].item = s /\ w[i].nth = n

\* The two halves of WireIsEncoding, byte by byte and item by item.
WireBytes == \A i \in DOMAIN wire : /\ wire[i].item \in DOMAIN submitted
                                    /\ ByteOf(Encoded[submitted[wire[i].item]], wire[i])
WireEnds == \A s \in done : Holds(wire, s, Len(Encoded[submitted[s]]))

\* The inductive invariant.
EInv == IInv /\ OnTrack /\ WireBytes /\ WireEnds

\* The byte of each wire byte of a transfer.
LEMMA WireGrowsBy ==
  ASSUME TypeOK, NEW m \in 0 .. remaining, wire' = wire \o Taken(m)
  PROVE  \A k \in 1 .. m : wire'[Len(wire) + k].byte = output_src[k]
<1> DEFINE T == Taken(m)
<1>1. T \in Seq(WireByte) /\ wire \in Seq(WireByte) /\ Len(T) = m
  BY TakenBytes DEF TypeOK
<1>2. \A k \in 1 .. m : T[k].byte = output_src[k]
  BY DEF Taken
<1>3. wire' = wire \o T
  OBVIOUS
<1> HIDE DEF T
<1>4. \A k \in 1 .. Len(T) : (wire \o T)[Len(wire) + k] = T[k]
  BY <1>1, ConcatElements
<1> QED
  BY <1>1, <1>2, <1>3, <1>4

\* An image is never empty: it starts with a descriptor.
LEMMA ImageNotEmpty ==
  ASSUME NEW n \in Nodes
  PROVE  Encoded[n] \in Seq(Byte) /\ Len(Encoded[n]) > 0
<1> DEFINE e == encode(n.id)
           p == payloads_of(n)
           m == ImagesOf(n.members)
           x == Joined(p)
           y == Joined(m)
<1>1. n.id \in Ids /\ n.members \in Seq(Nodes)
  BY NodesAssumption
<1>2. e \in Seq(Byte) /\ Len(e) > 0
  BY <1>1, EncodeType, EncodedLengthAssumption, DescAssumption DEF encode, Ids
<1>3. x \in Seq(Byte) /\ y \in Seq(Byte)
  <2>1. p \in Seq(Seq(Byte)) /\ m \in Seq(Seq(Byte))
    BY <1>1, PayloadsType, ImagesOfType
  <2> QED
    BY <2>1, JoinedType
<1>4. Encoded[n] = e \o x \/ Encoded[n] = e \o y
  BY EncodedUnfolds DEF ImagesOf
<1> HIDE DEF e, x, y, m, p
<1>5. /\ e \o x \in Seq(Byte) /\ Len(e \o x) > 0
      /\ e \o y \in Seq(Byte) /\ Len(e \o y) > 0
  BY ONLY <1>2, <1>3
<1> QED
  BY ONLY <1>4, <1>5

\* The image of an item that was submitted.
LEMMA SubmittedImage ==
  ASSUME TypeOK, NEW s \in DOMAIN submitted
  PROVE  submitted[s] \in Nodes /\ Encoded[submitted[s]] \in Seq(Byte) /\ Len(Encoded[submitted[s]]) > 0
<1>1. submitted[s] \in Nodes
  BY ItemsAssumption DEF TypeOK
<1> QED
  BY <1>1, ImageNotEmpty

\* A step that leaves the wire and the histories alone.
LEMMA WireKept ==
  ASSUME WireBytes, WireEnds, UNCHANGED <<wire, submitted, done>>
  PROVE  WireBytes' /\ WireEnds'
<1>1. WireBytes'
  BY DEF WireBytes
<1>2. WireEnds'
  BY DEF WireEnds
<1> QED
  BY <1>1, <1>2

\* A submission.
LEMMA WireSubmit ==
  ASSUME TypeOK, WireBytes, WireEnds, NEW n \in Items,
         UNCHANGED <<wire, done>>, submitted' = Append(submitted, n)
  PROVE  WireBytes' /\ WireEnds'
<1>1. \A s \in DOMAIN submitted : s \in DOMAIN submitted' /\ submitted'[s] = submitted[s]
  BY DEF TypeOK
<1>2. \A s \in done : s \in DOMAIN submitted
  BY DEF TypeOK
<1>3. WireBytes'
  <2>1. SUFFICES ASSUME NEW i \in DOMAIN wire
        PROVE  wire[i].item \in DOMAIN submitted' /\ ByteOf(Encoded[submitted'[wire[i].item]], wire[i])
    BY DEF WireBytes
  <2> QED
    BY <1>1, <2>1 DEF WireBytes
<1>4. WireEnds'
  <2>1. SUFFICES ASSUME NEW s \in done PROVE Holds(wire, s, Len(Encoded[submitted'[s]]))
    BY DEF WireEnds
  <2> QED
    BY <1>1, <1>2, <2>1 DEF WireEnds
<1> QED
  BY <1>3, <1>4

\* A transfer: the bytes that land are the next ones of the image.
LEMMA WireTransfer ==
  ASSUME TypeOK, OnTrack, WireBytes, WireEnds, opState # "None", NEW m \in 0 .. remaining,
         wire' = wire \o Taken(m), UNCHANGED <<submitted, done>>
  PROVE  WireBytes' /\ WireEnds'
<1> DEFINE L == Len(wire)
           last == Len(submitted)
<1>1. /\ m \in Nat /\ L \in Nat /\ Len(wire') = L + m
      /\ \A i \in 1 .. L : wire'[i] = wire[i]
      /\ \A k \in 1 .. m : wire'[L + k].item = last /\ wire'[L + k].nth = emitted + k
  BY WireGrows
<1>2. \A k \in 1 .. m : wire'[L + k].byte = output_src[k]
  BY WireGrowsBy
<1>3. wire \in Seq(WireByte) /\ DOMAIN wire = 1 .. L /\ last \in DOMAIN submitted
  BY DEF TypeOK
<1>4. DOMAIN wire' = 1 .. L + m
  <2>1. Taken(m) \in Seq(WireByte)
    BY TakenBytes
  <2>2. wire' \in Seq(WireByte)
    BY <1>3, <2>1
  <2> QED
    BY <1>1, <2>2
<1>5. ASSUME NEW k \in 1 .. m PROVE ByteOf(Encoded[submitted[last]], wire'[L + k])
  <2>1. remaining \in Int /\ k \in 1 .. remaining /\ Offering
    <3>1. remaining \in Int
      BY SliceType DEF remaining, TypeOK
    <3> QED
      BY <1>1, <3>1 DEF remaining
  <2>2. emitted + k \in 1 .. Len(Image) /\ output_src[k] = Image[emitted + k]
    BY <2>1, OfferedBytes
  <2>3. Image \in Seq(Byte)
    BY <1>3, SubmittedImage DEF Image
  <2>4. emitted + k \in DOMAIN Image
    BY <2>2, <2>3
  <2>5. wire'[L + k].nth = emitted + k /\ wire'[L + k].byte = Image[emitted + k]
    BY <1>1, <1>2, <2>2
  <2> QED
    BY <2>4, <2>5 DEF ByteOf, Image
<1>6. WireBytes'
  <2>1. SUFFICES ASSUME NEW i \in DOMAIN wire'
        PROVE  /\ wire'[i].item \in DOMAIN submitted
               /\ ByteOf(Encoded[submitted[wire'[i].item]], wire'[i])
    BY DEF WireBytes
  <2>2. CASE i \in 1 .. L
    BY <1>1, <1>3, <2>2 DEF WireBytes
  <2>3. CASE i \notin 1 .. L
    <3> DEFINE k == i - L
    <3>1. k \in 1 .. m /\ i = L + k
      BY <1>1, <1>4, <2>3
    <3> HIDE DEF k, L, last
    <3>2. wire'[i].item = last
      BY <1>1, <3>1
    <3> QED
      BY <1>3, <1>5, <3>1, <3>2
  <2> QED
    BY <2>2, <2>3
<1>7. WireEnds'
  <2>1. SUFFICES ASSUME NEW s \in done PROVE Holds(wire', s, Len(Encoded[submitted[s]]))
    BY DEF WireEnds
  <2>2. Holds(wire, s, Len(Encoded[submitted[s]]))
    BY DEF WireEnds
  <2>3. \A i \in DOMAIN wire : i \in DOMAIN wire' /\ wire'[i] = wire[i]
    BY <1>1, <1>3, <1>4
  <2> QED
    BY <2>2, <2>3 DEF Holds
<1> QED
  BY <1>6, <1>7

\* The step that reports an item: the last byte of its image is the last on the wire.
LEMMA WireDone ==
  ASSUME IInv, OnTrack, WireBytes, WireEnds, StepDone
  PROVE  WireBytes' /\ WireEnds'
<1>1. TypeOK /\ EmittedIsExact /\ Bookkeeping /\ Offering /\ unusable = "None"
  BY DEF IInv, StepDone, SliceExhausted
<1>2. Len(Image) = emitted
  BY <1>1, TrackDone
<1>3. Len(submitted) \in DOMAIN submitted
  BY <1>1 DEF TypeOK, Offering
<1>4. Len(Image) > 0
  BY <1>1, <1>3, SubmittedImage DEF Image
<1>5. wire # <<>> /\ LastByte.item = Len(submitted) /\ LastByte.nth = emitted
  BY <1>1, <1>2, <1>4 DEF EmittedIsExact, Bookkeeping, Offering
<1>6. Len(wire) \in DOMAIN wire
  BY <1>1, <1>5 DEF TypeOK
<1>7. Holds(wire, Len(submitted), Len(Encoded[submitted[Len(submitted)]]))
  BY <1>2, <1>5, <1>6 DEF Holds, LastByte, Image
<1>8. wire' = wire /\ submitted' = submitted /\ done' = done \cup {Len(submitted)}
  BY DEF StepDone
<1>9. WireBytes'
  BY <1>8 DEF WireBytes
<1>10. WireEnds'
  <2>1. SUFFICES ASSUME NEW s \in done \cup {Len(submitted)}
        PROVE  Holds(wire, s, Len(Encoded[submitted[s]]))
    BY <1>8 DEF WireEnds
  <2> QED
    BY <1>7, <2>1 DEF WireEnds
<1> QED
  BY <1>9, <1>10

\* Nothing is on the wire at first.
LEMMA ImagesInit == Init => EInv
<1> SUFFICES ASSUME Init PROVE EInv
  OBVIOUS
<1>1. opState = "None" /\ wire = <<>> /\ done = {}
  BY DEF Init, NoOp
<1>2. DOMAIN wire = {}
  BY <1>1
<1> QED
  BY <1>1, <1>2, SafeInit DEF EInv, OnTrack, Offering, WireBytes, WireEnds

\* Every step preserves the inductive invariant.
LEMMA ImagesNext == ASSUME EInv, [Next]_vars PROVE EInv'
<1>1. IInv /\ TypeOK /\ OnTrack /\ WireBytes /\ WireEnds /\ IInv'
  BY SafeNext DEF EInv, IInv
<1> SUFFICES OnTrack' /\ WireBytes' /\ WireEnds'
  BY <1>1 DEF EInv
<1>2. CASE UNCHANGED vars
  <2>1. OnTrack'
    BY <1>1, <1>2 DEF vars, OnTrack, Offering, Image, Rest, RestOf, output_src, CurrentSlice
  <2> QED
    BY <1>1, <1>2, <2>1, WireKept DEF vars
<1>3. ASSUME NEW n \in Items, tensor(n) \/ composite(n) PROVE OnTrack' /\ WireBytes' /\ WireEnds'
  <2>1. wire' = wire /\ done' = done /\ submitted' = Append(submitted, n)
    BY <1>3 DEF tensor, composite, BeginOp
  <2> QED
    BY <1>1, <1>3, <2>1, TrackSubmit, WireSubmit
<1>4. CASE step
  <2>1. CASE StepPayload
    BY <1>1, <2>1, TrackPayload, WireKept DEF StepPayload
  <2>2. CASE StepNode
    BY <1>1, <2>2, TrackNode, WireKept DEF StepNode
  <2>3. CASE StepDone
    BY <1>1, <2>3, TrackDone, WireDone
  <2> QED
    BY <1>4, <2>1, <2>2, <2>3 DEF step
<1>5. ASSUME NEW n \in 1 .. remaining, report_written(n) PROVE OnTrack' /\ WireBytes' /\ WireEnds'
  <2>1. n \in 0 .. remaining
    BY <1>1, SliceType DEF remaining, TypeOK
  <2>2. opState # "None" /\ wire' = wire \o Taken(n) /\ UNCHANGED <<submitted, done>>
    BY <1>5 DEF report_written, Offering
  <2> QED
    BY <1>1, <1>5, <2>1, <2>2, TrackWritten, WireTransfer
<1>6. ASSUME NEW m \in 0 .. remaining, OverReport(m) \/ MarkUnusable(m)
      PROVE  OnTrack' /\ WireBytes' /\ WireEnds'
  <2>1. opState # "None" /\ opState' = "Failed" /\ wire' = wire \o Taken(m) /\ UNCHANGED <<submitted, done>>
    BY <1>6 DEF OverReport, MarkUnusable
  <2>2. OnTrack'
    BY <2>1 DEF OnTrack, Offering
  <2> QED
    BY <1>1, <2>1, <2>2, WireTransfer
<1>7. CASE report_sink_closed \/ Drop
  <2>1. opState' \in {"Failed", "None"} /\ UNCHANGED <<wire, submitted, done>>
    BY <1>7 DEF report_sink_closed, Drop
  <2>2. OnTrack'
    BY <2>1 DEF OnTrack, Offering
  <2> QED
    BY <1>1, <2>1, <2>2, WireKept
<1> QED
  BY <1>2, <1>3, <1>4, <1>5, <1>6, <1>7 DEF Next

\* What the sink received of an item is its image, byte for byte at its rank, and reaches
\* the last one once the item is reported written: the explicit stack of next_node visits
\* every tree of nodes depth first, whatever its shape and whatever the short writes.
THEOREM WireHoldsImages == Spec => []WireIsEncoding
<1>1. Init => EInv
  BY ImagesInit
<1>2. EInv /\ [Next]_vars => EInv'
  BY ImagesNext
<1>3. EInv => WireIsEncoding
  <2> SUFFICES ASSUME EInv PROVE WireIsEncoding
    OBVIOUS
  <2>1. SUFFICES ASSUME NEW s \in DOMAIN submitted
        PROVE  /\ \A i \in DOMAIN wire :
                    wire[i].item = s => ByteOf(Encoded[submitted[s]], wire[i])
               /\ s \in done => Holds(wire, s, Len(Encoded[submitted[s]]))
    BY DEF WireIsEncoding, ByteOf, Holds
  <2> QED
    BY DEF EInv, WireBytes, WireEnds
<1> QED
  BY <1>1, <1>2, <1>3, PTL DEF Spec
=============================================================================
