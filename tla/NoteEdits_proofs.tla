-------------------------- MODULE NoteEdits_proofs --------------------------
(***************************************************************************)
(* Proofs about the text passes and the stages that apply them.            *)
(***************************************************************************)
EXTENDS NoteInvariants, FiniteSetTheorems, SequenceTheorems, WellFoundedInduction, NaturalsInduction,
        TLAPS

-----------------------------------------------------------------------------
(* Induction and recursion up to a bound.                                  *)

\* A non-empty set of naturals has a least element.
LEMMA LeastNat ==
  ASSUME NEW T, T \subseteq Nat, T # {}
  PROVE  \E x \in T : \A y \in T : x <= y
<1>1. PICK x \in T : \A y \in T : ~ (<<y, x>> \in OpToRel(<, Nat))
  BY NatLessThanWellFounded, WFMin
<1>2. \A y \in T : ~ (y < x)
  BY <1>1 DEF OpToRel
<1> QED BY <1>2

\* What holds of 0 and passes from each number to the next up to n holds of n.
LEMMA UpTo ==
  ASSUME NEW n \in Nat, NEW T, 0 \in T, \A i \in 1 .. n : i - 1 \in T => i \in T
  PROVE  n \in T
<1> DEFINE B == {i \in 0 .. n : i \notin T}
<1>1. SUFFICES ASSUME B # {} PROVE FALSE
  <2>1. n \in 0 .. n
    OBVIOUS
  <2> QED BY <2>1
<1>2. PICK m \in B : \A y \in B : m <= y
  <2>1. B \subseteq Nat
    OBVIOUS
  <2> QED BY <1>1, <2>1, LeastNat
<1>3. m \in 1 .. n /\ m - 1 \in 0 .. n
  BY <1>2
<1>4. m - 1 \notin B
  BY <1>2, <1>3
<1> QED BY <1>2, <1>3, <1>4

Solves(g, m, S, b, F) ==
  g \in [0 .. m -> S] /\ g[0] = b /\ \A i \in 1 .. m : g[i] = F[<<g[i - 1], i>>]

\* A recursion over the first n numbers has a solution.
LEMMA Recursion ==
  ASSUME NEW n \in Nat, NEW S, NEW b \in S, NEW F \in [S \X (1 .. n) -> S]
  PROVE  \E g : Solves(g, n, S, b, F)
<1> DEFINE T == {m \in 0 .. n : \E g : Solves(g, m, S, b, F)}
<1>1. 0 \in T
  <2> DEFINE g == [i \in 0 .. 0 |-> b]
  <2>1. g \in [0 .. 0 -> S] /\ g[0] = b /\ \A i \in 1 .. 0 : FALSE
    OBVIOUS
  <2>2. Solves(g, 0, S, b, F)
    BY <2>1 DEF Solves
  <2> QED BY <2>2
<1>2. ASSUME NEW m \in 1 .. n, m - 1 \in T PROVE m \in T
  <2>0. PICK g : Solves(g, m - 1, S, b, F)
    BY <1>2
  <2>1. g \in [0 .. m - 1 -> S] /\ g[0] = b /\ \A i \in 1 .. m - 1 : g[i] = F[<<g[i - 1], i>>]
    BY <2>0 DEF Solves
  <2>2. PICK last \in S : last = F[<<g[m - 1], m>>]
    <3>1. <<g[m - 1], m>> \in S \X (1 .. n)
      BY <2>1
    <3> QED BY <3>1
  <2> DEFINE h == [i \in 0 .. m |-> IF i = m THEN last ELSE g[i]]
  <2>3. h \in [0 .. m -> S] /\ h[0] = b
    BY <2>1
  <2>4. ASSUME NEW i \in 1 .. m PROVE h[i] = F[<<h[i - 1], i>>]
    <3>1. CASE i = m
      <4>1. h[i] = last /\ h[i - 1] = g[m - 1]
        BY <3>1
      <4> QED BY <2>2, <3>1, <4>1
    <3>2. CASE i # m
      <4>1. i \in 1 .. (m - 1) /\ i - 1 \in 0 .. (m - 1) /\ i - 1 # m
        BY <3>2
      <4> QED BY <2>1, <3>2, <4>1
    <3> QED BY <3>1, <3>2
  <2> HIDE DEF h
  <2>5. Solves(h, m, S, b, F)
    BY <2>3, <2>4 DEF Solves
  <2> QED BY <2>5
<1> HIDE DEF T
<1>3. n \in T
  BY <1>1, <1>2, UpTo
<1> QED BY <1>3 DEF T

-----------------------------------------------------------------------------
(* How often a line is in a sequence.                                      *)

LEMMA AtType ==
  ASSUME NEW S, NEW ls \in Seq(S), NEW l
  PROVE  At(l, ls) \subseteq 1 .. Len(ls) /\ IsFiniteSet(At(l, ls)) /\ Count(l, ls) \in Nat
<1>1. Len(ls) \in Nat /\ DOMAIN ls = 1 .. Len(ls)
  OBVIOUS
<1>2. At(l, ls) \subseteq 1 .. Len(ls)
  BY <1>1 DEF At
<1>3. IsFiniteSet(1 .. Len(ls))
  BY <1>1, FS_Interval
<1> QED BY <1>2, <1>3, FS_Subset, FS_CardinalityType DEF Count

\* Whether it is there at all.
LEMMA CountMember ==
  ASSUME NEW S, NEW ls \in Seq(S), NEW l
  PROVE  l \in Range(ls) <=> Count(l, ls) > 0
<1>1. l \in Range(ls) <=> At(l, ls) # {}
  BY DEF At, Range
<1>2. At(l, ls) = {} <=> Count(l, ls) = 0
  BY AtType, FS_EmptySet DEF Count
<1> QED BY <1>1, <1>2, AtType

LEMMA CountEmpty ==
  ASSUME NEW l
  PROVE  Count(l, <<>>) = 0
<1>1. At(l, <<>>) = {}
  BY DEF At
<1> QED BY <1>1, FS_EmptySet DEF Count

LEMMA CountOne ==
  ASSUME NEW l, NEW x
  PROVE  Count(l, <<x>>) = IF x = l THEN 1 ELSE 0
<1>1. At(l, <<x>>) = IF x = l THEN {1} ELSE {}
  BY DEF At
<1> QED BY <1>1, FS_EmptySet, FS_Singleton DEF Count

LEMMA CountConcat ==
  ASSUME NEW S, NEW s \in Seq(S), NEW t \in Seq(S), NEW l
  PROVE  Count(l, s \o t) = Count(l, s) + Count(l, t)
<1> DEFINE T == {Len(s) + i : i \in At(l, t)}
<1>1. /\ Len(s) \in Nat /\ Len(t) \in Nat /\ Len(s \o t) = Len(s) + Len(t)
      /\ s \o t \in Seq(S)
  OBVIOUS
<1>2. At(l, s) \subseteq 1 .. Len(s) /\ At(l, t) \subseteq 1 .. Len(t)
  BY AtType
<1>3. ASSUME NEW i PROVE i \in At(l, s \o t) <=> i \in At(l, s) \cup T
  <2>1. CASE i \in 1 .. Len(s)
    BY <1>1, <1>2, <2>1 DEF At
  <2>2. CASE i \in (Len(s) + 1) .. (Len(s) + Len(t))
    <3>1. i - Len(s) \in 1 .. Len(t) /\ i = Len(s) + (i - Len(s)) /\ (s \o t)[i] = t[i - Len(s)]
      BY <1>1, <2>2
    <3>2. i \in T <=> i - Len(s) \in At(l, t)
      BY <1>1, <1>2, <3>1
    <3> QED BY <1>1, <1>2, <2>2, <3>1, <3>2 DEF At
  <2>3. CASE i \notin 1 .. (Len(s) + Len(t))
    <3>1. i \notin At(l, s \o t)
      BY <1>1, <2>3 DEF At
    <3> QED BY <1>1, <1>2, <2>3, <3>1
  <2> QED BY <1>1, <2>1, <2>2, <2>3
<1>4. At(l, s \o t) = At(l, s) \cup T /\ At(l, s) \cap T = {}
  <2>1. At(l, s) \cap T = {}
    BY <1>1, <1>2
  <2> QED BY <1>3, <2>1
<1>5. IsFiniteSet(T) /\ Cardinality(T) = Count(l, t)
  <2> DEFINE f == [i \in At(l, t) |-> Len(s) + i]
  <2>1. f \in Bijection(At(l, t), T)
    <3>1. \A i, j \in At(l, t) : f[i] = f[j] => i = j
      BY <1>1, <1>2
    <3> QED BY <3>1 DEF Bijection, Injection, Surjection, IsInjective
  <2>2. ExistsBijection(At(l, t), T)
    BY <2>1 DEF ExistsBijection
  <2> QED BY <2>2, AtType, FS_Bijection DEF Count
<1>6. IsFiniteSet(At(l, s)) /\ Count(l, s) \in Nat /\ Count(l, t) \in Nat
  BY AtType
<1>7. Cardinality(At(l, s) \cap T) = 0
  BY <1>4, FS_EmptySet
<1>8. Cardinality(At(l, s) \cup T) = Cardinality(At(l, s)) + Cardinality(T) - 0
  BY <1>5, <1>6, <1>7, FS_Union
<1> QED BY <1>4, <1>5, <1>6, <1>8 DEF Count

LEMMA CountAppend ==
  ASSUME NEW S, NEW s \in Seq(S), NEW x \in S, NEW l
  PROVE  Count(l, Append(s, x)) = Count(l, s) + Count(l, <<x>>)
<1>1. Append(s, x) = s \o <<x>>
  BY AppendIsConcat
<1>2. <<x>> \in Seq(S)
  OBVIOUS
<1>3. Count(l, s \o <<x>>) = Count(l, s) + Count(l, <<x>>)
  BY <1>2, CountConcat
<1> QED BY <1>1, <1>3

\* The first i lines are the first i - 1 and the line i.
LEMMA Prefix ==
  ASSUME NEW S, NEW ls \in Seq(S), NEW i \in 1 .. Len(ls)
  PROVE  /\ SubSeq(ls, 1, i - 1) \in Seq(S) /\ SubSeq(ls, 1, i) \in Seq(S) /\ ls[i] \in S
         /\ SubSeq(ls, 1, i) = Append(SubSeq(ls, 1, i - 1), ls[i])
<1>1. Len(ls) \in Nat /\ ls[i] \in S /\ SubSeq(ls, 1, i - 1) \in Seq(S) /\ SubSeq(ls, 1, i) \in Seq(S)
  OBVIOUS
<1>2. /\ Len(SubSeq(ls, 1, i)) = i /\ Len(SubSeq(ls, 1, i - 1)) = i - 1
      /\ Len(Append(SubSeq(ls, 1, i - 1), ls[i])) = i
  BY <1>1
<1>3. ASSUME NEW j \in 1 .. i
      PROVE  SubSeq(ls, 1, i)[j] = Append(SubSeq(ls, 1, i - 1), ls[i])[j]
  BY <1>1, <1>2
<1>4. Append(SubSeq(ls, 1, i - 1), ls[i]) \in Seq(S)
  BY <1>1
<1> QED BY <1>1, <1>2, <1>3, <1>4, SeqEqual

LEMMA Whole ==
  ASSUME NEW S, NEW ls \in Seq(S)
  PROVE  /\ Len(ls) \in Nat /\ DOMAIN ls = 1 .. Len(ls)
         /\ SubSeq(ls, 1, 0) = <<>> /\ SubSeq(ls, 1, Len(ls)) = ls
BY SubSeqFull, SubSeqEmpty

\* A sequence is any first part of it and the rest.
LEMMA CountCut ==
  ASSUME NEW S, NEW ls \in Seq(S), NEW m \in 0 .. Len(ls), NEW l
  PROVE  /\ SubSeq(ls, 1, m) \in Seq(S) /\ SubSeq(ls, m + 1, Len(ls)) \in Seq(S)
         /\ ls = SubSeq(ls, 1, m) \o SubSeq(ls, m + 1, Len(ls))
         /\ Count(l, ls) = Count(l, SubSeq(ls, 1, m)) + Count(l, SubSeq(ls, m + 1, Len(ls)))
<1>1. SubSeq(ls, 1, m) \in Seq(S) /\ SubSeq(ls, m + 1, Len(ls)) \in Seq(S)
  OBVIOUS
<1>2. ls = SubSeq(ls, 1, m) \o SubSeq(ls, m + 1, Len(ls))
  <2>1. SubSeq(ls, 1, m) \o SubSeq(ls, m + 1, Len(ls)) = SubSeq(ls, 1, Len(ls))
    <3>1. Len(ls) \in Nat
      OBVIOUS
    <3>2. 1 \in 1 .. Len(ls) + 1 /\ m \in 1 - 1 .. Len(ls) /\ Len(ls) \in m .. Len(ls)
      BY <3>1
    <3> QED BY <3>2, ConcatAdjacentSubSeq
  <2> QED BY <2>1, Whole
<1> QED BY <1>1, <1>2, CountConcat

-----------------------------------------------------------------------------
(* Concatenation of a sequence of sequences.                               *)

IsFlatten(h, g) ==
  h = [i \in 1 .. Len(g) |-> IF i = 1 THEN g[i] ELSE h[i - 1] \o g[i]]

\* FlattenSeq is the last of the concatenations of the first i sequences.
LEMMA Flattened ==
  ASSUME NEW S, NEW n \in Nat, NEW g \in [1 .. n -> Seq(S)]
  PROVE  \E f \in [0 .. n -> Seq(S)] :
           /\ f[0] = <<>> /\ \A i \in 1 .. n : f[i] = f[i - 1] \o g[i]
           /\ FlattenSeq(g) = f[n]
<1> DEFINE F == [p \in Seq(S) \X (1 .. n) |-> p[1] \o g[p[2]]]
<1>1. F \in [Seq(S) \X (1 .. n) -> Seq(S)]
  <2>1. ASSUME NEW p \in Seq(S) \X (1 .. n) PROVE p[1] \o g[p[2]] \in Seq(S)
    <3>1. p[1] \in Seq(S) /\ g[p[2]] \in Seq(S)
      OBVIOUS
    <3> QED BY <3>1
  <2> QED BY <2>1
<1>2. PICK none \in Seq(S) : none = <<>>
  BY EmptySeq
<1>3. \A a \in Seq(S) : \A i \in 1 .. n : F[<<a, i>>] = a \o g[i]
  OBVIOUS
<1> HIDE DEF F
<1>4. PICK f \in [0 .. n -> Seq(S)] :
        f[0] = none /\ \A i \in 1 .. n : f[i] = F[<<f[i - 1], i>>]
  <2> DEFINE Q == Seq(S)
  <2>1. none \in Q /\ F \in [Q \X (1 .. n) -> Q]
    BY <1>1
  <2> HIDE DEF Q
  <2>2. \E f : Solves(f, n, Q, none, F)
    BY <2>1, Recursion
  <2> QED BY <2>2 DEF Q, Solves
<1>5. ASSUME NEW i \in 1 .. n
      PROVE  /\ i - 1 \in 0 .. n /\ f[i - 1] \in Seq(S) /\ f[i] \in Seq(S) /\ g[i] \in Seq(S)
             /\ f[i] = f[i - 1] \o g[i]
  <2>1. i - 1 \in 0 .. n /\ f[i - 1] \in Seq(S) /\ f[i] \in Seq(S) /\ g[i] \in Seq(S)
    OBVIOUS
  <2> QED BY <1>3, <1>4, <2>1
<1>9. n # 0 => f[1] = g[1]
  <2> SUFFICES ASSUME n # 0 PROVE f[1] = g[1]
    OBVIOUS
  <2>1. 1 \in 1 .. n /\ f[1] = f[0] \o g[1] /\ g[1] \in Seq(S)
    BY <1>5
  <2>2. <<>> \o g[1] = g[1]
    BY <2>1, ConcatEmptySeq
  <2> QED BY <1>2, <1>4, <2>1, <2>2
<1>6. Len(g) = n /\ g \in Seq(Seq(S))
  OBVIOUS
<1>7. CASE n = 0
  <2>1. FlattenSeq(g) = <<>>
    BY <1>6, <1>7, EmptySeq DEF FlattenSeq
  <2> QED BY <1>2, <1>4, <1>5, <1>7, <2>1
<1>8. CASE n # 0
  <2> DEFINE h == CHOOSE x : IsFlatten(x, g)
             k == [i \in 1 .. n |-> f[i]]
  <2>1. IsFlatten(k, g)
    <3>1. ASSUME NEW i \in 1 .. n PROVE k[i] = IF i = 1 THEN g[i] ELSE k[i - 1] \o g[i]
      <4>1. CASE i = 1
        BY <1>8, <1>9, <4>1
      <4>2. CASE i # 1
        <5>1. i - 1 \in 1 .. n
          BY <4>2
        <5> QED BY <1>5, <4>2, <5>1
      <4> QED BY <4>1, <4>2
    <3> QED BY <1>6, <3>1 DEF IsFlatten
  <2>2. IsFlatten(h, g)
    BY <2>1
  <2>3. FlattenSeq(g) = h[n]
    BY <1>6, <1>8 DEF FlattenSeq, IsFlatten
  <2> HIDE DEF h
  <2>4. \A i \in 1 .. n : h[i] = IF i = 1 THEN g[i] ELSE h[i - 1] \o g[i]
    BY <1>6, <2>2 DEF IsFlatten
  <2> DEFINE T == {i \in 0 .. n : i > 0 => h[i] = f[i]}
  <2>5. ASSUME NEW i \in 1 .. n, i - 1 \in T PROVE i \in T
    <3>1. CASE i = 1
      BY <1>8, <1>9, <2>4, <3>1
    <3>2. CASE i # 1
      <4>1. i - 1 \in 1 .. n /\ h[i - 1] = f[i - 1]
        BY <2>5, <3>2
      <4>2. h[i] = h[i - 1] \o g[i]
        BY <2>4, <3>2
      <4>3. f[i] = f[i - 1] \o g[i]
        BY <1>5
      <4>4. h[i] = f[i]
        BY <4>1, <4>2, <4>3
      <4> QED BY <4>4
    <3> QED BY <3>1, <3>2
  <2>6. 0 \in T
    OBVIOUS
  <2> HIDE DEF T
  <2>7. n \in T
    <3>1. \A i \in 1 .. n : i - 1 \in T => i \in T
      BY <2>5
    <3> QED BY <2>6, <3>1, UpTo, Zenon
  <2>8. h[n] = f[n]
    BY <1>8, <2>7 DEF T
  <2> QED BY <1>2, <1>4, <1>5, <2>3, <2>8
<1> QED BY <1>7, <1>8

\* A pass that replaces every line by at most as many copies of l.
LEMMA FlattenCount ==
  ASSUME NEW S, NEW ls \in Seq(S), NEW g \in [1 .. Len(ls) -> Seq(S)], NEW l
  PROVE  /\ FlattenSeq(g) \in Seq(S)
         /\ (\A i \in DOMAIN ls : Count(l, g[i]) <= Count(l, <<ls[i]>>))
              => Count(l, FlattenSeq(g)) <= Count(l, ls)
         /\ (\A i \in DOMAIN ls : Count(l, g[i]) >= Count(l, <<ls[i]>>))
              => Count(l, FlattenSeq(g)) >= Count(l, ls)
<1> DEFINE n == Len(ls)
           Pre(i) == SubSeq(ls, 1, i)
<1>0. n \in Nat /\ DOMAIN ls = 1 .. n /\ Pre(0) = <<>> /\ Pre(n) = ls
  BY Whole
<1>1. PICK f \in [0 .. n -> Seq(S)] :
        /\ f[0] = <<>> /\ \A i \in 1 .. n : f[i] = f[i - 1] \o g[i]
        /\ FlattenSeq(g) = f[n]
  BY <1>0, Flattened
<1>2. FlattenSeq(g) \in Seq(S)
  BY <1>0, <1>1
<1>3. ASSUME NEW i \in 1 .. n
      PROVE  /\ Count(l, f[i]) = Count(l, f[i - 1]) + Count(l, g[i])
             /\ Count(l, Pre(i)) = Count(l, Pre(i - 1)) + Count(l, <<ls[i]>>)
             /\ Count(l, f[i]) \in Nat /\ Count(l, f[i - 1]) \in Nat /\ Count(l, g[i]) \in Nat
             /\ Count(l, Pre(i)) \in Nat /\ Count(l, Pre(i - 1)) \in Nat
             /\ Count(l, <<ls[i]>>) \in Nat
  <2>1. f[i - 1] \in Seq(S) /\ g[i] \in Seq(S) /\ f[i] \in Seq(S) /\ f[i] = f[i - 1] \o g[i]
    <3>1. i - 1 \in 0 .. n /\ i \in 0 .. n
      BY <1>0
    <3> QED BY <1>1, <3>1
  <2>2. /\ Pre(i - 1) \in Seq(S) /\ Pre(i) \in Seq(S) /\ ls[i] \in S
        /\ Pre(i) = Append(Pre(i - 1), ls[i])
    BY Prefix
  <2>3. Count(l, Pre(i)) = Count(l, Pre(i - 1)) + Count(l, <<ls[i]>>)
    <3> HIDE DEF Pre
    <3> QED BY <2>2, CountAppend, CountOne
  <2>4. Count(l, f[i]) = Count(l, f[i - 1]) + Count(l, g[i])
    BY <2>1, CountConcat
  <2>5. Count(l, <<ls[i]>>) \in Nat
    BY CountOne
  <2> HIDE DEF Pre
  <2> QED BY <2>1, <2>2, <2>3, <2>4, <2>5, AtType
<1>4. Count(l, f[0]) = 0 /\ Count(l, Pre(0)) = 0
  BY <1>0, <1>1, CountEmpty
<1> HIDE DEF Pre
<1>5. ASSUME \A i \in DOMAIN ls : Count(l, g[i]) <= Count(l, <<ls[i]>>)
      PROVE  Count(l, FlattenSeq(g)) <= Count(l, ls)
  <2> DEFINE T == {i \in 0 .. n : Count(l, f[i]) <= Count(l, Pre(i))}
  <2>1. ASSUME NEW i \in 1 .. n, i - 1 \in T PROVE i \in T
    <3>1. Count(l, g[i]) <= Count(l, <<ls[i]>>)
      BY <1>0, <1>5
    <3> QED BY <1>0, <1>3, <2>1, <3>1
  <2>2. 0 \in T
    BY <1>0, <1>4
  <2> HIDE DEF T
  <2>3. n \in T
    <3>1. n \in Nat /\ \A i \in 1 .. n : i - 1 \in T => i \in T
      BY <1>0, <2>1
    <3> QED BY <2>2, <3>1, UpTo, Zenon
  <2> QED BY <1>0, <1>1, <2>3 DEF T
<1>6. ASSUME \A i \in DOMAIN ls : Count(l, g[i]) >= Count(l, <<ls[i]>>)
      PROVE  Count(l, FlattenSeq(g)) >= Count(l, ls)
  <2> DEFINE T == {i \in 0 .. n : Count(l, f[i]) >= Count(l, Pre(i))}
  <2>1. ASSUME NEW i \in 1 .. n, i - 1 \in T PROVE i \in T
    <3>1. Count(l, g[i]) >= Count(l, <<ls[i]>>)
      BY <1>0, <1>6
    <3> QED BY <1>0, <1>3, <2>1, <3>1
  <2>2. 0 \in T
    BY <1>0, <1>4
  <2> HIDE DEF T
  <2>3. n \in T
    <3>1. n \in Nat /\ \A i \in 1 .. n : i - 1 \in T => i \in T
      BY <1>0, <2>1
    <3> QED BY <2>2, <3>1, UpTo, Zenon
  <2> QED BY <1>0, <1>1, <2>3 DEF T
<1> QED BY <1>2, <1>5, <1>6

-----------------------------------------------------------------------------
(* What is first and what is last.                                         *)

LEMMA MaxIn ==
  ASSUME NEW n \in Nat, NEW K, K \subseteq 1 .. n, K # {}
  PROVE  Max(K) \in K /\ \A i \in K : i <= Max(K)
<1> DEFINE T == {n - i : i \in K}
<1>1. T \subseteq Nat
  OBVIOUS
<1>2. T # {}
  <2>1. PICK i \in K : TRUE
    OBVIOUS
  <2>2. n - i \in T
    BY <2>1
  <2> QED BY <2>2
<1>3. PICK x \in T : \A y \in T : x <= y
  BY <1>1, <1>2, LeastNat
<1>4. PICK m \in K : x = n - m
  OBVIOUS
<1>5. ASSUME NEW i \in K PROVE m >= i
  <2>1. n - i \in T /\ i \in Nat /\ m \in Nat
    OBVIOUS
  <2>2. x <= n - i
    BY <1>3, <2>1
  <2> QED BY <1>4, <2>1, <2>2
<1> QED BY <1>5 DEF Max

LEMMA MinIn ==
  ASSUME NEW n \in Nat, NEW K, K \subseteq 1 .. n, K # {}
  PROVE  Min(K) \in K /\ \A i \in K : Min(K) <= i
<1>1. PICK m \in K : \A i \in K : m <= i
  <2>1. K \subseteq Nat
    OBVIOUS
  <2> QED BY <2>1, LeastNat
<1> QED BY <1>1 DEF Min

-----------------------------------------------------------------------------
(* Lines and prose.                                                        *)

LEMMA LinesCount ==
  ASSUME NEW S, NEW ls \in Seq(S), NEW K, NEW l
  PROVE  /\ Lines(ls, K) \in Seq(S)
         /\ Count(l, Lines(ls, K)) <= Count(l, ls)
         /\ (\A i \in DOMAIN ls : ls[i] = l => i \in K)
              => Count(l, Lines(ls, K)) = Count(l, ls)
<1> DEFINE g == [i \in DOMAIN ls |-> IF i \in K THEN <<ls[i]>> ELSE <<>>]
<1>0. Len(ls) \in Nat /\ DOMAIN ls = 1 .. Len(ls)
  OBVIOUS
<1>1. g \in [1 .. Len(ls) -> Seq(S)]
  OBVIOUS
<1>2. ASSUME NEW i \in DOMAIN ls
      PROVE  /\ Count(l, g[i]) <= Count(l, <<ls[i]>>)
             /\ (ls[i] = l => i \in K) => Count(l, g[i]) >= Count(l, <<ls[i]>>)
  <2>1. CASE i \in K
    BY <2>1, CountOne
  <2>2. CASE i \notin K
    BY <2>2, CountOne, CountEmpty
  <2> QED BY <2>1, <2>2
<1>3. Lines(ls, K) = FlattenSeq(g)
  BY DEF Lines
<1> HIDE DEF g
<1>4. FlattenSeq(g) \in Seq(S) /\ Count(l, FlattenSeq(g)) <= Count(l, ls)
  BY <1>1, <1>2, FlattenCount
<1>5. ASSUME \A i \in DOMAIN ls : ls[i] = l => i \in K
      PROVE  Count(l, FlattenSeq(g)) >= Count(l, ls)
  BY <1>1, <1>2, <1>5, FlattenCount
<1> QED BY <1>3, <1>4, <1>5, AtType

\* The members of a sequence at some places.
LEMMA LinesType ==
  ASSUME NEW n \in Nat, NEW s, DOMAIN s = 1 .. n, NEW K, NEW S,
         \A i \in 1 .. n : i \in K => s[i] \in S
  PROVE  Lines(s, K) \in Seq(S)
<1> DEFINE g == [i \in DOMAIN s |-> IF i \in K THEN <<s[i]>> ELSE <<>>]
<1>1. ASSUME NEW i \in 1 .. n
      PROVE  (IF i \in K THEN <<s[i]>> ELSE <<>>) \in Seq(S)
  OBVIOUS
<1>2. g \in [1 .. n -> Seq(S)]
  BY <1>1
<1> HIDE DEF g
<1>3. FlattenSeq(g) \in Seq(S)
  <2>1. PICK f \in [0 .. n -> Seq(S)] :
          /\ f[0] = <<>> /\ \A i \in 1 .. n : f[i] = f[i - 1] \o g[i]
          /\ FlattenSeq(g) = f[n]
    BY <1>2, Flattened
  <2> QED BY <2>1
<1> QED BY <1>3 DEF Lines, g

\* The fences open after each line.
IsOpen(o, ls, fences) ==
  /\ o \in [0 .. Len(ls) -> Text] /\ o[0] = ""
  /\ \A i \in 1 .. Len(ls) : o[i] = Opened(o[i - 1], ls[i], fences)

Grown(a, ls, fences, i) ==
  IF ls[i].kind \notin fences /\ a.open = "" THEN a.prose \cup {i} ELSE a.prose

Track(a, ls, fences, i) ==
  [open |-> Opened(a.open, ls[i], fences), prose |-> Grown(a, ls, fences, i)]

IsTracked(f, ls, fences) ==
  f = [i \in 0 .. Len(ls) |->
         IF i = 0 THEN [open |-> "", prose |-> {}] ELSE Track(f[i - 1], ls, fences, i)]

Tracked == [open : Text, prose : SUBSET Nat]

\* Prose is what stands where no fence is open.
LEMMA ProseOpen ==
  ASSUME NEW ls \in Seq(NoteLine), NEW fences
  PROVE  \E o : /\ IsOpen(o, ls, fences)
                /\ Prose(ls, fences) = {i \in DOMAIN ls : ls[i].kind \notin fences /\ o[i - 1] = ""}
<1> DEFINE n == Len(ls)
           F == [p \in Tracked \X (1 .. n) |-> Track(p[1], ls, fences, p[2])]
<1>0. n \in Nat /\ DOMAIN ls = 1 .. n
  OBVIOUS
<1>1. ASSUME NEW a \in Tracked, NEW i \in 1 .. n
      PROVE  Track(a, ls, fences, i) \in Tracked
  <2>1. ls[i] \in NoteLine
    BY <1>0
  <2>2. ls[i].text \in Text
    BY <2>1 DEF NoteLine
  <2>3. a.open \in Text /\ a.prose \in SUBSET Nat
    BY DEF Tracked
  <2>4. Opened(a.open, ls[i], fences) \in Text
    BY <2>2, <2>3, TextAssumption DEF Opened
  <2>5. Grown(a, ls, fences, i) \in SUBSET Nat
    <3>1. a.prose \cup {i} \in SUBSET Nat
      BY <1>0, <2>3
    <3> QED BY <2>3, <3>1 DEF Grown
  <2> QED BY <2>4, <2>5 DEF Track, Tracked
<1>2. F \in [Tracked \X (1 .. n) -> Tracked]
  BY <1>1
<1>3. PICK b \in Tracked : b = [open |-> "", prose |-> {}]
  <2>1. [open |-> "", prose |-> {}] \in Tracked
    BY TextAssumption DEF Tracked
  <2> QED BY <2>1
<1>20. b.open = "" /\ b.prose = {}
  BY <1>3
<1>4. \A a \in Tracked, i \in 1 .. n : F[<<a, i>>] = Track(a, ls, fences, i)
  OBVIOUS
<1> HIDE DEF F
<1>5. PICK f : Solves(f, n, Tracked, b, F)
  BY <1>0, <1>2, Recursion
<1>6. f \in [0 .. n -> Tracked] /\ f[0] = b
  BY <1>5 DEF Solves
<1>7. ASSUME NEW i \in 1 .. n
      PROVE  i - 1 \in 0 .. n /\ f[i - 1] \in Tracked /\ f[i] = Track(f[i - 1], ls, fences, i)
  <2>1. i - 1 \in 0 .. n /\ f[i - 1] \in Tracked
    BY <1>0, <1>6
  <2> QED BY <1>4, <1>5, <2>1 DEF Solves
<1> DEFINE h == CHOOSE x : IsTracked(x, ls, fences)
<1>8. IsTracked(f, ls, fences)
  <2>1. ASSUME NEW i \in 0 .. n
        PROVE  f[i] = IF i = 0 THEN [open |-> "", prose |-> {}] ELSE Track(f[i - 1], ls, fences, i)
    <3>1. i = 0 \/ i \in 1 .. n
      BY <1>0
    <3> QED BY <1>3, <1>6, <1>7, <3>1
  <2> QED BY <1>6, <2>1 DEF IsTracked
<1>9. IsTracked(h, ls, fences)
  BY <1>8
<1>10. Prose(ls, fences) = h[n].prose
  BY DEF Prose, IsTracked, Track, Grown
<1> HIDE DEF h
<1> DEFINE T == {i \in 0 .. n : h[i] = f[i]}
<1>11. 0 \in T
  <2>1. 0 \in 0 .. n
    BY <1>0
  <2>2. h[0] = b
    BY <1>3, <1>9, <2>1 DEF IsTracked
  <2>3. h[0] = f[0]
    BY <1>6, <2>2
  <2> QED BY <2>1, <2>3
<1>12. ASSUME NEW i \in 1 .. n, i - 1 \in T PROVE i \in T
  <2>1. h[i] = Track(h[i - 1], ls, fences, i)
    <3>1. i \in 0 .. n /\ i # 0
      BY <1>0
    <3> QED BY <1>9, <3>1 DEF IsTracked
  <2> QED BY <1>0, <1>7, <1>12, <2>1
<1> HIDE DEF T
<1>13. n \in T
  <2>1. \A i \in 1 .. n : i - 1 \in T => i \in T
    BY <1>12
  <2> QED BY <1>0, <1>11, <2>1, UpTo, Zenon
<1>14. Prose(ls, fences) = f[n].prose
  BY <1>10, <1>13 DEF T
<1> DEFINE o == [i \in 0 .. n |-> f[i].open]
<1>15. IsOpen(o, ls, fences)
  <2>1. o[0] = ""
    <3>1. 0 \in 0 .. n
      BY <1>0
    <3>2. o[0] = f[0].open
      BY <3>1
    <3> QED BY <1>6, <1>20, <3>2
  <2>2. \A i \in 0 .. n : f[i].open \in Text
    BY <1>6 DEF Tracked
  <2>3. o \in [0 .. n -> Text]
    BY <2>2
  <2>4. ASSUME NEW i \in 1 .. n PROVE o[i] = Opened(o[i - 1], ls[i], fences)
    <3>1. i \in 0 .. n
      BY <1>0
    <3>2. f[i].open = Opened(f[i - 1].open, ls[i], fences)
      <4>1. f[i] = [open |-> Opened(f[i - 1].open, ls[i], fences),
                    prose |-> Grown(f[i - 1], ls, fences, i)]
        BY <1>7 DEF Track
      <4> QED BY <4>1
    <3>3. i - 1 \in 0 .. n /\ o[i] = f[i].open /\ o[i - 1] = f[i - 1].open
      BY <1>7, <3>1
    <3> QED BY <3>2, <3>3
  <2> HIDE DEF o
  <2> QED BY <2>1, <2>3, <2>4 DEF IsOpen
<1> DEFINE P(m) == {i \in 1 .. m : ls[i].kind \notin fences /\ o[i - 1] = ""}
           U == {m \in 0 .. n : f[m].prose = P(m)}
<1>16. 0 \in U
  <2>0. f[0].prose = {}
    BY <1>6, <1>20
  <2>1. f[0].prose = {} /\ 1 .. 0 = {}
    BY <2>0
  <2>2. P(0) = {}
    BY <2>1
  <2>3. 0 \in 0 .. n /\ f[0].prose = P(0)
    BY <1>0, <2>1, <2>2
  <2> HIDE DEF P
  <2> QED BY <2>3
<1>17. ASSUME NEW m \in 1 .. n, m - 1 \in U PROVE m \in U
  <2>1. f[m].prose = IF ls[m].kind \notin fences /\ f[m - 1].open = ""
                     THEN f[m - 1].prose \cup {m} ELSE f[m - 1].prose
    <3>1. f[m] = [open |-> Opened(f[m - 1].open, ls[m], fences),
                  prose |-> Grown(f[m - 1], ls, fences, m)]
      BY <1>7 DEF Track
    <3>2. f[m].prose = Grown(f[m - 1], ls, fences, m)
      BY <3>1
    <3> QED BY <3>2 DEF Grown
  <2>2. f[m - 1].open = o[m - 1] /\ f[m - 1].prose = P(m - 1)
    BY <1>7, <1>17
  <2>3. 1 .. m = (1 .. (m - 1)) \cup {m}
    BY <1>0
  <2> HIDE DEF o
  <2>4. P(m) = P(m - 1) \cup {i \in {m} : ls[i].kind \notin fences /\ o[i - 1] = ""}
    BY <2>3
  <2>5. f[m].prose = P(m)
    <3>1. CASE ls[m].kind \notin fences /\ o[m - 1] = ""
      BY <2>1, <2>2, <2>4, <3>1
    <3>2. CASE ~(ls[m].kind \notin fences /\ o[m - 1] = "")
      BY <2>1, <2>2, <2>4, <3>2
    <3> QED BY <3>1, <3>2
  <2>6. m \in 0 .. n
    BY <1>0
  <2> HIDE DEF P
  <2> QED BY <2>5, <2>6
<1> HIDE DEF U, o
<1>18. n \in U
  <2>1. \A i \in 1 .. n : i - 1 \in U => i \in U
    BY <1>17
  <2> QED BY <1>0, <1>16, <2>1, UpTo, Zenon
<1>19. f[n].prose = P(n)
  BY <1>18 DEF U
<1> QED BY <1>0, <1>14, <1>15, <1>19

-----------------------------------------------------------------------------
(* Parts of a note.                                                        *)

LEMMA LineTypes ==
  /\ Blank \in NoteLine /\ Rule \in NoteLine /\ Callout \in NoteLine /\ Blank # Rule
  /\ \A t \in Text : Para(t) \in NoteLine /\ Link(t) \in NoteLine /\ Item(t) \in NoteLine
  /\ \A n \in Nat : Trans(n) \in NoteLine
  /\ \A m \in Nat, n \in Nat, t \in Text : Heading(m, n, t) \in NoteLine
  /\ \A h \in NoteLine : Entry(h) \in NoteLine
<1>1. "" \in Text
  BY TextAssumption
<1>2. ASSUME NEW kind \in Kind, NEW m \in Nat, NEW n \in Nat, NEW t \in Text
      PROVE  Line(kind, m, n, t) \in NoteLine
  BY DEF Line, NoteLine
<1>3. /\ "blank" \in Kind /\ "rule" \in Kind /\ "callout" \in Kind /\ "para" \in Kind
      /\ "link" \in Kind /\ "item" \in Kind /\ "trans" \in Kind /\ "head" \in Kind
      /\ "entry" \in Kind
  BY DEF Kind
<1>4. Blank # Rule
  BY DEF Blank, Rule, Line
<1>5. \A h \in NoteLine : h.num \in Nat /\ h.text \in Text
  BY DEF NoteLine
<1> QED BY <1>1, <1>2, <1>3, <1>4, <1>5
        DEF Blank, Rule, Callout, Para, Link, Item, Trans, Heading, Entry

LEMMA LineKinds ==
  /\ Blank.kind = "blank" /\ Rule.kind = "rule" /\ Callout.kind = "callout"
  /\ \A t : /\ Para(t).kind = "para" /\ Link(t).kind = "link" /\ Item(t).kind = "item"
            /\ Para(t).text = t /\ Link(t).text = t /\ Item(t).text = t
  /\ \A n : Trans(n).kind = "trans"
  /\ \A m, n, t : /\ Heading(m, n, t).kind = "head" /\ Heading(m, n, t).level = m
                  /\ Heading(m, n, t).num = n /\ Heading(m, n, t).text = t
  /\ \A h : Entry(h).kind = "entry" /\ Entry(h).num = h.num /\ Entry(h).text = h.text
BY DEF Blank, Rule, Callout, Para, Link, Item, Trans, Heading, Entry, Line

\* No part of a sequence has more of a line than the whole.
LEMMA PartCount ==
  ASSUME NEW S, NEW ls \in Seq(S), NEW m \in 1 .. Len(ls) + 1, NEW n \in 0 .. Len(ls), NEW l
  PROVE  /\ SubSeq(ls, m, n) \in Seq(S)
         /\ Count(l, SubSeq(ls, m, n)) <= Count(l, ls)
<1>0. Len(ls) \in Nat
  OBVIOUS
<1>1. CASE n < m
  <2>1. SubSeq(ls, m, n) = <<>>
    BY <1>0, <1>1, SubSeqEmpty
  <2> QED BY <2>1, CountEmpty, AtType
<1>2. CASE m <= n
  <2>1. /\ SubSeq(ls, 1, m - 1) \in Seq(S) /\ SubSeq(ls, m, n) \in Seq(S)
        /\ SubSeq(ls, 1, n) \in Seq(S) /\ SubSeq(ls, n + 1, Len(ls)) \in Seq(S)
    BY <1>0
  <2>2. SubSeq(ls, 1, m - 1) \o SubSeq(ls, m, n) = SubSeq(ls, 1, n)
    <3>1. 1 \in 1 .. Len(ls) + 1 /\ m - 1 \in 1 - 1 .. Len(ls) /\ n \in m - 1 .. Len(ls)
      BY <1>0, <1>2
    <3>2. SubSeq(ls, 1, m - 1) \o SubSeq(ls, (m - 1) + 1, n) = SubSeq(ls, 1, n)
      BY <3>1, ConcatAdjacentSubSeq
    <3> QED BY <3>2
  <2>3. Count(l, SubSeq(ls, 1, n))
          = Count(l, SubSeq(ls, 1, m - 1)) + Count(l, SubSeq(ls, m, n))
    BY <2>1, <2>2, CountConcat
  <2>4. Count(l, ls) = Count(l, SubSeq(ls, 1, n)) + Count(l, SubSeq(ls, n + 1, Len(ls)))
    BY CountCut
  <2>5. /\ Count(l, SubSeq(ls, 1, m - 1)) \in Nat /\ Count(l, SubSeq(ls, m, n)) \in Nat
        /\ Count(l, SubSeq(ls, n + 1, Len(ls))) \in Nat
    BY <2>1, AtType
  <2> QED BY <2>1, <2>3, <2>4, <2>5
<1> QED BY <1>0, <1>1, <1>2

\* A line that is not there.
LEMMA CountNone ==
  ASSUME NEW l, NEW ls, \A i \in DOMAIN ls : ls[i] # l
  PROVE  Count(l, ls) = 0
<1>1. At(l, ls) = {}
  BY DEF At
<1> QED BY <1>1, FS_EmptySet DEF Count

LEMMA TrimEndCount ==
  ASSUME NEW ls \in Seq(NoteLine), NEW l
  PROVE  /\ TrimEnd(ls) \in Seq(NoteLine)
         /\ Count(l, TrimEnd(ls)) <= Count(l, ls)
         /\ l # Blank => Count(l, TrimEnd(ls)) = Count(l, ls)
<1> DEFINE solid == {i \in DOMAIN ls : ls[i] # Blank}
<1>0. Len(ls) \in Nat /\ DOMAIN ls = 1 .. Len(ls) /\ solid \subseteq 1 .. Len(ls)
  OBVIOUS
<1>1. CASE solid = {}
  <2>1. TrimEnd(ls) = <<>>
    BY <1>1 DEF TrimEnd
  <2>2. l # Blank => Count(l, ls) = 0
    BY <1>1, CountNone
  <2>3. <<>> \in Seq(NoteLine)
    OBVIOUS
  <2> QED BY <2>1, <2>2, <2>3, CountEmpty, AtType
<1>2. CASE solid # {}
  <2>1. PICK m \in 1 .. Len(ls) :
          TrimEnd(ls) = SubSeq(ls, 1, m) /\ \A i \in DOMAIN ls : i > m => ls[i] = Blank
    <3>1. Max(solid) \in 1 .. Len(ls) /\ \A i \in solid : i <= Max(solid)
      BY <1>0, <1>2, MaxIn
    <3>2. \A i \in DOMAIN ls : i > Max(solid) => ls[i] = Blank
      BY <1>0, <3>1
    <3>3. TrimEnd(ls) = SubSeq(ls, 1, Max(solid))
      BY <1>2 DEF TrimEnd
    <3> QED BY <3>1, <3>2, <3>3
  <2>3. /\ SubSeq(ls, 1, m) \in Seq(NoteLine)
        /\ Count(l, SubSeq(ls, 1, m)) <= Count(l, ls)
    BY <1>0, PartCount
  <2>4. ASSUME l # Blank PROVE Count(l, SubSeq(ls, 1, m)) = Count(l, ls)
    <3> DEFINE rest == SubSeq(ls, m + 1, Len(ls))
    <3>1. ASSUME NEW i \in DOMAIN rest PROVE rest[i] # l
      <4>1. m + i \in DOMAIN ls /\ rest[i] = ls[m + i] /\ m + i > m
        BY <1>0
      <4>2. ls[m + i] = Blank
        BY <2>1, <4>1
      <4> QED BY <2>4, <4>1, <4>2
    <3>2. Count(l, rest) = 0
      <4> HIDE DEF rest
      <4> QED BY <3>1, CountNone
    <3>3. Count(l, ls) = Count(l, SubSeq(ls, 1, m)) + Count(l, rest)
      <4>1. m \in 0 .. Len(ls)
        BY <1>0
      <4> QED BY <4>1, CountCut
    <3>4. Count(l, SubSeq(ls, 1, m)) \in Nat
      BY <2>3, AtType
    <3> QED BY <3>2, <3>3, <3>4
  <2> QED BY <2>1, <2>3, <2>4
<1> QED BY <1>1, <1>2

LEMMA TrimCount ==
  ASSUME NEW ls \in Seq(NoteLine), NEW l
  PROVE  Trim(ls) \in Seq(NoteLine) /\ Count(l, Trim(ls)) <= Count(l, ls)
<1> DEFINE solid == {i \in DOMAIN ls : ls[i] # Blank}
<1>0. Len(ls) \in Nat /\ DOMAIN ls = 1 .. Len(ls) /\ solid \subseteq 1 .. Len(ls)
  OBVIOUS
<1>1. CASE solid = {}
  <2>1. Trim(ls) = <<>> /\ <<>> \in Seq(NoteLine)
    BY <1>1 DEF Trim
  <2> QED BY <2>1, CountEmpty, AtType
<1>2. CASE solid # {}
  <2>1. Trim(ls) = SubSeq(ls, Min(solid), Max(solid))
    BY <1>2 DEF Trim
  <2>2. Min(solid) \in 1 .. Len(ls) /\ Max(solid) \in 1 .. Len(ls)
    BY <1>0, <1>2, MinIn, MaxIn
  <2>3. Min(solid) \in 1 .. Len(ls) + 1 /\ Max(solid) \in 0 .. Len(ls)
    BY <1>0, <2>2
  <2> QED BY <2>1, <2>3, PartCount
<1> QED BY <1>1, <1>2

-----------------------------------------------------------------------------
(* normalise_markdown.                                                     *)

Reading == [out : Seq(NoteLine), open : Text, pending : BOOLEAN, ruled : BOOLEAN,
            headed : BOOLEAN, ruledAtHead : BOOLEAN]

LEMMA OptCount ==
  ASSUME NEW c, NEW l \in NoteLine, NEW x, x # l
  PROVE  Opt(c, l) \in Seq(NoteLine) /\ Count(x, Opt(c, l)) = 0
BY CountEmpty, CountOne DEF Opt

\* What is written for a line is the line, after blank lines and rules.
LEMMA UptoCount ==
  ASSUME NEW a \in Reading, NEW l \in NoteLine, NEW x, x # Blank, x # Rule
  PROVE  \A new \in {UptoFence(a, l), UptoHead(a, l), UptoText(a, l)} :
           /\ new \in Seq(NoteLine)
           /\ Count(x, new) = Count(x, a.out) + Count(x, <<l>>)
<1>0. a.out \in Seq(NoteLine) /\ Count(x, a.out) \in Nat
  BY AtType DEF Reading
<1>1. <<l>> \in Seq(NoteLine) /\ Count(x, <<l>>) \in Nat
  <2>1. <<l>> \in Seq(NoteLine)
    OBVIOUS
  <2> QED BY <2>1, AtType
<1>2. \A c : /\ Opt(c, Blank) \in Seq(NoteLine) /\ Count(x, Opt(c, Blank)) = 0
             /\ Opt(c, Rule) \in Seq(NoteLine) /\ Count(x, Opt(c, Rule)) = 0
  BY LineTypes, OptCount
<1>3. ASSUME NEW s \in Seq(NoteLine), NEW c, NEW d
      PROVE  /\ s \o Opt(c, Blank) \o Opt(d, Rule) \o <<l>> \in Seq(NoteLine)
             /\ Count(x, s \o Opt(c, Blank) \o Opt(d, Rule) \o <<l>>)
                  = Count(x, s) + Count(x, <<l>>)
             /\ s \o Opt(c, Blank) \in Seq(NoteLine)
             /\ Count(x, s \o Opt(c, Blank)) = Count(x, s)
             /\ s \o Opt(c, Blank) \o <<l>> \in Seq(NoteLine)
             /\ Count(x, s \o Opt(c, Blank) \o <<l>>) = Count(x, s) + Count(x, <<l>>)
  <2>0. Count(x, s) \in Nat
    BY AtType
  <2>1. s \o Opt(c, Blank) \in Seq(NoteLine) /\ Count(x, s \o Opt(c, Blank)) = Count(x, s)
    <3>1. s \o Opt(c, Blank) \in Seq(NoteLine)
      BY <1>2, ConcatProperties
    <3>2. Count(x, s \o Opt(c, Blank)) = Count(x, s) + Count(x, Opt(c, Blank))
      BY <1>2, CountConcat
    <3> QED BY <1>2, <2>0, <3>1, <3>2
  <2>2. PICK t \in Seq(NoteLine) : t = s \o Opt(c, Blank)
    BY <2>1
  <2>3. t \o Opt(d, Rule) \in Seq(NoteLine) /\ Count(x, t \o Opt(d, Rule)) = Count(x, t)
    <3>1. t \o Opt(d, Rule) \in Seq(NoteLine)
      BY <1>2, ConcatProperties
    <3>2. Count(x, t \o Opt(d, Rule)) = Count(x, t) + Count(x, Opt(d, Rule))
      BY <1>2, CountConcat
    <3>3. Count(x, t) \in Nat
      BY AtType
    <3> QED BY <1>2, <3>1, <3>2, <3>3
  <2>4. PICK u \in Seq(NoteLine) : u = t \o Opt(d, Rule)
    BY <2>3
  <2>5. ASSUME NEW v \in Seq(NoteLine)
        PROVE  v \o <<l>> \in Seq(NoteLine) /\ Count(x, v \o <<l>>) = Count(x, v) + Count(x, <<l>>)
    <3>1. v \o <<l>> \in Seq(NoteLine)
      BY <1>1, ConcatProperties
    <3>2. Count(x, v \o <<l>>) = Count(x, v) + Count(x, <<l>>)
      BY <1>1, CountConcat
    <3> QED BY <1>1, <3>1, <3>2
  <2> QED BY <2>1, <2>2, <2>3, <2>4, <2>5
<1>4. UptoFence(a, l) \in Seq(NoteLine) /\ Count(x, UptoFence(a, l)) = Count(x, a.out) + Count(x, <<l>>)
  BY <1>0, <1>3 DEF UptoFence
<1>5. UptoHead(a, l) \in Seq(NoteLine) /\ Count(x, UptoHead(a, l)) = Count(x, a.out) + Count(x, <<l>>)
  <2>1. PICK mid : mid = a.out \o Opt(a.ruled /\ ~a.ruledAtHead /\ a.pending, Blank)
    OBVIOUS
  <2>2. mid \in Seq(NoteLine) /\ Count(x, mid) = Count(x, a.out)
    BY <1>0, <1>3, <2>1
  <2>3. UptoHead(a, l) = mid \o Opt(mid # <<>> /\ mid[Len(mid)] # Blank, Blank) \o <<l>>
    BY <2>1 DEF UptoHead
  <2>4. \/ UptoHead(a, l) = mid \o Opt(TRUE, Blank) \o <<l>>
        \/ UptoHead(a, l) = mid \o Opt(FALSE, Blank) \o <<l>>
    <3>1. CASE mid # <<>> /\ mid[Len(mid)] # Blank
      BY <2>3, <3>1 DEF Opt
    <3>2. CASE ~(mid # <<>> /\ mid[Len(mid)] # Blank)
      BY <2>3, <3>2 DEF Opt
    <3> QED BY <3>1, <3>2
  <2>5. \A c : /\ mid \o Opt(c, Blank) \o <<l>> \in Seq(NoteLine)
               /\ Count(x, mid \o Opt(c, Blank) \o <<l>>) = Count(x, mid) + Count(x, <<l>>)
    BY <1>3, <2>2
  <2> QED BY <2>2, <2>4, <2>5
<1>6. UptoText(a, l) \in Seq(NoteLine) /\ Count(x, UptoText(a, l)) = Count(x, a.out) + Count(x, <<l>>)
  <2>1. CASE a.headed
    <3>1. a.out \o <<Blank, l>> = a.out \o Opt(TRUE, Blank) \o <<l>>
      <4>0. <<Blank>> \in Seq(NoteLine)
        BY LineTypes
      <4>1. <<Blank, l>> = <<Blank>> \o <<l>>
        OBVIOUS
      <4>2. a.out \o (<<Blank>> \o <<l>>) = (a.out \o <<Blank>>) \o <<l>>
        BY <1>0, <1>1, <4>0, ConcatAssociative
      <4> QED BY <4>1, <4>2 DEF Opt
    <3> QED BY <1>0, <1>3, <2>1, <3>1 DEF UptoText
  <2>2. CASE ~a.headed
    BY <1>4, <2>2 DEF UptoText
  <2> QED BY <2>1, <2>2
<1> QED BY <1>4, <1>5, <1>6

\* Every line that is read is written, or is a blank line or a rule.
LEMMA TakeStep ==
  ASSUME NEW a \in Reading, NEW l \in NoteLine
  PROVE  /\ Take(a, l) \in Reading
         /\ \A x : x # Blank /\ x # Rule =>
              Count(x, Take(a, l).out) = Count(x, a.out) + Count(x, <<l>>)
<1>0. /\ a.out \in Seq(NoteLine) /\ a.open \in Text /\ l.text \in Text
      /\ a.pending \in BOOLEAN /\ a.ruled \in BOOLEAN /\ a.headed \in BOOLEAN
      /\ a.ruledAtHead \in BOOLEAN
  BY DEF Reading, NoteLine
<1>8. Blank # Rule /\ Blank.kind = "blank" /\ Rule.kind = "rule"
  BY DEF Blank, Rule, Line
<1>7. l.kind \in Strict => l # Blank /\ l # Rule /\ l.kind # "head"
  <2>1. l.kind \in Strict => l.kind = "fence"
    BY DEF Strict
  <2> QED BY <1>8, <2>1
<1>1. CASE a.open # ""
  <2>1. Take(a, l) = [a EXCEPT !.out = Append(@, l), !.open = Opened(@, l, Strict)]
    BY <1>1 DEF Take
  <2>2. PICK open \in Text : open = Opened(a.open, l, Strict)
    BY <1>0, TextAssumption DEF Opened
  <2>3. PICK out \in Seq(NoteLine) : out = Append(a.out, l)
    <3>1. Append(a.out, l) \in Seq(NoteLine)
      BY <1>0, AppendProperties
    <3> QED BY <3>1
  <2>4. Take(a, l) = [a EXCEPT !.out = out, !.open = open]
    BY <2>1, <2>2, <2>3
  <2>5. Take(a, l) \in Reading /\ Take(a, l).out = out
    BY <2>4 DEF Reading
  <2> QED BY <1>0, <2>3, <2>5, CountAppend
<1>2. CASE a.open = "" /\ l.kind \in Strict
  <2>1. Take(a, l) = [a EXCEPT !.out = UptoFence(a, l), !.open = l.text,
                              !.pending = FALSE, !.ruled = FALSE, !.headed = FALSE]
    BY <1>2, <1>7 DEF Take
  <2>2. PICK out \in Seq(NoteLine) : out = UptoFence(a, l)
    <3>1. Callout # Blank /\ Callout # Rule
      BY DEF Callout, Blank, Rule, Line
    <3>2. UptoFence(a, l) \in Seq(NoteLine)
      BY <3>1, UptoCount
    <3> QED BY <3>2
  <2>3. Take(a, l) = [a EXCEPT !.out = out, !.open = l.text,
                              !.pending = FALSE, !.ruled = FALSE, !.headed = FALSE]
    BY <2>1, <2>2
  <2>4. Take(a, l) \in Reading /\ Take(a, l).out = out
    BY <1>0, <2>3 DEF Reading
  <2> QED BY <2>2, <2>4, UptoCount
<1>3. CASE a.open = "" /\ l.kind \notin Strict /\ l = Blank
  <2>1. Take(a, l) = [a EXCEPT !.pending = TRUE]
    BY <1>3, <1>8 DEF Take
  <2>2. Take(a, l) \in Reading /\ Take(a, l).out = a.out
    BY <2>1 DEF Reading
  <2>3. ASSUME NEW x, x # Blank, x # Rule
        PROVE  Count(x, Take(a, l).out) = Count(x, a.out) + Count(x, <<l>>)
    <3>1. Count(x, <<l>>) = 0 /\ Count(x, a.out) \in Nat
      BY <1>0, <1>3, <2>3, AtType, CountOne
    <3> QED BY <2>2, <3>1
  <2> QED BY <2>2, <2>3
<1>4. CASE a.open = "" /\ l.kind \notin Strict /\ l # Blank /\ l = Rule
  <2>1. Take(a, l) = [a EXCEPT !.ruledAtHead = IF a.ruled THEN @ ELSE a.headed,
                              !.ruled = TRUE, !.pending = FALSE]
    BY <1>4, <1>8 DEF Take
  <2>2. PICK r \in BOOLEAN : r = IF a.ruled THEN a.ruledAtHead ELSE a.headed
    BY <1>0
  <2>3. Take(a, l) = [a EXCEPT !.ruledAtHead = r, !.ruled = TRUE, !.pending = FALSE]
    BY <2>1, <2>2
  <2>4. Take(a, l) \in Reading /\ Take(a, l).out = a.out
    BY <2>3 DEF Reading
  <2>5. ASSUME NEW x, x # Blank, x # Rule
        PROVE  Count(x, Take(a, l).out) = Count(x, a.out) + Count(x, <<l>>)
    <3>1. Count(x, <<l>>) = 0 /\ Count(x, a.out) \in Nat
      BY <1>0, <1>4, <2>5, AtType, CountOne
    <3> QED BY <2>4, <3>1
  <2> QED BY <2>4, <2>5
<1>5. CASE a.open = "" /\ l.kind \notin Strict /\ l # Blank /\ l # Rule /\ l.kind = "head"
  <2>1. Take(a, l) = [a EXCEPT !.out = UptoHead(a, l), !.headed = TRUE,
                              !.pending = FALSE, !.ruled = FALSE]
    BY <1>5 DEF Take
  <2>2. PICK out \in Seq(NoteLine) : out = UptoHead(a, l)
    BY <1>5, UptoCount
  <2>3. Take(a, l) = [a EXCEPT !.out = out, !.headed = TRUE, !.pending = FALSE, !.ruled = FALSE]
    BY <2>1, <2>2
  <2>4. Take(a, l) \in Reading /\ Take(a, l).out = out
    BY <2>3 DEF Reading
  <2> QED BY <2>2, <2>4, UptoCount
<1>6. CASE a.open = "" /\ l.kind \notin Strict /\ l # Blank /\ l # Rule /\ l.kind # "head"
  <2>1. Take(a, l) = [a EXCEPT !.out = UptoText(a, l), !.headed = FALSE,
                              !.pending = FALSE, !.ruled = FALSE]
    BY <1>6 DEF Take
  <2>2. PICK out \in Seq(NoteLine) : out = UptoText(a, l)
    BY <1>6, UptoCount
  <2>3. Take(a, l) = [a EXCEPT !.out = out, !.headed = FALSE, !.pending = FALSE, !.ruled = FALSE]
    BY <2>1, <2>2
  <2>4. Take(a, l) \in Reading /\ Take(a, l).out = out
    BY <2>3 DEF Reading
  <2> QED BY <2>2, <2>4, UptoCount
<1> QED BY <1>1, <1>2, <1>3, <1>4, <1>5, <1>6

LEMMA UnreadType == Unread \in Reading /\ Unread.out = <<>>
<1>1. "" \in Text
  BY TextAssumption
<1>2. PICK none \in Seq(NoteLine) : none = <<>>
  BY EmptySeq
<1>3. Unread = [out |-> none, open |-> "", pending |-> FALSE, ruled |-> FALSE,
                headed |-> FALSE, ruledAtHead |-> FALSE]
  BY <1>2 DEF Unread
<1>4. Unread \in Reading /\ Unread.out = none
  BY <1>1, <1>3 DEF Reading
<1> QED BY <1>2, <1>4

IsTaken(f, ls) ==
  f = [i \in 0 .. Len(ls) |-> IF i = 0 THEN Unread ELSE Take(f[i - 1], ls[i])]

\* The states of the pass.
LEMMA TakeStates ==
  ASSUME NEW ls \in Seq(NoteLine)
  PROVE  \E f \in [0 .. Len(ls) -> Reading] :
           /\ f[0] = Unread /\ \A i \in 1 .. Len(ls) : f[i] = Take(f[i - 1], ls[i])
           /\ Normalise(ls) = Written(f[Len(ls)])
<1> DEFINE n == Len(ls)
           F == [p \in Reading \X (1 .. n) |-> Take(p[1], ls[p[2]])]
           h == CHOOSE x : IsTaken(x, ls)
<1>0. n \in Nat /\ DOMAIN ls = 1 .. n
  OBVIOUS
<1>1. F \in [Reading \X (1 .. n) -> Reading]
  <2>1. ASSUME NEW p \in Reading \X (1 .. n) PROVE Take(p[1], ls[p[2]]) \in Reading
    <3>1. p[1] \in Reading /\ ls[p[2]] \in NoteLine
      BY <1>0
    <3> QED BY <3>1, TakeStep
  <2> QED BY <2>1
<1>2. \A a \in Reading, i \in 1 .. n : F[<<a, i>>] = Take(a, ls[i])
  OBVIOUS
<1> HIDE DEF F
<1>4. PICK f : Solves(f, n, Reading, Unread, F)
  BY <1>0, <1>1, UnreadType, Recursion
<1>5. f \in [0 .. n -> Reading] /\ f[0] = Unread
  BY <1>4 DEF Solves
<1>6. ASSUME NEW i \in 1 .. n PROVE f[i] = Take(f[i - 1], ls[i])
  <2>1. i - 1 \in 0 .. n /\ f[i - 1] \in Reading
    BY <1>0, <1>5
  <2> QED BY <1>2, <1>4, <2>1 DEF Solves
<1>7. IsTaken(f, ls)
  <2>1. ASSUME NEW i \in 0 .. n
        PROVE  f[i] = IF i = 0 THEN Unread ELSE Take(f[i - 1], ls[i])
    <3>1. i = 0 \/ i \in 1 .. n
      BY <1>0
    <3> QED BY <1>5, <1>6, <3>1
  <2> QED BY <1>5, <2>1 DEF IsTaken
<1>8. IsTaken(h, ls)
  BY <1>7
<1>9. Normalise(ls) = Written(h[n])
  BY DEF Normalise, IsTaken
<1> HIDE DEF h
<1> DEFINE T == {i \in 0 .. n : h[i] = f[i]}
<1>10. 0 \in T
  <2>1. 0 \in 0 .. n
    BY <1>0
  <2>2. h[0] = f[0]
    BY <1>5, <1>8, <2>1 DEF IsTaken
  <2> QED BY <2>1, <2>2
<1>11. ASSUME NEW i \in 1 .. n, i - 1 \in T PROVE i \in T
  <2>1. i \in 0 .. n /\ i # 0
    BY <1>0
  <2>2. h[i] = Take(h[i - 1], ls[i])
    BY <1>8, <2>1 DEF IsTaken
  <2>3. h[i] = f[i]
    BY <1>6, <1>11, <2>2
  <2> QED BY <2>1, <2>3
<1> HIDE DEF T
<1>12. n \in T
  <2>1. \A i \in 1 .. n : i - 1 \in T => i \in T
    BY <1>11
  <2> QED BY <1>0, <1>10, <2>1, UpTo, Zenon
<1> QED BY <1>5, <1>6, <1>9, <1>12 DEF T

LEMMA NormaliseCount ==
  ASSUME NEW ls \in Seq(NoteLine)
  PROVE  /\ Normalise(ls) \in Seq(NoteLine)
         /\ \A l : l # Blank /\ l # Rule => Count(l, Normalise(ls)) = Count(l, ls)
<1> DEFINE n == Len(ls)
           Pre(i) == SubSeq(ls, 1, i)
<1>0. n \in Nat /\ DOMAIN ls = 1 .. n /\ Pre(0) = <<>> /\ Pre(n) = ls
  BY Whole
<1>5. ASSUME NEW i \in 1 .. n
      PROVE  /\ Pre(i - 1) \in Seq(NoteLine) /\ ls[i] \in NoteLine
             /\ Pre(i) = Append(Pre(i - 1), ls[i])
  BY Prefix
<1> HIDE DEF Pre
<1>1. PICK f \in [0 .. n -> Reading] :
        /\ f[0] = Unread /\ \A i \in 1 .. n : f[i] = Take(f[i - 1], ls[i])
        /\ Normalise(ls) = Written(f[n])
  BY TakeStates
<1>2. ASSUME NEW a \in Reading
      PROVE  /\ Written(a) \in Seq(NoteLine)
             /\ \A l : l # Blank /\ l # Rule => Count(l, Written(a)) = Count(l, a.out)
  <2>0. a.out \in Seq(NoteLine)
    BY DEF Reading
  <2>1. CASE a.ruled /\ ~a.headed
    <3>1. Written(a) = a.out \o Opt(a.pending, Blank) \o <<Rule>>
      BY <2>1 DEF Written
    <3>2. PICK o \in Seq(NoteLine) :
            o = Opt(a.pending, Blank) /\ \A l : l # Blank => Count(l, o) = 0
      <4>1. Callout # Blank
        BY DEF Callout, Blank, Line
      <4> QED BY <4>1, LineTypes, OptCount
    <3>3. PICK t \in Seq(NoteLine) : t = a.out \o o
      BY <2>0, ConcatProperties
    <3>4. PICK r \in Seq(NoteLine) : r = <<Rule>> /\ \A l : l # Rule => Count(l, r) = 0
      <4>1. <<Rule>> \in Seq(NoteLine)
        BY LineTypes
      <4> QED BY <4>1, CountOne
    <3>5. Written(a) = t \o r /\ t \o r \in Seq(NoteLine)
      BY <3>1, <3>2, <3>3, <3>4, ConcatProperties
    <3>6. ASSUME NEW l, l # Blank, l # Rule PROVE Count(l, Written(a)) = Count(l, a.out)
      <4>1. Count(l, t) = Count(l, a.out) + Count(l, o)
        BY <2>0, <3>3, CountConcat
      <4>2. Count(l, t \o r) = Count(l, t) + Count(l, r)
        BY CountConcat
      <4>3. Count(l, o) = 0 /\ Count(l, r) = 0 /\ Count(l, a.out) \in Nat
        BY <2>0, <3>2, <3>4, <3>6, AtType
      <4> QED BY <3>5, <4>1, <4>2, <4>3
    <3> QED BY <3>5, <3>6
  <2>2. CASE ~(a.ruled /\ ~a.headed)
    BY <2>0, <2>2 DEF Written
  <2> QED BY <2>1, <2>2
<1>3. ASSUME NEW l, l # Blank, l # Rule PROVE Count(l, f[n].out) = Count(l, ls)
  <2> DEFINE T == {i \in 0 .. n : Count(l, f[i].out) = Count(l, Pre(i))}
  <2>1. 0 \in T
    <3>1. f[0].out = <<>>
      <4>1. f[0] = Unread
        BY <1>1
      <4> QED BY <4>1, UnreadType
    <3>2. Count(l, f[0].out) = Count(l, Pre(0))
      BY <1>0, <3>1
    <3> QED BY <1>0, <3>2
  <2>2. ASSUME NEW i \in 1 .. n, i - 1 \in T PROVE i \in T
    <3>1. ls[i] \in NoteLine
      BY <1>5
    <3>2. Count(l, Pre(i)) = Count(l, Pre(i - 1)) + Count(l, <<ls[i]>>)
      BY <1>5, CountAppend
    <3>3. f[i - 1] \in Reading /\ f[i] = Take(f[i - 1], ls[i])
      BY <1>0, <1>1
    <3>4. Count(l, f[i].out) = Count(l, f[i - 1].out) + Count(l, <<ls[i]>>)
      BY <1>3, <3>1, <3>3, TakeStep
    <3>5. i \in 0 .. n /\ Count(l, f[i].out) = Count(l, Pre(i))
      BY <1>0, <2>2, <3>2, <3>4
    <3> QED BY <3>5
  <2> HIDE DEF T
  <2>3. n \in T
    <3>1. \A i \in 1 .. n : i - 1 \in T => i \in T
      BY <2>2
    <3> QED BY <1>0, <2>1, <3>1, UpTo, Zenon
  <2> QED BY <1>0, <2>3 DEF T
<1>4. f[n] \in Reading
  BY <1>0, <1>1
<1> QED BY <1>1, <1>2, <1>3, <1>4

-----------------------------------------------------------------------------
(* splice_transitions.                                                     *)

LEMMA ProseIn ==
  ASSUME NEW ls \in Seq(NoteLine), NEW fences
  PROVE  Prose(ls, fences) \subseteq DOMAIN ls
BY ProseOpen

\* How many members of a set of lines there are up to line i.
LEMMA NthType ==
  ASSUME NEW n \in Nat, NEW K, K \subseteq 1 .. n, NEW i
  PROVE  Cardinality({j \in K : j <= i}) \in Nat
<1>1. IsFiniteSet(1 .. n)
  BY FS_Interval
<1>2. {j \in K : j <= i} \subseteq 1 .. n
  OBVIOUS
<1> QED BY <1>1, <1>2, FS_Subset, FS_CardinalityType

LEMMA CountFour ==
  ASSUME NEW a, NEW b, NEW c, NEW d, NEW l, b # l, c # l, d # l
  PROVE  Count(l, <<a, b, c, d>>) = Count(l, <<a>>)
<1>1. At(l, <<a, b, c, d>>) = At(l, <<a>>)
  <2>1. ASSUME NEW i PROVE i \in At(l, <<a, b, c, d>>) <=> i = 1 /\ a = l
    <3>1. DOMAIN <<a, b, c, d>> = {1, 2, 3, 4}
      OBVIOUS
    <3> QED BY <3>1 DEF At
  <2>2. ASSUME NEW i PROVE i \in At(l, <<a>>) <=> i = 1 /\ a = l
    BY DEF At
  <2> QED BY <2>1, <2>2
<1> QED BY <1>1 DEF Count

LEMMA SpliceCount ==
  ASSUME NEW ls \in Seq(NoteLine), NEW chosen
  PROVE  /\ Splice(ls, chosen) \in Seq(NoteLine)
         /\ \A l : l # Blank /\ l.kind # "trans" => Count(l, Splice(ls, chosen)) = Count(l, ls)
<1> DEFINE starts == SectionLines(ls)
           Nth(i) == Cardinality({j \in starts : j <= i})
           Gets(i) == i \in starts /\ Nth(i) \in chosen
           Spliced(i) == CASE Gets(i) -> <<ls[i], Blank, Trans(Nth(i)), Blank>>
                           [] ls[i] = Blank /\ i > 1 /\ Gets(i - 1) -> <<>>
                           [] OTHER -> <<ls[i]>>
           g == [i \in DOMAIN ls |-> Spliced(i)]
<1>0. Len(ls) \in Nat /\ DOMAIN ls = 1 .. Len(ls)
  OBVIOUS
<1>1. Splice(ls, chosen) = FlattenSeq(g)
  BY DEF Splice
<1>2. starts \subseteq 1 .. Len(ls)
  BY <1>0, ProseIn DEF SectionLines, Heads
<1>3. ASSUME NEW i \in DOMAIN ls
      PROVE  Nth(i) \in Nat
  <2> HIDE DEF starts
  <2> QED BY <1>0, <1>2, NthType
<1>9. \A i \in DOMAIN ls : Gets(i) => ls[i].kind = "head"
  BY DEF SectionLines, Heads
<1> HIDE DEF Nth, starts
<1>4. ASSUME NEW i \in DOMAIN ls
      PROVE  /\ Gets(i) => Spliced(i) = <<ls[i], Blank, Trans(Nth(i)), Blank>>
             /\ \/ Gets(i)
                \/ ls[i] = Blank /\ Spliced(i) = <<>>
                \/ Spliced(i) = <<ls[i]>>
  <2>1. CASE Gets(i)
    <3>1. ls[i].kind = "head" /\ Blank.kind = "blank"
      BY <1>9, <2>1 DEF Blank, Line
    <3>2. ls[i] # Blank
      BY <3>1
    <3> QED BY <2>1, <3>2
  <2>2. CASE ~Gets(i) /\ ls[i] = Blank /\ i > 1 /\ Gets(i - 1)
    BY <2>2
  <2>3. CASE ~Gets(i) /\ ~(ls[i] = Blank /\ i > 1 /\ Gets(i - 1))
    BY <2>3
  <2> QED BY <2>1, <2>2, <2>3
<1>10. \A i \in DOMAIN ls : g[i] = Spliced(i)
  OBVIOUS
<1>11. DOMAIN g = DOMAIN ls /\ g = [i \in DOMAIN ls |-> g[i]]
  OBVIOUS
<1> HIDE DEF Gets, Spliced, g
<1>5. ASSUME NEW i \in DOMAIN ls PROVE g[i] \in Seq(NoteLine)
  <2>0. g[i] = Spliced(i) /\ ls[i] \in NoteLine /\ Blank \in NoteLine
    BY <1>10, LineTypes
  <2>1. CASE Gets(i)
    <3>1. Trans(Nth(i)) \in NoteLine
      BY <1>3, LineTypes
    <3>2. g[i] = <<ls[i], Blank, Trans(Nth(i)), Blank>>
      BY <1>4, <2>0, <2>1
    <3> QED BY <2>0, <3>1, <3>2
  <2>2. CASE Spliced(i) = <<>>
    BY <2>0, <2>2
  <2>3. CASE Spliced(i) = <<ls[i]>>
    BY <2>0, <2>3
  <2> QED BY <1>4, <2>1, <2>2, <2>3
<1>6. g \in [1 .. Len(ls) -> Seq(NoteLine)]
  BY <1>0, <1>5, <1>11
<1>7. ASSUME NEW l, l # Blank, l.kind # "trans", NEW i \in DOMAIN ls
      PROVE  Count(l, g[i]) = Count(l, <<ls[i]>>)
  <2>0. g[i] = Spliced(i)
    BY <1>10
  <2>1. CASE Gets(i)
    <3>1. Trans(Nth(i)) # l
      BY <1>7, LineKinds
    <3>2. Count(l, <<ls[i], Blank, Trans(Nth(i)), Blank>>) = Count(l, <<ls[i]>>)
      BY <1>7, <3>1, CountFour
    <3> QED BY <1>4, <2>0, <2>1, <3>2
  <2>2. CASE ls[i] = Blank /\ Spliced(i) = <<>>
    BY <1>7, <2>0, <2>2, CountEmpty, CountOne
  <2>3. CASE Spliced(i) = <<ls[i]>>
    BY <2>0, <2>3
  <2> QED BY <1>4, <2>1, <2>2, <2>3
<1>8. ASSUME NEW l, l # Blank, l.kind # "trans" PROVE Count(l, FlattenSeq(g)) = Count(l, ls)
  <2>1. \A i \in DOMAIN ls : Count(l, g[i]) = Count(l, <<ls[i]>>) /\ Count(l, <<ls[i]>>) \in Nat
    <3>1. ASSUME NEW i \in DOMAIN ls PROVE Count(l, <<ls[i]>>) \in Nat
      BY CountOne
    <3> QED BY <1>7, <1>8, <3>1
  <2>2. Count(l, FlattenSeq(g)) <= Count(l, ls) /\ Count(l, FlattenSeq(g)) >= Count(l, ls)
    BY <1>6, <2>1, FlattenCount
  <2>3. FlattenSeq(g) \in Seq(NoteLine)
    BY <1>6, FlattenCount
  <2>4. Count(l, FlattenSeq(g)) \in Nat /\ Count(l, ls) \in Nat
    BY <2>3, AtType
  <2> QED BY <2>2, <2>4
<1> QED BY <1>1, <1>6, <1>8, FlattenCount

-----------------------------------------------------------------------------
(* apply_structure.                                                        *)

LEMMA LinkSafeType ==
  ASSUME NEW t \in Text
  PROVE  LinkSafe(t) \in Text
BY TextAssumption DEF LinkSafe

\* The headings outside fences.
HeadsOf(ls) == {i \in Prose(ls, Strict) : ls[i].kind = "head"}

LEMMA HeadsIn ==
  ASSUME NEW ls \in Seq(NoteLine)
  PROVE  /\ Len(ls) \in Nat /\ DOMAIN ls = 1 .. Len(ls) /\ HeadsOf(ls) \subseteq 1 .. Len(ls)
         /\ \A i \in HeadsOf(ls) : ls[i].kind = "head"
BY ProseIn DEF HeadsOf

LEMMA WithinHead ==
  ASSUME NEW ls \in Seq(NoteLine), NEW i, Within(ls, HeadsOf(ls), i) # 0
  PROVE  Within(ls, HeadsOf(ls), i) \in HeadsOf(ls)
<1> DEFINE H == HeadsOf(ls)
           before == {j \in SectionsOf(ls, H) : j < i}
<1>1. before \subseteq H /\ H \subseteq 1 .. Len(ls) /\ Len(ls) \in Nat
  BY HeadsIn DEF SectionsOf
<1>2. before # {} /\ Within(ls, H, i) = Max(before)
  BY DEF Within
<1> HIDE DEF H, before
<1>3. Max(before) \in before
  BY <1>1, <1>2, MaxIn
<1> QED BY <1>1, <1>2, <1>3 DEF H

\* Headings stay headings, with their text or the safe form of it; other lines stay.
LEMMA RestructuredLine ==
  ASSUME NEW ls \in Seq(NoteLine), NEW i \in DOMAIN ls
  PROVE  /\ Restructured(ls, HeadsOf(ls), i) \in NoteLine
         /\ ls[i].kind # "head" => Restructured(ls, HeadsOf(ls), i) = ls[i]
         /\ ls[i].kind = "head" =>
              /\ Restructured(ls, HeadsOf(ls), i).kind = "head"
              /\ Restructured(ls, HeadsOf(ls), i).text \in {ls[i].text, LinkSafe(ls[i].text)}
         /\ \/ Restructured(ls, HeadsOf(ls), i).num = ls[i].num
            \/ \E n \in Nat : Restructured(ls, HeadsOf(ls), i) = Heading(3, n, LinkSafe(ls[i].text))
<1> DEFINE H == HeadsOf(ls)
           h == ls[i]
           new == Restructured(ls, H, i)
<1>0. /\ Len(ls) \in Nat /\ H \subseteq 1 .. Len(ls) /\ h \in NoteLine
      /\ \A j \in H : ls[j].kind = "head"
  BY HeadsIn
<1>1. h.level \in Nat /\ h.num \in Nat /\ h.text \in Text /\ h.kind \in Kind
  BY <1>0 DEF NoteLine
<1>2. CASE i \notin H \/ i = TitleOf(ls, H)
  <2>1. new = h
    BY <1>2 DEF Restructured
  <2> QED BY <1>0, <2>1
<1>3. CASE i \in H /\ i # TitleOf(ls, H) /\ i \in SectionsOf(ls, H)
  <2> DEFINE n == Cardinality({j \in SectionsOf(ls, H) : j <= i})
  <2>0. h.level = 2
    BY <1>3 DEF SectionsOf
  <2>1. new = Heading(3, n, LinkSafe(h.text))
    BY <1>3, <2>0 DEF Restructured
  <2>2. n \in Nat
    <3>1. SectionsOf(ls, H) \subseteq 1 .. Len(ls)
      BY <1>0 DEF SectionsOf
    <3> QED BY <1>0, <3>1, NthType
  <2>3. new \in NoteLine /\ new.kind = "head" /\ new.text = LinkSafe(h.text)
    BY <1>1, <2>1, <2>2, LinkSafeType, LineTypes, LineKinds
  <2> QED BY <1>0, <1>3, <2>1, <2>2, <2>3
<1>4. CASE i \in H /\ i # TitleOf(ls, H) /\ i \notin SectionsOf(ls, H)
  <2>1. PICK level \in Nat : new = [h EXCEPT !.level = level]
    <3>1. CASE Within(ls, H, i) # 0 /\ h.level >= 3
      <4>1. new = [h EXCEPT !.level = Min({h.level + 1, 6})]
        BY <1>4, <3>1 DEF Restructured
      <4>2. Min({h.level + 1, 6}) \in Nat
        <5>1. {h.level + 1, 6} \subseteq 1 .. (h.level + 7) /\ h.level + 7 \in Nat
          BY <1>1
        <5>2. Min({h.level + 1, 6}) \in {h.level + 1, 6}
          BY <5>1, MinIn
        <5> QED BY <1>1, <5>2
      <4> QED BY <4>1, <4>2
    <3>2. CASE ~(Within(ls, H, i) # 0 /\ h.level >= 3) /\ Within(ls, H, i) # 0 /\ h.level = 1
      <4>1. new = [h EXCEPT !.level = 2]
        BY <1>4, <3>2 DEF Restructured
      <4> QED BY <4>1
    <3>3. CASE ~(Within(ls, H, i) # 0 /\ h.level >= 3) /\ ~(Within(ls, H, i) # 0 /\ h.level = 1)
      <4>1. new = h
        BY <1>4, <3>3 DEF Restructured
      <4>2. \A l \in NoteLine : l = [l EXCEPT !.level = l.level]
        BY DEF NoteLine
      <4> QED BY <1>0, <1>1, <4>1, <4>2
    <3> QED BY <3>1, <3>2, <3>3
  <2>2. new \in NoteLine /\ new.kind = h.kind /\ new.text = h.text /\ new.num = h.num
    <3>1. \A l \in NoteLine, n \in Nat :
            /\ [l EXCEPT !.level = n] \in NoteLine
            /\ [l EXCEPT !.level = n].kind = l.kind /\ [l EXCEPT !.level = n].text = l.text
            /\ [l EXCEPT !.level = n].num = l.num
      BY DEF NoteLine
    <3> QED BY <1>0, <2>1, <3>1
  <2>3. h.kind = "head"
    BY <1>0, <1>4
  <2> QED BY <2>2, <2>3
<1> QED BY <1>2, <1>3, <1>4

\* What the table of contents replaces is a callout, its entries and blank lines.
LEMMA TocRangeKinds ==
  ASSUME NEW ls \in Seq(NoteLine)
  PROVE  \A i \in TocRange(ls) : i \in DOMAIN ls => ls[i].kind \in {"callout", "entry", "blank"}
<1> DEFINE Goes(l) == l.kind \in {"callout", "entry", "blank"}
           Run(i) == {e \in i .. Len(ls) : \A m \in i .. e : Goes(ls[m])}
           End(i) == Max(Run(i))
           old == {i \in DOMAIN ls : ls[i] = Callout /\ \E m \in i .. End(i) : ls[m].kind = "entry"}
<1>0. Len(ls) \in Nat /\ DOMAIN ls = 1 .. Len(ls)
  OBVIOUS
<1>1. TocRange(ls) = IF old = {} THEN {} ELSE Min(old) .. End(Min(old))
  BY DEF TocRange
<1>2. CASE old = {}
  BY <1>1, <1>2
<1>3. CASE old # {}
  <2>1. PICK i \in DOMAIN ls : ls[i] = Callout /\ TocRange(ls) = i .. End(i)
    <3>1. old \subseteq 1 .. Len(ls)
      BY <1>0
    <3>2. Min(old) \in old
      <4> HIDE DEF old
      <4> QED BY <1>0, <1>3, <3>1, MinIn
    <3> QED BY <1>1, <1>3, <3>2
  <2>2. i \in 1 .. Len(ls) /\ i \in Run(i)
    <3>1. Goes(ls[i])
      BY <2>1, LineKinds
    <3>2. \A m \in i .. i : m = i
      BY <1>0
    <3> QED BY <1>0, <3>1, <3>2
  <2>3. Run(i) \subseteq 1 .. Len(ls) /\ \A e \in Run(i) : \A m \in i .. e : Goes(ls[m])
    BY <1>0, <2>2
  <2>4. End(i) \in Run(i)
    <3> HIDE DEF Run
    <3> QED BY <1>0, <2>2, <2>3, MaxIn
  <2>5. \A m \in i .. End(i) : Goes(ls[m])
    <3> HIDE DEF Run, Goes
    <3> QED BY <2>3, <2>4
  <2> QED BY <2>1, <2>5
<1> QED BY <1>2, <1>3

\* The table of contents takes the place of callouts, entries and blank lines.
LEMMA TocCount ==
  ASSUME NEW ls \in Seq(NoteLine)
  PROVE  /\ GenerateToc(ls) \in Seq(NoteLine)
         /\ \A l : l.kind \notin {"callout", "entry", "blank"}
                     => Count(l, GenerateToc(ls)) = Count(l, ls)
         /\ \A e \in Range(GenerateToc(ls)) : e.kind = "entry" =>
              \/ e \in Range(ls)
              \/ \E h \in Range(ls) : IsSection(h) /\ e = Entry(h)
<1> DEFINE rest == Lines(ls, DOMAIN ls \ TocRange(ls))
           titles == {i \in DOMAIN ls : ls[i].kind = "head" /\ ls[i].level = 1}
           text == {i \in DOMAIN rest : i > Min(titles) /\ rest[i] # Blank}
           at == IF titles = {} THEN 0 ELSE IF text = {} THEN Len(rest) ELSE Min(text) - 1
           heads == TocHeads(ls)
           entries == [n \in DOMAIN heads |-> Entry(heads[n])]
           above == SubSeq(rest, 1, at)
           below == SubSeq(rest, at + 1, Len(rest))
           new == above \o <<Callout>> \o entries \o <<Blank>> \o below
<1>1. GenerateToc(ls) = IF Len(heads) < 2 THEN ls ELSE new
  BY DEF GenerateToc
<1>2. /\ rest \in Seq(NoteLine) /\ Len(rest) \in Nat /\ DOMAIN rest = 1 .. Len(rest)
      /\ \A l : Count(l, rest) <= Count(l, ls)
      /\ \A l : l.kind \notin {"callout", "entry", "blank"} => Count(l, rest) = Count(l, ls)
  <2>1. rest \in Seq(NoteLine) /\ \A l : Count(l, rest) <= Count(l, ls)
    BY LinesCount
  <2>2. ASSUME NEW l, l.kind \notin {"callout", "entry", "blank"}
        PROVE  Count(l, rest) = Count(l, ls)
    <3> DEFINE K == DOMAIN ls \ TocRange(ls)
    <3>1. \A i \in DOMAIN ls : ls[i] = l => i \in K
      BY <2>2, TocRangeKinds
    <3> HIDE DEF K
    <3>2. Count(l, Lines(ls, K)) = Count(l, ls)
      BY <3>1, LinesCount
    <3> QED BY <3>2 DEF K
  <2> HIDE DEF rest
  <2>3. Len(rest) \in Nat /\ DOMAIN rest = 1 .. Len(rest)
    BY <2>1
  <2> QED BY <2>1, <2>2, <2>3
<1>3. /\ heads \in Seq(NoteLine)
      /\ \A n \in DOMAIN heads : heads[n] \in Range(ls) /\ IsSection(heads[n])
  <2> DEFINE K == {i \in Heads(ls, Strict) : IsSection(ls[i])}
             S == {h \in NoteLine : h \in Range(ls) /\ IsSection(h)}
  <2>1. Len(ls) \in Nat /\ DOMAIN ls = 1 .. Len(ls) /\ \A i \in DOMAIN ls : ls[i] \in NoteLine
    BY Whole
  <2>2. \A i \in 1 .. Len(ls) : i \in K => ls[i] \in S
    BY <2>1 DEF Range
  <2>3. heads = Lines(ls, K)
    BY DEF TocHeads
  <2>4. S \subseteq NoteLine /\ \A h \in S : h \in Range(ls) /\ IsSection(h)
    OBVIOUS
  <2> HIDE DEF K, S, heads
  <2>5. heads \in Seq(S)
    BY <2>1, <2>2, <2>3, LinesType
  <2> QED BY <2>4, <2>5
<1>4. /\ entries \in Seq(NoteLine)
      /\ \A l : l.kind # "entry" => Count(l, entries) = 0
      /\ \A e \in Range(entries) : \E h \in Range(ls) : IsSection(h) /\ e = Entry(h)
  <2>1. Len(heads) \in Nat /\ DOMAIN heads = 1 .. Len(heads)
    BY <1>3
  <2>2. ASSUME NEW n \in DOMAIN heads
        PROVE  entries[n] \in NoteLine /\ entries[n].kind = "entry"
    <3>1. entries[n] = Entry(heads[n])
      OBVIOUS
    <3>2. heads[n] \in NoteLine
      <4> HIDE DEF heads
      <4> QED BY <1>3, <2>1
    <3> QED BY <3>1, <3>2, LineTypes, LineKinds
  <2>3. DOMAIN entries = 1 .. Len(heads) /\ entries = [n \in 1 .. Len(heads) |-> entries[n]]
    BY <2>1
  <2> HIDE DEF entries, heads
  <2>4. entries \in Seq(NoteLine)
    BY <2>1, <2>2, <2>3
  <2>5. ASSUME NEW l, l.kind # "entry" PROVE Count(l, entries) = 0
    <3>1. \A i \in DOMAIN entries : entries[i] # l
      BY <2>1, <2>2, <2>3, <2>5
    <3> QED BY <3>1, CountNone
  <2>6. \A n \in DOMAIN heads : heads[n] \in Range(ls) /\ IsSection(heads[n])
    BY <1>3
  <2>7. \A n \in DOMAIN heads : entries[n] = Entry(heads[n])
    BY DEF entries
  <2>8. ASSUME NEW e \in Range(entries)
        PROVE  \E h \in Range(ls) : IsSection(h) /\ e = Entry(h)
    <3>1. PICK n \in DOMAIN heads : entries[n] = e
      BY <2>1, <2>3, <2>8 DEF Range
    <3> QED BY <2>6, <2>7, <3>1
  <2> QED BY <2>4, <2>5, <2>8
<1> HIDE DEF rest, entries, heads
<1>5. at \in 0 .. Len(rest)
  <2>1. CASE text = {} \/ titles = {}
    BY <1>2, <2>1
  <2>2. CASE text # {} /\ titles # {}
    <3>1. at = Min(text) - 1
      BY <2>2
    <3>2. text \subseteq 1 .. Len(rest)
      BY <1>2
    <3> HIDE DEF text
    <3>3. Min(text) \in 1 .. Len(rest)
      BY <1>2, <2>2, <3>2, MinIn
    <3> QED BY <1>2, <3>1, <3>3
  <2> QED BY <2>1, <2>2
<1> HIDE DEF at
<1>6. /\ above \in Seq(NoteLine) /\ below \in Seq(NoteLine)
      /\ \A l : Count(l, rest) = Count(l, above) + Count(l, below)
  BY <1>2, <1>5, CountCut
<1> HIDE DEF above, below
<1>7. PICK c \in Seq(NoteLine) : c = <<Callout>>
  <2>1. <<Callout>> \in Seq(NoteLine)
    BY LineTypes
  <2> QED BY <2>1
<1>8. PICK b \in Seq(NoteLine) : b = <<Blank>>
  <2>1. <<Blank>> \in Seq(NoteLine)
    BY LineTypes
  <2> QED BY <2>1
<1>9. /\ new = (((above \o c) \o entries) \o b) \o below
      /\ above \o c \in Seq(NoteLine) /\ (above \o c) \o entries \in Seq(NoteLine)
      /\ ((above \o c) \o entries) \o b \in Seq(NoteLine) /\ new \in Seq(NoteLine)
  BY <1>4, <1>6, <1>7, <1>8, ConcatProperties
<1> HIDE DEF new
<1>10. ASSUME NEW l, l.kind \notin {"callout", "entry", "blank"}
       PROVE  Count(l, new) = Count(l, ls)
  <2>1. Count(l, c) = 0 /\ Count(l, b) = 0 /\ Count(l, entries) = 0
    <3>1. Callout # l /\ Blank # l
      BY <1>10, LineKinds
    <3> QED BY <1>4, <1>7, <1>8, <1>10, <3>1, CountOne
  <2>2. Count(l, above \o c) = Count(l, above) + Count(l, c)
    BY <1>6, CountConcat
  <2>3. Count(l, (above \o c) \o entries) = Count(l, above \o c) + Count(l, entries)
    BY <1>4, <1>9, CountConcat
  <2>4. Count(l, ((above \o c) \o entries) \o b)
          = Count(l, (above \o c) \o entries) + Count(l, b)
    BY <1>9, CountConcat
  <2>5. Count(l, new) = Count(l, ((above \o c) \o entries) \o b) + Count(l, below)
    BY <1>6, <1>9, CountConcat
  <2>6. Count(l, above) \in Nat /\ Count(l, below) \in Nat
    BY <1>6, AtType
  <2> QED BY <1>2, <1>6, <1>10, <2>1, <2>2, <2>3, <2>4, <2>5, <2>6
<1>11. ASSUME NEW e \in Range(new), e.kind = "entry"
       PROVE  e \in Range(ls) \/ e \in Range(entries)
  <2>1. Count(e, c) = 0 /\ Count(e, b) = 0
    <3>1. Callout # e /\ Blank # e
      BY <1>11, LineKinds
    <3> QED BY <1>7, <1>8, <3>1, CountOne
  <2>2. Count(e, above \o c) = Count(e, above) + Count(e, c)
    BY <1>6, CountConcat
  <2>3. Count(e, (above \o c) \o entries) = Count(e, above \o c) + Count(e, entries)
    BY <1>4, <1>9, CountConcat
  <2>4. Count(e, ((above \o c) \o entries) \o b)
          = Count(e, (above \o c) \o entries) + Count(e, b)
    BY <1>9, CountConcat
  <2>5. Count(e, new) = Count(e, ((above \o c) \o entries) \o b) + Count(e, below)
    BY <1>6, <1>9, CountConcat
  <2>6. /\ Count(e, above) \in Nat /\ Count(e, below) \in Nat /\ Count(e, entries) \in Nat
        /\ Count(e, ls) \in Nat /\ Count(e, rest) \in Nat
    BY <1>2, <1>4, <1>6, AtType
  <2>7. Count(e, new) > 0
    BY <1>9, <1>11, CountMember
  <2>8. Count(e, rest) = Count(e, above) + Count(e, below) /\ Count(e, rest) <= Count(e, ls)
    BY <1>2, <1>6
  <2>9. Count(e, new) = Count(e, above) + Count(e, entries) + Count(e, below)
    BY <2>1, <2>2, <2>3, <2>4, <2>5, <2>6
  <2>10. Count(e, ls) > 0 \/ Count(e, entries) > 0
    BY <2>6, <2>7, <2>8, <2>9
  <2> QED BY <1>4, <2>10, CountMember
<1> QED BY <1>1, <1>4, <1>9, <1>10, <1>11

\* The formatter drops a line of text only where it repeats a heading, and makes no
\* heading of which the note did not have the text.
LEMMA StructureCount ==
  ASSUME NEW ls \in Seq(NoteLine)
  PROVE  /\ ApplyStructure(ls) \in Seq(NoteLine)
         /\ \A l : l.kind \notin {"head", "callout", "entry", "blank"} =>
              /\ Count(l, ApplyStructure(ls)) <= Count(l, ls)
              /\ (\A j \in DOMAIN ls :
                    ls[j].kind = "head" => l # Para(LinkSafe(ls[j].text)))
                   => Count(l, ApplyStructure(ls)) = Count(l, ls)
         /\ \A h \in Range(ApplyStructure(ls)) : h.kind = "head" =>
              \E j \in DOMAIN ls : /\ ls[j].kind = "head"
                                   /\ h.text \in {ls[j].text, LinkSafe(ls[j].text)}
<1> DEFINE prose == Prose(ls, Strict)
           H == HeadsOf(ls)
           new == [i \in DOMAIN ls |-> Restructured(ls, H, i)]
           K == {i \in DOMAIN ls : ~Restates(ls, prose, H, i)}
<1>1. ApplyStructure(ls) = IF H = {} THEN ls ELSE GenerateToc(Lines(new, K))
  BY DEF ApplyStructure, HeadsOf
<1>2. /\ Len(ls) \in Nat /\ DOMAIN ls = 1 .. Len(ls) /\ H \subseteq 1 .. Len(ls)
      /\ \A i \in H : ls[i].kind = "head"
  BY HeadsIn
<1>3. \A i \in DOMAIN ls :
        /\ new[i] \in NoteLine
        /\ ls[i].kind # "head" => new[i] = ls[i]
        /\ ls[i].kind = "head" =>
             /\ new[i].kind = "head" /\ new[i].text \in {ls[i].text, LinkSafe(ls[i].text)}
  <2> SUFFICES ASSUME NEW i \in DOMAIN ls
               PROVE  /\ new[i] \in NoteLine
                      /\ ls[i].kind # "head" => new[i] = ls[i]
                      /\ ls[i].kind = "head" =>
                           /\ new[i].kind = "head"
                           /\ new[i].text \in {ls[i].text, LinkSafe(ls[i].text)}
    OBVIOUS
  <2>1. new[i] = Restructured(ls, H, i)
    OBVIOUS
  <2> HIDE DEF new
  <2> QED BY <2>1, RestructuredLine
<1>4. ASSUME NEW i \in DOMAIN ls, i \notin K
      PROVE  \E j \in DOMAIN ls : ls[j].kind = "head" /\ ls[i] = Para(LinkSafe(ls[j].text))
  <2>1. Restates(ls, prose, H, i)
    BY <1>4
  <2>2. Within(ls, H, i) # 0 /\ ls[i] = Para(LinkSafe(ls[Within(ls, H, i)].text))
    BY <2>1 DEF Restates
  <2>3. Within(ls, H, i) \in H
    BY <2>2, WithinHead
  <2> QED BY <1>2, <2>2, <2>3
<1>5. DOMAIN new = DOMAIN ls /\ new = [i \in 1 .. Len(ls) |-> new[i]]
  BY <1>2
<1> HIDE DEF new, K, H
<1>6. new \in Seq(NoteLine) /\ Len(new) = Len(ls)
  BY <1>2, <1>3, <1>5
<1> DEFINE kept == Lines(new, K)
<1>7. kept \in Seq(NoteLine)
  BY <1>6, LinesCount
<1>8. /\ GenerateToc(kept) \in Seq(NoteLine)
      /\ \A l : l.kind \notin {"callout", "entry", "blank"}
                  => Count(l, GenerateToc(kept)) = Count(l, kept)
  <2> HIDE DEF kept
  <2> QED BY <1>7, TocCount
<1>9. ASSUME NEW l, l.kind \notin {"head", "callout", "entry", "blank"}
      PROVE  /\ Count(l, GenerateToc(kept)) <= Count(l, ls)
             /\ (\A j \in DOMAIN ls : ls[j].kind = "head" => l # Para(LinkSafe(ls[j].text)))
                  => Count(l, GenerateToc(kept)) = Count(l, ls)
  <2>1. Count(l, GenerateToc(kept)) = Count(l, kept)
    BY <1>8, <1>9
  <2>2. \A i \in DOMAIN ls : new[i] = l <=> ls[i] = l
    BY <1>3, <1>9
  <2>3. At(l, new) = At(l, ls)
    BY <1>5, <2>2 DEF At
  <2>4. Count(l, new) = Count(l, ls)
    BY <2>3 DEF Count
  <2>5. Count(l, kept) <= Count(l, new)
    BY <1>6, LinesCount
  <2>6. ASSUME \A j \in DOMAIN ls : ls[j].kind = "head" => l # Para(LinkSafe(ls[j].text))
        PROVE  Count(l, kept) = Count(l, new)
    <3>1. \A i \in DOMAIN new : new[i] = l => i \in K
      BY <1>4, <1>5, <2>2, <2>6
    <3> QED BY <1>6, <3>1, LinesCount
  <2> HIDE DEF kept
  <2> QED BY <2>1, <2>4, <2>5, <2>6
<1>10. ASSUME NEW h \in Range(GenerateToc(kept)), h.kind = "head"
       PROVE  \E j \in DOMAIN ls : /\ ls[j].kind = "head"
                                   /\ h.text \in {ls[j].text, LinkSafe(ls[j].text)}
  <2>1. Count(h, GenerateToc(kept)) > 0
    BY <1>8, <1>10, CountMember
  <2>2. Count(h, GenerateToc(kept)) = Count(h, kept) /\ Count(h, kept) <= Count(h, new)
    BY <1>6, <1>8, <1>10, LinesCount
  <2>3. Count(h, new) \in Nat /\ Count(h, kept) \in Nat
    BY <1>6, <1>7, AtType
  <2>4. h \in Range(new)
    <3>1. Count(h, new) > 0
      <4> HIDE DEF kept
      <4> QED BY <2>1, <2>2, <2>3
    <3> QED BY <1>6, <3>1, CountMember
  <2>5. PICK j \in DOMAIN ls : new[j] = h
    BY <1>5, <2>4 DEF Range
  <2> QED BY <1>3, <1>10, <2>5
<1>11. CASE H = {}
  <2>1. ApplyStructure(ls) = ls
    BY <1>1, <1>11
  <2>2. \A h \in Range(ls) : h.kind = "head" =>
          \E j \in DOMAIN ls : /\ ls[j].kind = "head"
                               /\ h.text \in {ls[j].text, LinkSafe(ls[j].text)}
    BY DEF Range
  <2>3. \A l : Count(l, ls) <= Count(l, ls)
    BY AtType
  <2> QED BY <2>1, <2>2, <2>3
<1>12. CASE H # {}
  <2>1. ApplyStructure(ls) = GenerateToc(kept)
    BY <1>1, <1>12
  <2> HIDE DEF kept
  <2> QED BY <1>8, <1>9, <1>10, <2>1
<1> QED BY <1>11, <1>12

-----------------------------------------------------------------------------
(* link_first_mentions.                                                    *)

\* A link is put in the place of a line of prose that says one of the target's names,
\* in a note that does not have the target yet.
LEMMA LinkFirstStep ==
  ASSUME NEW ls \in Seq(NoteLine), NEW t, LinkFirst(ls, t) # ls
  PROVE  \E at \in DOMAIN ls :
           /\ LinkFirst(ls, t) = [ls EXCEPT ![at] = Link(t.name)]
           /\ ls[at].kind = "para" /\ ls[at].text \in {Surfaces(t)[1], Surfaces(t)[2]}
           /\ ~AlreadyLinked(ls, t.name) /\ t.name \notin Unlinkable
           /\ at \in Prose(ls, Loose)
<1> DEFINE open == Linkable(ls)
           Hits(s) == {i \in open : ls[i].kind \in {"para", "head"} /\ ls[i].text = s}
           said == {n \in 1 .. 2 : Hits(Surfaces(t)[n]) # {}}
           at == FirstMention(ls, t)
<1>1. /\ ~AlreadyLinked(ls, t.name) /\ t.name \notin Unlinkable /\ at # 0
      /\ LinkFirst(ls, t) = [ls EXCEPT ![at] = Link(t.name)]
  BY DEF LinkFirst
<1>2. said # {} /\ at = Min(Hits(Surfaces(t)[Min(said)]))
  BY <1>1 DEF FirstMention
<1>3. Len(ls) \in Nat /\ DOMAIN ls = 1 .. Len(ls) /\ open \subseteq 1 .. Len(ls)
  BY ProseIn DEF Linkable
<1>4. Min(said) \in said
  <2>1. said \subseteq 1 .. 2
    OBVIOUS
  <2> HIDE DEF said
  <2> QED BY <1>2, <2>1, MinIn
<1>5. PICK n \in 1 .. 2 : at = Min(Hits(Surfaces(t)[n])) /\ Hits(Surfaces(t)[n]) # {}
  <2>1. Min(said) \in 1 .. 2 /\ Hits(Surfaces(t)[Min(said)]) # {}
    BY <1>4
  <2> HIDE DEF said, Hits
  <2> QED BY <1>2, <2>1
<1>6. at \in Hits(Surfaces(t)[n])
  <2>1. Hits(Surfaces(t)[n]) \subseteq 1 .. Len(ls)
    BY <1>3
  <2> HIDE DEF Hits
  <2> QED BY <1>3, <1>5, <2>1, MinIn
<1>7. /\ at \in open /\ ls[at].kind \in {"para", "head"} /\ ls[at].text = Surfaces(t)[n]
  BY <1>6
<1>8. ls[at].kind # "head" /\ at \in Prose(ls, Loose)
  BY <1>7 DEF Linkable
<1>9. Surfaces(t)[n] \in {Surfaces(t)[1], Surfaces(t)[2]}
  BY <1>5
<1> HIDE DEF open, at
<1> QED BY <1>1, <1>3, <1>7, <1>8, <1>9

Turned(l, x, T) ==
  \/ x = l
  \/ /\ l.kind = "para"
     /\ \E t \in T : l.text \in {Surfaces(t)[1], Surfaces(t)[2]} /\ x = Link(t.name)

\* How the note may have changed when links to the targets T were put in.
Relinked(old, new, T) ==
  /\ new \in Seq(NoteLine) /\ Len(new) = Len(old)
  /\ \A i \in DOMAIN old : Turned(old[i], new[i], T)
  /\ \A n : Link(n) \in Range(new) => Link(n) \in Range(old) \/ Item(n) \notin Range(old)
  /\ \A n : \/ Count(Link(n), new) <= Count(Link(n), old)
            \/ Count(Link(n), new) <= 1

LEMMA RelinkedStep ==
  ASSUME NEW old \in Seq(NoteLine), NEW mid, NEW T, NEW t \in T, t.name \in Text,
         Relinked(old, mid, T)
  PROVE  Relinked(old, LinkFirst(mid, t), T)
<1>1. CASE LinkFirst(mid, t) = mid
  BY <1>1
<1>2. CASE LinkFirst(mid, t) # mid
  <2>0. mid \in Seq(NoteLine) /\ Len(mid) = Len(old)
    BY DEF Relinked
  <2>1. PICK at \in DOMAIN mid :
          /\ LinkFirst(mid, t) = [mid EXCEPT ![at] = Link(t.name)]
          /\ mid[at].kind = "para" /\ mid[at].text \in {Surfaces(t)[1], Surfaces(t)[2]}
          /\ ~AlreadyLinked(mid, t.name)
    BY <1>2, <2>0, LinkFirstStep
  <2> DEFINE new == [mid EXCEPT ![at] = Link(t.name)]
             n == Len(old)
  <2>2. n \in Nat /\ DOMAIN old = 1 .. n /\ DOMAIN mid = 1 .. n
    BY <2>0
  <2>3. /\ new \in Seq(NoteLine) /\ Len(new) = n /\ DOMAIN new = 1 .. n
        /\ new[at] = Link(t.name) /\ \A i \in 1 .. n : i # at => new[i] = mid[i]
    <3>1. Link(t.name) \in NoteLine
      BY LineTypes
    <3>2. \A i \in 1 .. n : new[i] \in NoteLine
      BY <2>0, <2>2, <3>1
    <3>3. new \in [1 .. n -> NoteLine]
      BY <2>0, <2>2, <3>2
    <3> QED BY <2>0, <2>1, <2>2, <3>3
  <2>4. /\ \A i \in 1 .. n : Turned(old[i], mid[i], T)
        /\ \A m : Link(m) \in Range(mid) => Link(m) \in Range(old) \/ Item(m) \notin Range(old)
        /\ \A m : \/ Count(Link(m), mid) <= Count(Link(m), old)
                  \/ Count(Link(m), mid) <= 1
    BY <2>2 DEF Relinked
  <2> HIDE DEF new
  <2>5. mid[at] = old[at]
    <3>1. \A m : mid[at] # Link(m)
      BY <2>1, LineKinds
    <3> QED BY <2>1, <2>2, <2>4, <3>1 DEF Turned
  <2>6. ASSUME NEW i \in 1 .. n PROVE Turned(old[i], new[i], T)
    <3>1. CASE i = at
      BY <2>1, <2>3, <2>5, <3>1 DEF Turned
    <3>2. CASE i # at
      BY <2>3, <2>4, <3>2
    <3> QED BY <3>1, <3>2
  <2>7. \A i \in 1 .. n : mid[i] # Link(t.name) /\ mid[i] # Item(t.name)
    BY <2>1, <2>2 DEF AlreadyLinked
  <2>8. Item(t.name) \notin Range(old)
    <3> SUFFICES ASSUME NEW i \in 1 .. n, old[i] = Item(t.name) PROVE FALSE
      BY <2>2 DEF Range
    <3>1. old[i].kind # "para"
      BY LineKinds
    <3>2. mid[i] = old[i]
      BY <2>4, <3>1 DEF Turned
    <3> QED BY <2>7, <3>2
  <2>9. ASSUME NEW m, m # t.name PROVE At(Link(m), new) = At(Link(m), mid)
    <3>1. Link(m) # Link(t.name) /\ mid[at] # Link(m)
      BY <2>1, <2>9, LineKinds
    <3> QED BY <2>2, <2>3, <3>1 DEF At
  <2>10. ASSUME NEW m, Link(m) \in Range(new)
         PROVE  Link(m) \in Range(old) \/ Item(m) \notin Range(old)
    <3>1. CASE m = t.name
      BY <2>8, <3>1
    <3>2. CASE m # t.name
      <4>1. At(Link(m), new) # {}
        BY <2>10 DEF At, Range
      <4>2. Link(m) \in Range(mid)
        BY <2>9, <3>2, <4>1 DEF At, Range
      <4> QED BY <2>4, <4>2
    <3> QED BY <3>1, <3>2
  <2>11. ASSUME NEW m
         PROVE  Count(Link(m), new) <= Count(Link(m), old) \/ Count(Link(m), new) <= 1
    <3>1. CASE m = t.name
      <4>1. At(Link(m), new) = {at}
        BY <2>1, <2>2, <2>3, <2>7, <3>1 DEF At
      <4>2. Cardinality({at}) = 1
        BY FS_Singleton
      <4>3. Count(Link(m), new) = 1
        BY <4>1, <4>2 DEF Count
      <4> QED BY <4>3
    <3>2. CASE m # t.name
      <4>1. Count(Link(m), new) = Count(Link(m), mid)
        BY <2>9, <3>2 DEF Count
      <4> QED BY <2>4, <4>1
    <3> QED BY <3>1, <3>2
  <2>12. Relinked(old, new, T)
    BY <2>2, <2>3, <2>6, <2>10, <2>11 DEF Relinked
  <2> QED BY <2>1, <2>12 DEF new
<1> QED BY <1>1, <1>2

IsLinking(f, ls, targets) ==
  f = [n \in 0 .. Len(targets) |-> IF n = 0 THEN ls ELSE LinkFirst(f[n - 1], targets[n])]

\* What a single link leaves as it is, all of them do.
LEMMA MentionsIn ==
  ASSUME NEW S, NEW ls \in S, NEW T, NEW targets \in Seq(T),
         \A s \in S, t \in T : LinkFirst(s, t) \in S
  PROVE  LinkMentions(ls, targets) \in S
<1> DEFINE n == Len(targets)
           F == [p \in S \X (1 .. n) |-> LinkFirst(p[1], targets[p[2]])]
           h == CHOOSE x : IsLinking(x, ls, targets)
<1>0. n \in Nat /\ \A i \in 1 .. n : targets[i] \in T
  OBVIOUS
<1>1. ls \in S
  OBVIOUS
<1>2. \A s \in S, i \in 1 .. n : LinkFirst(s, targets[i]) \in S
  BY <1>0
<1>3. F \in [S \X (1 .. n) -> S]
  BY <1>2
<1>4. \A s \in S, i \in 1 .. n : F[<<s, i>>] = LinkFirst(s, targets[i])
  OBVIOUS
<1> HIDE DEF F
<1>5. PICK f : Solves(f, n, S, ls, F)
  BY <1>0, <1>1, <1>3, Recursion
<1>6. f \in [0 .. n -> S] /\ f[0] = ls
  BY <1>5 DEF Solves
<1>7. ASSUME NEW i \in 1 .. n PROVE f[i] = LinkFirst(f[i - 1], targets[i])
  <2>1. i - 1 \in 0 .. n /\ f[i - 1] \in S
    BY <1>0, <1>6
  <2> QED BY <1>4, <1>5, <2>1 DEF Solves
<1>8. IsLinking(f, ls, targets)
  <2>1. ASSUME NEW i \in 0 .. n
        PROVE  f[i] = IF i = 0 THEN ls ELSE LinkFirst(f[i - 1], targets[i])
    <3>1. i = 0 \/ i \in 1 .. n
      BY <1>0
    <3> QED BY <1>6, <1>7, <3>1
  <2> QED BY <1>6, <2>1 DEF IsLinking
<1>9. IsLinking(h, ls, targets)
  BY <1>8
<1>10. LinkMentions(ls, targets) = h[n]
  BY DEF LinkMentions, IsLinking
<1> HIDE DEF h
<1> DEFINE T2 == {i \in 0 .. n : h[i] = f[i]}
<1>11. 0 \in T2
  <2>1. 0 \in 0 .. n
    BY <1>0
  <2>2. h[0] = f[0]
    BY <1>6, <1>9, <2>1 DEF IsLinking
  <2> QED BY <2>1, <2>2
<1>12. ASSUME NEW i \in 1 .. n, i - 1 \in T2 PROVE i \in T2
  <2>1. i \in 0 .. n /\ i # 0
    BY <1>0
  <2>2. h[i] = LinkFirst(h[i - 1], targets[i])
    BY <1>9, <2>1 DEF IsLinking
  <2>3. h[i] = f[i]
    BY <1>7, <1>12, <2>2
  <2> QED BY <2>1, <2>3
<1> HIDE DEF T2
<1>13. n \in T2
  <2>1. \A i \in 1 .. n : i - 1 \in T2 => i \in T2
    BY <1>12
  <2> QED BY <1>0, <1>11, <2>1, UpTo, Zenon
<1>14. LinkMentions(ls, targets) \in S
  BY <1>0, <1>6, <1>10, <1>13 DEF T2
<1> QED BY <1>14

LEMMA MentionsRelinked ==
  ASSUME NEW ls \in Seq(NoteLine), NEW T, \A t \in T : t.name \in Text,
         NEW targets \in Seq(T)
  PROVE  Relinked(ls, LinkMentions(ls, targets), T)
<1> DEFINE S == {s \in Seq(NoteLine) : Relinked(ls, s, T)}
<1>1. ls \in S
  <2>1. \A i \in DOMAIN ls : Turned(ls[i], ls[i], T)
    BY DEF Turned
  <2>2. \A m : Count(Link(m), ls) <= Count(Link(m), ls)
    BY AtType
  <2>3. Relinked(ls, ls, T)
    BY <2>1, <2>2 DEF Relinked
  <2> QED BY <2>3
<1>2. ASSUME NEW s \in S, NEW t \in T PROVE LinkFirst(s, t) \in S
  <2>1. Relinked(ls, LinkFirst(s, t), T)
    BY RelinkedStep
  <2> QED BY <2>1 DEF Relinked
<1> HIDE DEF S
<1>3. LinkMentions(ls, targets) \in S
  BY <1>1, <1>2, MentionsIn
<1> QED BY <1>3 DEF S

\* Only notes of the vault are linked, and looked for under a key of theirs.
LEMMA ResolvedType ==
  ASSUME NEW names, names \subseteq Text, NEW entities \in Seq(Text)
  PROVE  Resolved(entities, names)
           \in Seq({t \in [entity : Range(entities), name : Text] :
                      t.name \in names /\ t.entity \in Keys(t.name)})
<1> DEFINE Stem(n) == Filed(entities[n], names)
           new == {n \in DOMAIN entities :
                     Stem(n) # "" /\ \A m \in 1 .. (n - 1) : Stem(m) # Stem(n)}
           s == [n \in DOMAIN entities |-> [entity |-> entities[n], name |-> Stem(n)]]
           S == {t \in [entity : Range(entities), name : Text] :
                   t.name \in names /\ t.entity \in Keys(t.name)}
<1>1. ASSUME NEW key, Filed(key, names) # ""
      PROVE  Filed(key, names) \in names /\ key \in Keys(Filed(key, names))
  <2> DEFINE claims == {n \in names : key \in Keys(n)}
  <2>1. Cardinality(claims) = 1 /\ Filed(key, names) = CHOOSE n \in claims : TRUE
    BY <1>1, Zenon DEF Filed
  <2>2. claims # {}
    <3> HIDE DEF claims
    <3>1. Cardinality({}) = 0
      BY FS_EmptySet
    <3>2. ASSUME claims = {} PROVE FALSE
      <4>1. Cardinality(claims) = Cardinality({})
        BY <3>2, Zenon
      <4>2. 0 # 1
        OBVIOUS
      <4> QED BY <2>1, <3>1, <4>1, <4>2, Zenon
    <3> QED BY <3>2
  <2> HIDE DEF claims
  <2>3. (CHOOSE n \in claims : TRUE) \in claims
    BY <2>2, Zenon
  <2>4. claims \subseteq names /\ \A n \in claims : key \in Keys(n)
    BY DEF claims
  <2> QED BY <2>1, <2>3, <2>4, Zenon
<1>2. Len(entities) \in Nat /\ DOMAIN entities = 1 .. Len(entities)
  BY Whole
<1>3. ASSUME NEW i \in 1 .. Len(entities), i \in new PROVE s[i] \in S
  <2>1. Stem(i) \in names /\ entities[i] \in Keys(Stem(i))
    <3>1. Stem(i) # ""
      BY <1>3, Zenon
    <3> QED BY <1>1, <3>1, Zenon
  <2>2. entities[i] \in Range(entities)
    BY <1>2 DEF Range
  <2>3. s[i] = [entity |-> entities[i], name |-> Stem(i)]
    BY <1>2
  <2> HIDE DEF Stem, s
  <2>4. Stem(i) \in Text
    BY <2>1
  <2>5. /\ s[i] \in [entity : Range(entities), name : Text]
        /\ s[i].name = Stem(i) /\ s[i].entity = entities[i]
    <3>1. \A a \in Range(entities), b \in Text :
            /\ [entity |-> a, name |-> b] \in [entity : Range(entities), name : Text]
            /\ [entity |-> a, name |-> b].name = b /\ [entity |-> a, name |-> b].entity = a
      OBVIOUS
    <3> QED BY <2>2, <2>3, <2>4, <3>1
  <2> QED BY <2>1, <2>5
<1>4. DOMAIN s = 1 .. Len(entities)
  BY <1>2
<1>5. Resolved(entities, names) = Lines(s, new)
  BY DEF Resolved
<1> HIDE DEF s, new, S
<1>6. Lines(s, new) \in Seq(S)
  BY <1>2, <1>3, <1>4, LinesType
<1> QED BY <1>5, <1>6 DEF S

-----------------------------------------------------------------------------
(* The section of related notes, and what is written back.                 *)

\* A longer first part has no less of a line.
LEMMA PrefixCount ==
  ASSUME NEW S, NEW ls \in Seq(S), NEW k \in 0 .. Len(ls), NEW m \in 0 .. k, NEW l
  PROVE  Count(l, SubSeq(ls, 1, m)) <= Count(l, SubSeq(ls, 1, k))
<1>0. Len(ls) \in Nat /\ DOMAIN ls = 1 .. Len(ls)
  BY Whole
<1>1. /\ SubSeq(ls, 1, m) \in Seq(S) /\ SubSeq(ls, 1, k) \in Seq(S)
      /\ DOMAIN SubSeq(ls, 1, m) = 1 .. m /\ DOMAIN SubSeq(ls, 1, k) = 1 .. k
      /\ \A i \in 1 .. m : SubSeq(ls, 1, m)[i] = ls[i]
      /\ \A i \in 1 .. k : SubSeq(ls, 1, k)[i] = ls[i]
  BY <1>0, SubSeqProperties
<1>2. At(l, SubSeq(ls, 1, m)) \subseteq At(l, SubSeq(ls, 1, k))
  BY <1>0, <1>1 DEF At
<1>3. IsFiniteSet(At(l, SubSeq(ls, 1, k)))
  BY <1>1, AtType
<1> QED BY <1>2, <1>3, FS_Subset DEF Count

\* The linker's own section is taken out, and nothing when the note has none.
LEMMA StripCount ==
  ASSUME NEW ls \in Seq(NoteLine)
  PROVE  /\ StripRelated(ls) \in Seq(NoteLine)
         /\ \A l : Count(l, StripRelated(ls)) <= Count(l, ls)
         /\ (\A i \in DOMAIN ls : ls[i].kind = "head" => ls[i].text # RelatedNotes)
              => StripRelated(ls) = ls
<1> DEFINE named == {i \in DOMAIN ls : ls[i].kind = "head" /\ ls[i].text = RelatedNotes}
           next == {i \in DOMAIN ls : i > Min(named) /\ ls[i].kind = "head" /\ ls[i].level <= 2}
           end == IF next = {} THEN Len(ls) + 1 ELSE Min(next)
           m == Min(named)
           above == SubSeq(ls, 1, m - 1)
           below == SubSeq(ls, end, Len(ls))
<1>0. Len(ls) \in Nat /\ DOMAIN ls = 1 .. Len(ls)
  BY Whole
<1>1. StripRelated(ls) = IF named = {} THEN ls ELSE TrimEnd(above \o below)
  BY DEF StripRelated
<1>2. CASE named = {}
  <2>1. StripRelated(ls) = ls
    BY <1>1, <1>2
  <2>2. \A l : Count(l, ls) <= Count(l, ls)
    BY AtType
  <2> QED BY <2>1, <2>2
<1>3. CASE named # {}
  <2>1. m \in 1 .. Len(ls) /\ m \in named
    <3>1. named \subseteq 1 .. Len(ls)
      BY <1>0
    <3> HIDE DEF named
    <3> QED BY <1>0, <1>3, <3>1, MinIn
  <2>2. end \in m + 1 .. Len(ls) + 1
    <3>1. CASE next = {}
      BY <1>0, <2>1, <3>1
    <3>2. CASE next # {}
      <4>1. next \subseteq 1 .. Len(ls) /\ \A i \in next : i > m
        BY <1>0
      <4>2. end = Min(next)
        BY <3>2
      <4> HIDE DEF next, end, m
      <4>3. end \in next
        BY <1>0, <3>2, <4>1, <4>2, MinIn
      <4> QED BY <1>0, <2>1, <4>1, <4>3
    <3> QED BY <3>1, <3>2
  <2>3. StripRelated(ls) = TrimEnd(above \o below) /\ named # {}
    BY <1>1, <1>3
  <2>4. ~ \A i \in DOMAIN ls : ls[i].kind = "head" => ls[i].text # RelatedNotes
    BY <2>1
  <2> HIDE DEF named, next, end, m
  <2>5. m - 1 \in 0 .. end - 1 /\ end - 1 \in 0 .. Len(ls) /\ (end - 1) + 1 = end
    BY <1>0, <2>1, <2>2
  <2>6. /\ above \in Seq(NoteLine) /\ below \in Seq(NoteLine)
        /\ \A l : Count(l, ls) = Count(l, SubSeq(ls, 1, end - 1)) + Count(l, below)
    <3>1. m - 1 \in 0 .. Len(ls)
      BY <1>0, <2>5
    <3>2. above \in Seq(NoteLine)
      BY <3>1, CountCut
    <3>3. \A l : /\ SubSeq(ls, (end - 1) + 1, Len(ls)) \in Seq(NoteLine)
                 /\ Count(l, ls) = Count(l, SubSeq(ls, 1, end - 1))
                                     + Count(l, SubSeq(ls, (end - 1) + 1, Len(ls)))
      BY <2>5, CountCut
    <3> QED BY <2>5, <3>2, <3>3
  <2>7. \A l : Count(l, above) <= Count(l, SubSeq(ls, 1, end - 1))
    BY <2>5, PrefixCount
  <2>8. SubSeq(ls, 1, end - 1) \in Seq(NoteLine)
    BY <2>5, CountCut
  <2> HIDE DEF above, below
  <2>9. above \o below \in Seq(NoteLine)
    BY <2>6, ConcatProperties
  <2>10. TrimEnd(above \o below) \in Seq(NoteLine)
    BY <2>9, TrimEndCount
  <2>11. ASSUME NEW l PROVE Count(l, TrimEnd(above \o below)) <= Count(l, ls)
    <3>1. Count(l, above \o below) = Count(l, above) + Count(l, below)
      BY <2>6, CountConcat
    <3>2. Count(l, TrimEnd(above \o below)) <= Count(l, above \o below)
      BY <2>9, TrimEndCount
    <3>3. /\ Count(l, above) \in Nat /\ Count(l, below) \in Nat
          /\ Count(l, SubSeq(ls, 1, end - 1)) \in Nat
          /\ Count(l, TrimEnd(above \o below)) \in Nat /\ Count(l, above \o below) \in Nat
      BY <2>6, <2>8, <2>9, <2>10, AtType
    <3>4. Count(l, ls) = Count(l, SubSeq(ls, 1, end - 1)) + Count(l, below)
      BY <2>6
    <3>5. Count(l, above) <= Count(l, SubSeq(ls, 1, end - 1))
      BY <2>7
    <3> QED BY <3>1, <3>2, <3>3, <3>4, <3>5
  <2> QED BY <2>3, <2>4, <2>10, <2>11
<1> QED BY <1>2, <1>3

\* The section names what the tool answered; the text above it stays.
LEMMA AppendCount ==
  ASSUME NEW ls \in Seq(NoteLine), NEW related \in Seq(Text)
  PROVE  /\ AppendRelated(ls, related) \in Seq(NoteLine)
         /\ \A l : l.kind \notin {"head", "blank", "item"}
                     => Count(l, AppendRelated(ls, related)) = Count(l, ls)
         /\ \A l : l # Blank => Count(l, AppendRelated(ls, related)) >= Count(l, ls)
         /\ \A n : Item(n) \in Range(AppendRelated(ls, related))
                     => Item(n) \in Range(ls) \/ n \in Range(related)
<1> DEFINE K == {n \in DOMAIN related : related[n] \notin Unlinkable}
           names == Rendered(related)
           items == [n \in DOMAIN names |-> Item(names[n])]
           title == <<Blank, Heading(2, 0, RelatedNotes), Blank>>
           new == TrimEnd(ls) \o title \o items
<1>1. AppendRelated(ls, related) = IF names = <<>> THEN ls ELSE new
  BY DEF AppendRelated
<1>2. names \in Seq(Range(related)) /\ Range(related) \subseteq Text
  <2>1. /\ Len(related) \in Nat /\ DOMAIN related = 1 .. Len(related)
        /\ \A i \in DOMAIN related : related[i] \in Text
    BY Whole
  <2>2. \A i \in 1 .. Len(related) : i \in K => related[i] \in Range(related)
    BY <2>1 DEF Range
  <2> DEFINE R == Range(related)
  <2> HIDE DEF K, R
  <2>3. Lines(related, K) \in Seq(R)
    BY <2>1, <2>2, LinesType DEF R
  <2>4. R \subseteq Text
    BY <2>1 DEF R, Range
  <2> QED BY <2>3, <2>4 DEF K, R, Rendered
<1> HIDE DEF names
<1>3. Len(names) \in Nat /\ DOMAIN names = 1 .. Len(names)
  BY <1>2, Whole
<1>4. \A n \in 1 .. Len(names) :
        /\ names[n] \in Range(related) /\ items[n] = Item(names[n])
        /\ items[n] \in NoteLine /\ items[n].kind = "item" /\ items[n].text = names[n]
  <2> SUFFICES ASSUME NEW n \in 1 .. Len(names)
               PROVE  /\ names[n] \in Range(related) /\ items[n] = Item(names[n])
                      /\ items[n] \in NoteLine /\ items[n].kind = "item"
                      /\ items[n].text = names[n]
    OBVIOUS
  <2>1. names[n] \in Range(related) /\ names[n] \in Text
    BY <1>2
  <2>2. items[n] = Item(names[n])
    BY <1>3
  <2> HIDE DEF items
  <2> QED BY <2>1, <2>2, LineTypes, LineKinds
<1>5. items = [n \in 1 .. Len(names) |-> items[n]] /\ DOMAIN items = 1 .. Len(names)
  BY <1>3
<1> HIDE DEF items
<1>6. items \in Seq(NoteLine)
  BY <1>3, <1>4, <1>5
<1>7. RelatedNotes \in Text
  BY TextAssumption
<1>8. PICK t \in Seq(NoteLine) : t = title
  <2>1. Heading(2, 0, RelatedNotes) \in NoteLine /\ Blank \in NoteLine
    BY <1>7, LineTypes
  <2>2. title \in Seq(NoteLine)
    BY <2>1
  <2> QED BY <2>2
<1>9. Len(t) = 3 /\ t[1] = Blank /\ t[2] = Heading(2, 0, RelatedNotes) /\ t[3] = Blank
  BY <1>8
<1>10. \A i \in DOMAIN t : t[i].kind \in {"head", "blank"}
  <2>1. DOMAIN t = 1 .. 3
    BY <1>9
  <2> QED BY <1>9, <2>1, LineKinds
<1> DEFINE trimmed == TrimEnd(ls)
<1>11. trimmed \in Seq(NoteLine) /\ new = (trimmed \o t) \o items
  BY <1>8, TrimEndCount
<1> HIDE DEF trimmed, title, new
<1>12. trimmed \o t \in Seq(NoteLine) /\ new \in Seq(NoteLine)
  BY <1>6, <1>11, ConcatProperties
<1>13. ASSUME NEW l
       PROVE  Count(l, new) = Count(l, trimmed) + Count(l, t) + Count(l, items)
  <2>1. Count(l, new) = Count(l, trimmed \o t) + Count(l, items)
    BY <1>6, <1>11, <1>12, CountConcat
  <2>2. Count(l, trimmed \o t) = Count(l, trimmed) + Count(l, t)
    BY <1>11, CountConcat
  <2> QED BY <2>1, <2>2
<1>14. ASSUME NEW l, l.kind \notin {"head", "blank"}
       PROVE  Count(l, t) = 0 /\ Count(l, trimmed) = Count(l, ls) /\ Count(l, ls) \in Nat
  <2>1. \A i \in DOMAIN t : t[i] # l
    BY <1>10, <1>14
  <2>2. l # Blank
    BY <1>14, LineKinds
  <2> QED BY <2>1, <2>2, CountNone, TrimEndCount, AtType DEF trimmed
<1>15. ASSUME NEW l, l.kind \notin {"head", "blank", "item"}
       PROVE  Count(l, new) = Count(l, ls)
  <2>1. \A i \in DOMAIN items : items[i] # l
    BY <1>4, <1>5, <1>15
  <2>2. Count(l, items) = 0
    BY <2>1, CountNone
  <2>3. Count(l, t) = 0 /\ Count(l, trimmed) = Count(l, ls) /\ Count(l, ls) \in Nat
    BY <1>14, <1>15
  <2> QED BY <1>13, <2>2, <2>3
<1>16. ASSUME NEW l, l # Blank
       PROVE  Count(l, new) >= Count(l, ls) /\ Count(l, ls) >= Count(l, ls)
  <2>1. Count(l, trimmed) = Count(l, ls)
    BY <1>16, TrimEndCount DEF trimmed
  <2>2. Count(l, t) \in Nat /\ Count(l, items) \in Nat /\ Count(l, ls) \in Nat
    BY <1>6, AtType
  <2> QED BY <1>13, <2>1, <2>2
<1>17. ASSUME NEW n, Item(n) \in Range(new)
       PROVE  Item(n) \in Range(ls) \/ n \in Range(related)
  <2>1. Item(n).kind = "item" /\ Item(n).text = n
    BY LineKinds
  <2>2. Count(Item(n), new) > 0
    BY <1>12, <1>17, CountMember
  <2>3. Count(Item(n), new) = Count(Item(n), ls) + 0 + Count(Item(n), items)
    BY <1>13, <1>14, <2>1
  <2>4. Count(Item(n), ls) > 0 \/ Count(Item(n), items) > 0
    <3>1. Count(Item(n), ls) \in Nat /\ Count(Item(n), items) \in Nat
      BY <1>6, AtType
    <3> QED BY <2>2, <2>3, <3>1
  <2>5. CASE Count(Item(n), ls) > 0
    BY <2>5, CountMember
  <2>6. CASE Count(Item(n), items) > 0
    <3>1. Item(n) \in Range(items)
      BY <1>6, <2>6, CountMember
    <3>2. PICK i \in 1 .. Len(names) : items[i] = Item(n)
      BY <1>5, <3>1 DEF Range
    <3> QED BY <1>4, <2>1, <3>2
  <2> QED BY <2>4, <2>5, <2>6
<1>18. \A n : Item(n) \in Range(ls) => Item(n) \in Range(ls) \/ n \in Range(related)
  OBVIOUS
<1> QED BY <1>1, <1>12, <1>15, <1>17, <1>18, <1>16

\* What _write_back takes of a note that lost its frontmatter is part of it.
LEMMA UnfencedCount ==
  ASSUME NEW ls \in Seq(NoteLine), NEW l
  PROVE  Unfenced(ls) \in Seq(NoteLine) /\ Count(l, Unfenced(ls)) <= Count(l, ls)
<1> DEFINE last == Len(ls)
           opens == {i \in 1 .. (last - 2) :
                       ls[i] = ls[last] /\ SubSeq(ls, i + 1, last - 1) # <<Blank>>}
           anchor == {i \in DOMAIN ls : ls[i] = Rule \/ ls[i].kind = "head"}
           wrapped == opens # {} /\ ls[last].kind \in Strict /\ 1 \notin anchor
<1>0. last \in Nat /\ DOMAIN ls = 1 .. last
  BY Whole
<1>1. CASE wrapped
  <2>1. Unfenced(ls) = SubSeq(ls, Min(opens) + 1, last - 1)
    BY <1>1 DEF Unfenced
  <2>2. opens \subseteq 1 .. last /\ opens \subseteq 1 .. (last - 2)
    BY <1>0
  <2>3. opens # {}
    BY <1>1
  <2> HIDE DEF opens
  <2>4. Min(opens) \in 1 .. (last - 2)
    BY <1>0, <2>2, <2>3, MinIn
  <2>5. Min(opens) + 1 \in 1 .. last + 1 /\ last - 1 \in 0 .. last
    BY <1>0, <2>4
  <2> HIDE DEF last
  <2> QED BY <2>1, <2>5, PartCount DEF last
<1>2. CASE ~wrapped /\ anchor = {}
  <2>1. Unfenced(ls) = ls
    BY <1>2 DEF Unfenced
  <2> QED BY <2>1, AtType
<1>3. CASE ~wrapped /\ anchor # {}
  <2>1. Unfenced(ls) = SubSeq(ls, Min(anchor), last)
    BY <1>3 DEF Unfenced
  <2>2. anchor \subseteq 1 .. last
    BY <1>0
  <2>3. anchor # {}
    BY <1>3
  <2> HIDE DEF anchor, last
  <2>4. Min(anchor) \in 1 .. last
    BY <1>0, <2>2, <2>3, MinIn
  <2>5. Min(anchor) \in 1 .. last + 1 /\ last \in 0 .. last
    BY <1>0, <2>4
  <2> QED BY <2>1, <2>5, PartCount DEF last
<1> QED BY <1>1, <1>2, <1>3

\* What is about to be written has no more of a line of text than what the stage
\* made, and all of it while the note has its frontmatter.
LEMMA CandidateCount ==
  ASSUME NEW body \in Seq(NoteLine)
  PROVE  /\ Normalise(Candidate(body)) \in Seq(NoteLine)
         /\ \A l : l # Blank /\ l # Rule =>
              /\ Count(l, Normalise(Candidate(body))) <= Count(l, body)
              /\ held.fm # NoFrontmatter
                   => Count(l, Normalise(Candidate(body))) = Count(l, body)
<1>1. /\ Candidate(body) \in Seq(NoteLine)
      /\ \A l : l # Blank =>
           /\ Count(l, Candidate(body)) <= Count(l, body)
           /\ held.fm # NoFrontmatter => Count(l, Candidate(body)) = Count(l, body)
  <2>1. CASE held.fm = NoFrontmatter
    <3>1. PICK a : a = Trim(body)
      OBVIOUS
    <3>2. a \in Seq(NoteLine) /\ \A l : Count(l, a) <= Count(l, body)
      BY <3>1, TrimCount
    <3>3. PICK b : b = Unfenced(a)
      OBVIOUS
    <3>4. b \in Seq(NoteLine) /\ \A l : Count(l, b) <= Count(l, a)
      BY <3>2, <3>3, UnfencedCount
    <3>5. PICK c : c = Trim(b)
      OBVIOUS
    <3>6. c \in Seq(NoteLine) /\ \A l : Count(l, c) <= Count(l, b)
      BY <3>4, <3>5, TrimCount
    <3>7. Candidate(body) = c
      BY <2>1, <3>1, <3>3, <3>5 DEF Candidate
    <3>8. \A l : /\ Count(l, a) \in Nat /\ Count(l, b) \in Nat
                 /\ Count(l, c) \in Nat /\ Count(l, body) \in Nat
      BY <3>2, <3>4, <3>6, AtType
    <3>9. \A l : Count(l, c) <= Count(l, body)
      BY <3>2, <3>4, <3>6, <3>8
    <3> QED BY <2>1, <3>6, <3>7, <3>9
  <2>2. CASE held.fm # NoFrontmatter
    <3>1. Candidate(body) = TrimEnd(body)
      BY <2>2 DEF Candidate
    <3> QED BY <3>1, TrimEndCount
  <2> QED BY <2>1, <2>2
<1> DEFINE c == Candidate(body)
<1> HIDE DEF c
<1>2. c \in Seq(NoteLine)
  BY <1>1 DEF c
<1>3. Normalise(c) \in Seq(NoteLine) /\ \A l : l # Blank /\ l # Rule => Count(l, Normalise(c)) = Count(l, c)
  BY <1>2, NormaliseCount
<1> QED BY <1>1, <1>3 DEF c

-----------------------------------------------------------------------------
(* The stages.                                                             *)

\* What assembly writes is made of headings, blank lines and the texts, the title first.
LEMMA AssembledIn ==
  ASSUME NEW S, Blank \in S, \A m \in {1, 2}, t \in Text : Heading(m, 0, t) \in S,
         NEW plan \in Seq(Text), NEW chunks, \A i \in DOMAIN plan : Trim(chunks[i]) \in Seq(S)
  PROVE  /\ Assembled(Topic, plan, chunks) \in Seq(S)
         /\ Len(Assembled(Topic, plan, chunks)) >= 2
         /\ Assembled(Topic, plan, chunks)[1] = Blank
         /\ Assembled(Topic, plan, chunks)[2] = Heading(1, 0, Topic)
<1> DEFINE n == Len(plan)
           Part(i) == <<Heading(2, 0, plan[i]), Blank>> \o Trim(chunks[i]) \o <<Blank>>
           g == [i \in DOMAIN plan |-> Part(i)]
           title == <<Blank, Heading(1, 0, Topic), Blank>>
           all == Assembled(Topic, plan, chunks)
<1>1. Topic \in Text
  BY NoteEditsAssumption
<1>2. n \in Nat /\ DOMAIN plan = 1 .. n /\ \A i \in 1 .. n : plan[i] \in Text
  BY Whole
<1>3. ASSUME NEW i \in 1 .. n PROVE Part(i) \in Seq(S)
  <2>1. PICK s \in Seq(S) : s = Trim(chunks[i])
    BY <1>2
  <2>2. PICK h \in Seq(S) : h = <<Heading(2, 0, plan[i]), Blank>>
    <3>1. Heading(2, 0, plan[i]) \in S
      BY <1>2
    <3>2. <<Heading(2, 0, plan[i]), Blank>> \in Seq(S)
      BY <3>1
    <3> QED BY <3>2
  <2>3. PICK b \in Seq(S) : b = <<Blank>>
    <3>1. <<Blank>> \in Seq(S)
      OBVIOUS
    <3> QED BY <3>1
  <2>4. Part(i) = (h \o s) \o b
    BY <2>1, <2>2, <2>3
  <2> HIDE DEF Part
  <2> QED BY <2>4, ConcatProperties
<1>4. g = [i \in 1 .. n |-> Part(i)]
  BY <1>2
<1> HIDE DEF Part
<1>5. g \in [1 .. n -> Seq(S)]
  BY <1>3, <1>4
<1>6. all = title \o FlattenSeq(g)
  BY DEF Assembled, Part
<1> HIDE DEF g
<1>7. PICK f \in Seq(S) : f = FlattenSeq(g)
  <2>1. PICK f \in [0 .. n -> Seq(S)] :
          /\ f[0] = <<>> /\ \A i \in 1 .. n : f[i] = f[i - 1] \o g[i]
          /\ FlattenSeq(g) = f[n]
    BY <1>2, <1>5, Flattened
  <2>2. f[n] \in Seq(S)
    BY <1>2
  <2> QED BY <2>1, <2>2
<1>8. PICK t \in Seq(S) : t = title
  <2>1. Heading(1, 0, Topic) \in S
    BY <1>1
  <2>2. title \in Seq(S)
    BY <2>1
  <2> QED BY <2>2
<1> HIDE DEF all
<1>9. all = t \o f /\ Len(t) = 3 /\ t[1] = Blank /\ t[2] = Heading(1, 0, Topic)
  BY <1>6, <1>7, <1>8
<1>10. all \in Seq(S) /\ Len(all) >= 2
  BY <1>9, ConcatProperties
<1>11. all[1] = t[1] /\ all[2] = t[2]
  <2> DEFINE c == t \o f
             k == Len(f)
             m == Len(t)
  <2>1. \A i \in 1 .. m + k : c[i] = IF i <= m THEN t[i] ELSE f[i - m]
    BY ConcatProperties
  <2>2. k \in Nat /\ m = 3
    BY <1>9
  <2> HIDE DEF c, k, m
  <2>3. 1 \in 1 .. m + k /\ 2 \in 1 .. m + k
    BY <2>2
  <2>4. c[1] = t[1] /\ c[2] = t[2]
    BY <2>1, <2>2, <2>3
  <2> QED BY <1>9, <2>4 DEF c
<1> QED BY <1>9, <1>10, <1>11 DEF all

LEMMA UnwrappedIn ==
  ASSUME NEW S, NEW r \in Seq(S), \A l \in S : l.kind = "link" => Para(l.text) \in S
  PROVE  Unwrapped(r, Names) \in Seq(S)
<1> DEFINE New(i) == IF r[i].kind = "link" /\ r[i].text \notin Names
                     THEN Para(r[i].text) ELSE r[i]
           safe == Unwrapped(r, Names)
<1>1. Len(r) \in Nat /\ DOMAIN r = 1 .. Len(r)
  BY Whole
<1>2. ASSUME NEW i \in 1 .. Len(r) PROVE New(i) \in S
  BY <1>1
<1>3. safe = [i \in 1 .. Len(r) |-> New(i)]
  BY <1>1 DEF Unwrapped
<1> HIDE DEF New, safe
<1>4. safe \in Seq(S)
  BY <1>1, <1>2, <1>3
<1> QED BY <1>4 DEF safe

\* What assembly puts in the vault is a note.
LEMMA PlacedType ==
  ASSUME NEW plan \in Plan, NEW chunks \in [DOMAIN plan -> Chunk]
  PROVE  Placed(plan, chunks) \in Seq(NoteLine)
<1> DEFINE all == Assembled(Topic, plan, chunks)
           safe == Unwrapped(TrimEnd(all), Names)
<1>1. plan \in Seq(Text) /\ Chunk \subseteq Seq(NoteLine)
  BY NoteEditsAssumption
<1>2. all \in Seq(NoteLine)
  <2>1. \A i \in DOMAIN plan : Trim(chunks[i]) \in Seq(NoteLine)
    BY <1>1, TrimCount
  <2>2. Blank \in NoteLine /\ \A m \in {1, 2}, t \in Text : Heading(m, 0, t) \in NoteLine
    BY LineTypes
  <2> HIDE DEF all
  <2> QED BY <1>1, <2>1, <2>2, AssembledIn DEF all
<1>3. TrimEnd(all) \in Seq(NoteLine)
  BY <1>2, TrimEndCount
<1>4. \A l \in NoteLine : Para(l.text) \in NoteLine
  <2>1. \A l \in NoteLine : l.text \in Text
    BY DEF NoteLine
  <2> QED BY <2>1, LineTypes
<1>5. safe \in Seq(NoteLine)
  BY <1>3, <1>4, UnwrappedIn
<1>6. Placed(plan, chunks) = Normalise(Append(safe, Blank))
  BY DEF Placed
<1> HIDE DEF safe
<1>7. Append(safe, Blank) \in Seq(NoteLine)
  BY <1>5, LineTypes
<1> QED BY <1>6, <1>7, NormaliseCount

LEMMA FitApart ==
  ASSUME NEW ls, Fit(ls)
  PROVE  Apart(ls)
BY DEF Fit, Apart

\* A text that has no heading of its own is as fit as the one it is made of.
LEMMA HeadsFrom ==
  ASSUME NEW a \in Seq(NoteLine), NEW b \in Seq(NoteLine),
         \A h : h.kind = "head" => Count(h, b) <= Count(h, a)
  PROVE  (Fit(a) => Fit(b)) /\ (Apart(a) => Apart(b))
<1>1. ASSUME NEW h \in Range(b), h.kind = "head" PROVE h \in Range(a)
  <2>1. Count(h, b) > 0
    BY <1>1, CountMember
  <2>2. Count(h, b) <= Count(h, a)
    BY <1>1
  <2>3. Count(h, b) \in Nat /\ Count(h, a) \in Nat
    BY AtType
  <2>4. Count(h, a) > 0
    BY <2>1, <2>2, <2>3
  <2> QED BY <2>4, CountMember
<1> QED BY <1>1 DEF Fit, Apart

LEMMA KeepsFrom ==
  ASSUME NEW a \in Seq(NoteLine), NEW b \in Seq(NoteLine),
         \A m \in Range(Mine) : Count(Para(m), b) = Count(Para(m), a)
  PROVE  KeepsMine(a, b)
<1> SUFFICES ASSUME NEW m \in Range(Mine), Para(m) \in Range(a) PROVE Para(m) \in Range(b)
  BY DEF KeepsMine
<1>1. Count(Para(m), a) > 0
  BY CountMember
<1>2. Count(Para(m), b) > 0
  BY <1>1
<1> QED BY <1>2, CountMember

\* The lines in question are neither blank nor rules.
LEMMA Solid ==
  /\ \A n : Link(n) # Blank /\ Link(n) # Rule /\ Link(n).kind = "link"
  /\ \A n : Item(n) # Blank /\ Item(n) # Rule /\ Item(n).kind = "item"
  /\ \A m : Para(m) # Blank /\ Para(m) # Rule /\ Para(m).kind = "para"
  /\ \A h : h.kind = "head" => h # Blank /\ h # Rule
BY LineKinds

LEMMA WovenText ==
  ASSUME NEW ls \in Seq(NoteLine), NEW chosen
  PROVE  /\ Splice(ls, chosen) \in Seq(NoteLine)
         /\ FewFrom(ls, Splice(ls, chosen)) /\ KeepsMine(ls, Splice(ls, chosen))
         /\ Fit(ls) => Fit(Splice(ls, chosen))
<1> DEFINE b == Splice(ls, chosen)
<1>1. b \in Seq(NoteLine) /\ \A l : l # Blank /\ l.kind # "trans" => Count(l, b) = Count(l, ls)
  BY SpliceCount
<1> HIDE DEF b
<1>2. \A l : Count(l, ls) \in Nat /\ Count(l, b) \in Nat
  BY <1>1, AtType
<1>3. \A n : Count(Link(n), b) = Count(Link(n), ls)
  BY <1>1, Solid
<1>4. \A m : Count(Para(m), b) = Count(Para(m), ls)
  BY <1>1, Solid
<1>5. \A h : h.kind = "head" => Count(h, b) = Count(h, ls)
  BY <1>1, Solid
<1>6. FewFrom(ls, b)
  BY <1>2, <1>3 DEF FewFrom
<1>7. KeepsMine(ls, b)
  BY <1>1, <1>4, KeepsFrom
<1>8. \A h : h.kind = "head" => Count(h, b) <= Count(h, ls)
  BY <1>2, <1>5
<1>9. Fit(ls) => Fit(b)
  BY <1>1, <1>8, HeadsFrom
<1> QED BY <1>1, <1>6, <1>7, <1>9 DEF b

LEMMA FormattedText ==
  ASSUME NEW ls \in Seq(NoteLine)
  PROVE  /\ ApplyStructure(ls) \in Seq(NoteLine)
         /\ FewFrom(ls, ApplyStructure(ls))
         /\ Fit(ls) => KeepsMine(ls, ApplyStructure(ls)) /\ Apart(ApplyStructure(ls))
<1> DEFINE b == ApplyStructure(ls)
<1>1. /\ b \in Seq(NoteLine)
      /\ \A l : l.kind \notin {"head", "callout", "entry", "blank"} =>
           /\ Count(l, b) <= Count(l, ls)
           /\ (\A j \in DOMAIN ls : ls[j].kind = "head" => l # Para(LinkSafe(ls[j].text)))
                => Count(l, b) = Count(l, ls)
      /\ \A h \in Range(b) : h.kind = "head" =>
           \E j \in DOMAIN ls : ls[j].kind = "head" /\ h.text \in {ls[j].text, LinkSafe(ls[j].text)}
  BY StructureCount
<1> HIDE DEF b
<1>2. FewFrom(ls, b)
  <2>1. \A n : Link(n).kind \notin {"head", "callout", "entry", "blank"}
    BY Solid
  <2> QED BY <1>1, <2>1 DEF FewFrom
<1>3. ASSUME Fit(ls) PROVE KeepsMine(ls, b) /\ Apart(b)
  <2>1. \A j \in DOMAIN ls : ls[j].kind = "head" =>
          \A t \in {RelatedNotes} \cup Range(Mine) : t \notin {ls[j].text, LinkSafe(ls[j].text)}
    BY <1>3 DEF Fit, Range
  <2>2. ASSUME NEW m \in Range(Mine) PROVE Count(Para(m), b) = Count(Para(m), ls)
    <3>1. Para(m).kind \notin {"head", "callout", "entry", "blank"}
      BY Solid
    <3>2. ASSUME NEW j \in DOMAIN ls, ls[j].kind = "head"
          PROVE  Para(m) # Para(LinkSafe(ls[j].text))
      <4>1. LinkSafe(ls[j].text) # m
        BY <2>1, <3>2
      <4>2. Para(m).text = m /\ Para(LinkSafe(ls[j].text)).text = LinkSafe(ls[j].text)
        BY LineKinds
      <4> QED BY <4>1, <4>2
    <3> QED BY <1>1, <3>1, <3>2
  <2>3. KeepsMine(ls, b)
    BY <1>1, <2>2, KeepsFrom
  <2>4. ASSUME NEW h \in Range(b), h.kind = "head" PROVE h.text # RelatedNotes
    <3>1. PICK j \in DOMAIN ls :
            ls[j].kind = "head" /\ h.text \in {ls[j].text, LinkSafe(ls[j].text)}
      BY <1>1, <2>4
    <3> QED BY <2>1, <3>1
  <2> QED BY <2>3, <2>4 DEF Apart
<1> QED BY <1>1, <1>2, <1>3 DEF b

LEMMA NotMine ==
  ASSUME NEW t \in Linked, NEW m \in Range(Mine)
  PROVE  t.name \in Text /\ m \notin {Surfaces(t)[1], Surfaces(t)[2]}
<1>1. t.name \in Text /\ t.name \in Names /\ t.entity \in Range(Entities)
  BY DEF Linked
<1>2. m \notin Names /\ m \notin Range(Entities) /\ m \notin Range(LastWord)
  BY NoteEditsAssumption
<1>3. Surfaces(t)[1] = t.name
  BY DEF Surfaces
<1>4. Surfaces(t)[2] = IF t.entity \in DOMAIN LastWord THEN LastWord[t.entity] ELSE t.entity
  BY DEF Surfaces
<1>5. Surfaces(t)[2] \in Range(LastWord) \cup Range(Entities)
  BY <1>1, <1>4 DEF Range
<1> QED BY <1>1, <1>2, <1>3, <1>5

LEMMA ConnectedText ==
  ASSUME NEW ls \in Seq(NoteLine), NEW related \in Seq(Text), NEW bare, NEW body, NEW b,
         bare = StripRelated(ls), body = LinkMentions(bare, Resolved(Entities, Names)),
         b = AppendRelated(body, related)
  PROVE  /\ b \in Seq(NoteLine) /\ FewFrom(ls, b)
         /\ Apart(ls) => KeepsMine(ls, b)
         /\ \A n : Link(n) \in Range(body) \ Range(bare) /\ n \notin Range(related)
                     => Item(n) \notin Range(b)
<1>1. /\ bare \in Seq(NoteLine) /\ \A l : Count(l, bare) <= Count(l, ls)
      /\ (\A i \in DOMAIN ls : ls[i].kind = "head" => ls[i].text # RelatedNotes) => bare = ls
  BY StripCount
<1>2. Resolved(Entities, Names) \in Seq(Linked)
  BY NoteEditsAssumption, ResolvedType DEF Linked
<1>3. Relinked(bare, body, Linked)
  <2>1. \A t \in Linked : t.name \in Text
    BY DEF Linked
  <2> QED BY <1>1, <1>2, <2>1, MentionsRelinked
<1>4. /\ body \in Seq(NoteLine) /\ Len(body) = Len(bare)
      /\ \A i \in DOMAIN bare : Turned(bare[i], body[i], Linked)
      /\ \A n : Link(n) \in Range(body) => Link(n) \in Range(bare) \/ Item(n) \notin Range(bare)
      /\ \A n : Count(Link(n), body) <= Count(Link(n), bare) \/ Count(Link(n), body) <= 1
  BY <1>3 DEF Relinked
<1>5. /\ b \in Seq(NoteLine)
      /\ \A l : l.kind \notin {"head", "blank", "item"} => Count(l, b) = Count(l, body)
      /\ \A n : Item(n) \in Range(b) => Item(n) \in Range(body) \/ n \in Range(related)
  BY <1>4, AppendCount
<1>6. DOMAIN bare = 1 .. Len(bare) /\ DOMAIN body = 1 .. Len(bare)
  BY <1>1, <1>4, Whole
<1>7. \A l : Count(l, ls) \in Nat /\ Count(l, bare) \in Nat /\ Count(l, body) \in Nat
               /\ Count(l, b) \in Nat
  BY <1>1, <1>4, <1>5, AtType
<1>8. FewFrom(ls, b)
  <2> SUFFICES ASSUME NEW n PROVE Count(Link(n), b) <= Count(Link(n), ls) \/ Count(Link(n), b) <= 1
    BY DEF FewFrom
  <2>1. Count(Link(n), b) = Count(Link(n), body)
    <3>1. Link(n).kind \notin {"head", "blank", "item"}
      BY Solid
    <3> QED BY <1>5, <3>1
  <2>2. Count(Link(n), body) <= Count(Link(n), bare) \/ Count(Link(n), body) <= 1
    BY <1>4
  <2>3. Count(Link(n), bare) <= Count(Link(n), ls)
    BY <1>1
  <2> QED BY <1>7, <2>1, <2>2, <2>3
<1>9. ASSUME Apart(ls) PROVE KeepsMine(ls, b)
  <2>1. bare = ls
    <3>1. \A i \in DOMAIN ls : ls[i].kind = "head" => ls[i].text # RelatedNotes
      BY <1>9 DEF Apart, Range
    <3> QED BY <1>1, <3>1
  <2>2. ASSUME NEW m \in Range(Mine), Para(m) \in Range(ls) PROVE Para(m) \in Range(b)
    <3>1. PICK i \in DOMAIN bare : bare[i] = Para(m)
      BY <2>1, <2>2 DEF Range
    <3>2. body[i] = Para(m)
      <4>1. bare[i].text = m
        BY <3>1, LineKinds
      <4> QED BY <1>4, <3>1, <4>1, NotMine DEF Turned
    <3>3. Para(m) \in Range(body)
      BY <1>6, <3>2 DEF Range
    <3>4. Count(Para(m), body) > 0
      BY <1>4, <3>3, CountMember
    <3>5. Count(Para(m), b) = Count(Para(m), body)
      <4>1. Para(m).kind \notin {"head", "blank", "item"}
        BY Solid
      <4> QED BY <1>5, <4>1
    <3>6. Count(Para(m), b) > 0
      BY <3>4, <3>5
    <3> QED BY <1>5, <3>6, CountMember
  <2> QED BY <2>2 DEF KeepsMine
<1>10. ASSUME NEW n, Link(n) \in Range(body), Link(n) \notin Range(bare), n \notin Range(related)
       PROVE  Item(n) \notin Range(b)
  <2>1. SUFFICES ASSUME Item(n) \in Range(body) PROVE FALSE
    BY <1>5, <1>10
  <2>2. Item(n) \notin Range(bare)
    BY <1>4, <1>10
  <2>3. PICK i \in DOMAIN bare : body[i] = Item(n)
    BY <1>6, <2>1 DEF Range
  <2>4. \A m : Item(n) # Link(m)
    <3>1. \A m : Item(n).kind # Link(m).kind
      BY LineKinds
    <3> QED BY <3>1
  <2>5. bare[i] = Item(n)
    BY <1>4, <2>3, <2>4 DEF Turned
  <2> QED BY <2>2, <2>5 DEF Range
<1> QED BY <1>5, <1>8, <1>9, <1>10

LEMMA WrittenText ==
  ASSUME NEW b \in Seq(NoteLine)
  PROVE  /\ Normalise(Candidate(b)) \in Seq(NoteLine)
         /\ FewFrom(b, Normalise(Candidate(b)))
         /\ held.fm # NoFrontmatter => KeepsMine(b, Normalise(Candidate(b)))
         /\ (Fit(b) => Fit(Normalise(Candidate(b)))) /\ (Apart(b) => Apart(Normalise(Candidate(b))))
         /\ \A n : Item(n) \notin Range(b) => Item(n) \notin Range(Normalise(Candidate(b)))
<1> DEFINE c == Normalise(Candidate(b))
<1>1. /\ c \in Seq(NoteLine)
      /\ \A l : l # Blank /\ l # Rule =>
           /\ Count(l, c) <= Count(l, b)
           /\ held.fm # NoFrontmatter => Count(l, c) = Count(l, b)
  BY CandidateCount
<1> HIDE DEF c
<1>2. FewFrom(b, c)
  BY <1>1, Solid DEF FewFrom
<1>3. held.fm # NoFrontmatter => KeepsMine(b, c)
  <2> SUFFICES ASSUME held.fm # NoFrontmatter PROVE KeepsMine(b, c)
    OBVIOUS
  <2>1. \A m \in Range(Mine) : Count(Para(m), c) = Count(Para(m), b)
    BY <1>1, Solid
  <2> QED BY <1>1, <2>1, KeepsFrom
<1>4. (Fit(b) => Fit(c)) /\ (Apart(b) => Apart(c))
  <2>1. \A h : h.kind = "head" => Count(h, c) <= Count(h, b)
    BY <1>1, Solid
  <2> QED BY <1>1, <2>1, HeadsFrom
<1>5. ASSUME NEW n, Item(n) \in Range(c) PROVE Item(n) \in Range(b)
  <2>1. Count(Item(n), c) <= Count(Item(n), b)
    BY <1>1, Solid
  <2>2. Count(Item(n), c) > 0
    BY <1>1, <1>5, CountMember
  <2>3. Count(Item(n), c) \in Nat /\ Count(Item(n), b) \in Nat
    BY <1>1, AtType
  <2>4. Count(Item(n), b) > 0
    BY <2>1, <2>2, <2>3
  <2> QED BY <2>4, CountMember
<1> QED BY <1>1, <1>2, <1>3, <1>4, <1>5 DEF c

\* What the user adds is below or above what is there.
LEMMA SavedText ==
  ASSUME NEW ls \in Seq(NoteLine), NEW m \in Text,
         NEW b \in {ls \o <<Blank, Para(m)>>, <<Para(m), Blank>> \o ls}
  PROVE  /\ b \in Seq(NoteLine) /\ FewFrom(ls, b) /\ KeepsMine(ls, b) /\ Para(m) \in Range(b)
         /\ (Fit(ls) => Fit(b)) /\ (Apart(ls) => Apart(b))
         /\ \A l : l.kind \notin {"blank", "para"} => Count(l, b) = Count(l, ls)
<1>1. Blank \in NoteLine /\ Para(m) \in NoteLine
  BY LineTypes
<1>2. PICK p \in Seq(NoteLine) : p = <<Blank>>
  <2>1. <<Blank>> \in Seq(NoteLine)
    BY <1>1
  <2> QED BY <2>1
<1>3. PICK q \in Seq(NoteLine) : q = <<Para(m)>>
  <2>1. <<Para(m)>> \in Seq(NoteLine)
    BY <1>1
  <2> QED BY <2>1
<1>4. /\ <<Blank, Para(m)>> = p \o q /\ <<Para(m), Blank>> = q \o p
      /\ p \o q \in Seq(NoteLine) /\ q \o p \in Seq(NoteLine)
  <2>1. p \o q \in Seq(NoteLine) /\ q \o p \in Seq(NoteLine)
    BY <1>2, <1>3, ConcatProperties
  <2>2. <<Blank, Para(m)>> = <<Blank>> \o <<Para(m)>> /\ <<Para(m), Blank>> = <<Para(m)>> \o <<Blank>>
    BY <1>1
  <2> QED BY <1>2, <1>3, <2>1, <2>2
<1>5. b \in Seq(NoteLine) /\ \A l : Count(l, b) = Count(l, ls) + Count(l, p) + Count(l, q)
  <2>1. CASE b = ls \o (p \o q)
    <3>1. b \in Seq(NoteLine)
      BY <1>4, <2>1, ConcatProperties
    <3>2. \A l : Count(l, b) = Count(l, ls) + Count(l, p \o q)
      BY <1>4, <2>1, CountConcat
    <3>3. \A l : Count(l, p \o q) = Count(l, p) + Count(l, q)
      BY CountConcat
    <3>4. \A l : Count(l, ls) \in Nat /\ Count(l, p) \in Nat /\ Count(l, q) \in Nat
      BY AtType
    <3> QED BY <3>1, <3>2, <3>3, <3>4
  <2>2. CASE b = (q \o p) \o ls
    <3>1. b \in Seq(NoteLine)
      BY <1>4, <2>2, ConcatProperties
    <3>2. \A l : Count(l, b) = Count(l, q \o p) + Count(l, ls)
      BY <1>4, <2>2, CountConcat
    <3>3. \A l : Count(l, q \o p) = Count(l, q) + Count(l, p)
      BY CountConcat
    <3>4. \A l : Count(l, ls) \in Nat /\ Count(l, p) \in Nat /\ Count(l, q) \in Nat
      BY AtType
    <3> QED BY <3>1, <3>2, <3>3, <3>4
  <2> QED BY <1>4, <2>1, <2>2
<1>6. \A l : /\ Count(l, b) \in Nat /\ Count(l, ls) \in Nat
             /\ Count(l, p) \in Nat /\ Count(l, q) \in Nat
  BY <1>5, AtType
<1>7. \A l : l.kind \notin {"blank", "para"} => Count(l, b) = Count(l, ls)
  <2> SUFFICES ASSUME NEW l, l.kind \notin {"blank", "para"} PROVE Count(l, b) = Count(l, ls)
    OBVIOUS
  <2>1. l # Blank /\ l # Para(m)
    BY LineKinds
  <2>2. Count(l, p) = 0 /\ Count(l, q) = 0
    BY <1>2, <1>3, <2>1, CountOne
  <2> QED BY <1>5, <1>6, <2>2
<1>8. FewFrom(ls, b)
  <2> SUFFICES ASSUME NEW n PROVE Count(Link(n), b) <= Count(Link(n), ls)
    BY DEF FewFrom
  <2>1. Link(n).kind \notin {"blank", "para"}
    BY Solid
  <2> QED BY <1>6, <1>7, <2>1
<1>9. KeepsMine(ls, b)
  <2> SUFFICES ASSUME NEW x \in Range(Mine), Para(x) \in Range(ls) PROVE Para(x) \in Range(b)
    BY DEF KeepsMine
  <2>1. Count(Para(x), ls) > 0
    BY CountMember
  <2>2. Count(Para(x), b) > 0
    BY <1>5, <1>6, <2>1
  <2> QED BY <1>5, <2>2, CountMember
<1>10. Para(m) \in Range(b)
  <2>1. Count(Para(m), q) = 1
    BY <1>3, CountOne
  <2>2. Count(Para(m), b) > 0
    BY <1>5, <1>6, <2>1
  <2> QED BY <1>5, <2>2, CountMember
<1>11. (Fit(ls) => Fit(b)) /\ (Apart(ls) => Apart(b))
  <2>1. ASSUME NEW h, h.kind = "head" PROVE Count(h, b) <= Count(h, ls)
    <3>1. Count(h, b) = Count(h, ls)
      BY <1>7, <2>1
    <3> QED BY <1>6, <3>1
  <2> QED BY <1>5, <2>1, HeadsFrom
<1> QED BY <1>5, <1>7, <1>8, <1>9, <1>10, <1>11

-----------------------------------------------------------------------------
(* The invariant.                                                          *)

LEMMA FmTypes ==
  /\ NoFrontmatter \notin Frontmatter
  /\ \A fm \in Frontmatter \cup {NoFrontmatter}, tags \in {"[]", "some"} :
       Tagged(fm, tags) \in Frontmatter /\ Tagged(fm, tags).own = fm.own
  /\ \A fm \in Frontmatter :
       /\ [fm EXCEPT !.own = TRUE] \in Frontmatter
       /\ [fm EXCEPT !.own = TRUE].own = TRUE /\ fm.own \in BOOLEAN
<1>1. NoFrontmatter \notin Frontmatter
  BY DEF NoFrontmatter, Frontmatter
<1>2. ASSUME NEW fm \in Frontmatter \cup {NoFrontmatter}, NEW tags \in {"[]", "some"}
      PROVE  Tagged(fm, tags) \in Frontmatter /\ Tagged(fm, tags).own = fm.own
  <2> DEFINE All == [tags : {"[]", "some", "none"}, own : BOOLEAN]
  <2>1. \A x \in All : [x EXCEPT !.tags = tags] \in Frontmatter /\ [x EXCEPT !.tags = tags].own = x.own
    BY DEF Frontmatter
  <2>2. NoFrontmatter \in All
    BY DEF NoFrontmatter
  <2>3. Frontmatter \subseteq All
    BY DEF Frontmatter
  <2> HIDE DEF All
  <2> QED BY <2>1, <2>2, <2>3 DEF Tagged
<1>3. ASSUME NEW fm \in Frontmatter
      PROVE  /\ [fm EXCEPT !.own = TRUE] \in Frontmatter
             /\ [fm EXCEPT !.own = TRUE].own = TRUE /\ fm.own \in BOOLEAN
  BY DEF Frontmatter
<1> QED BY <1>1, <1>2, <1>3

LEMMA NoteParts ==
  /\ \A n \in Note : n.fm \in Frontmatter \cup {NoFrontmatter} /\ n.body \in Seq(NoteLine)
  /\ \A fm \in Frontmatter \cup {NoFrontmatter}, ls \in Seq(NoteLine) :
       /\ [fm |-> fm, body |-> ls] \in Note
       /\ [fm |-> fm, body |-> ls].fm = fm /\ [fm |-> fm, body |-> ls].body = ls
  /\ \A n \in Note, ls \in Seq(NoteLine) :
       /\ [n EXCEPT !.body = ls] \in Note
       /\ [n EXCEPT !.body = ls].body = ls /\ [n EXCEPT !.body = ls].fm = n.fm
  /\ \A n \in Note, fm \in Frontmatter \cup {NoFrontmatter} :
       /\ [n EXCEPT !.fm = fm] \in Note
       /\ [n EXCEPT !.fm = fm].fm = fm /\ [n EXCEPT !.fm = fm].body = n.body
BY DEF Note

LEMMA FewStep ==
  ASSUME placed \in Seq(NoteLine), NEW a \in Seq(NoteLine), NEW b \in Seq(NoteLine),
         Few(a), FewFrom(a, b)
  PROVE  Few(b)
<1> SUFFICES ASSUME NEW n \in Names
             PROVE  Count(Link(n), b) <= Count(Link(n), placed) \/ Count(Link(n), b) <= 1
  BY DEF Few
<1>1. /\ Count(Link(n), b) <= Count(Link(n), a) \/ Count(Link(n), b) <= 1
      /\ Count(Link(n), a) <= Count(Link(n), placed) \/ Count(Link(n), a) <= 1
  BY DEF Few, FewFrom
<1>2. Count(Link(n), a) \in Nat /\ Count(Link(n), b) \in Nat /\ Count(Link(n), placed) \in Nat
  BY AtType
<1> QED BY <1>1, <1>2

-----------------------------------------------------------------------------
(* The steps of a stage.                                                   *)

LEMMA Afters ==
  /\ After("transitions") = "tags" /\ After("tags") = "formatting"
  /\ After("formatting") = "linking" /\ After("linking") = "done"
BY DEF After

LEMMA WriteBackWrites ==
  ASSUME Phases, phase = "hold", NEW b \in Seq(NoteLine), WriteBack(b)
  PROVE  Go(After(stage)) \/ Writes(b)
<1> DEFINE new == Normalise(Candidate(b))
           fm == IF note.fm = NoFrontmatter THEN held.fm ELSE note.fm
<1>1. CASE Candidate(b) = <<>> \/ Truncates(new, note.body)
  BY <1>1 DEF WriteBack
<1>2. CASE ~(Candidate(b) = <<>> \/ Truncates(new, note.body))
  <2>1. made' = [fm |-> fm, body |-> new] /\ phase' = "write" /\ stage' = stage
    BY <1>2 DEF WriteBack
  <2>2. new \in Seq(NoteLine)
    BY WrittenText
  <2>3. fm \in Frontmatter \cup {NoFrontmatter}
    BY NoteParts DEF Phases
  <2> HIDE DEF new, fm
  <2>4. made' \in Note /\ made'.body = new /\ made'.fm = fm
    BY <2>1, <2>2, <2>3, NoteParts
  <2> QED BY <2>1, <2>4 DEF Writes, new, fm
<1> QED BY <1>1, <1>2

LEMMA WorkPhases ==
  ASSUME Phases, NEW b, Worked(b)
  PROVE  Phases'
<1>1. stage \in {"transitions", "formatting", "linking"}
  BY DEF Phases, Worked
<1>2. /\ placed' \in Seq(NoteLine) /\ note' \in Note /\ note'.fm \in Frontmatter \cup {NoFrontmatter}
      /\ linked' \in SUBSET Names /\ saved' \in SUBSET (Range(Mine) \cup {Field})
      /\ edits' \in 0 .. MaxEdits /\ bared' \in BOOLEAN
  BY NoteParts DEF Phases, TypeOK, Worked, user
<1>3. CASE Go(After(stage))
  <2>1. phase' = "read" /\ stage' \in {"tags", "linking", "done"}
    BY <1>1, <1>3, Afters DEF Go
  <2> QED BY <1>2, <2>1 DEF Phases, TypeOK
<1>4. CASE Writes(b)
  <2>1. phase' = "write" /\ stage' \in {"transitions", "formatting", "linking"} /\ made' \in Note
    BY <1>1, <1>4 DEF Writes
  <2> QED BY <1>2, <2>1 DEF Phases, TypeOK
<1> QED BY <1>3, <1>4 DEF Worked

LEMMA WorkHeaded ==
  ASSUME Phases, Headed, NEW b, Worked(b), Fair(b)
  PROVE  Headed'
<1>1. stage \in {"transitions", "formatting", "linking"} /\ phase = "hold" /\ b \in Seq(NoteLine)
  BY DEF Phases, Worked
<1>2. Clashes' = Clashes /\ note' = note
  BY DEF Clashes, Worked
<1>3. SUFFICES ASSUME ~Clashes
               PROVE  /\ stage' \in {"transitions", "tags", "formatting"} => Fit(note'.body)
                      /\ phase' # "hold"
                      /\ stage' = "transitions" /\ phase' = "write" => Fit(made'.body)
                      /\ stage' = "formatting" /\ phase' = "write" => Apart(made'.body)
                      /\ stage' = "linking" => Apart(note'.body)
  BY <1>2 DEF Headed
<1>4. CASE Go(After(stage))
  <2>1. phase' = "read" /\ stage' = After(stage)
    BY <1>4 DEF Go
  <2>2. Fit(note.body) => Apart(note.body)
    BY FitApart
  <2> QED BY <1>1, <1>2, <1>3, <2>1, <2>2, Afters DEF Headed
<1>5. CASE Writes(b)
  <2>1. stage' = stage /\ phase' = "write" /\ made'.body = Normalise(Candidate(b))
    BY <1>5 DEF Writes
  <2>2. /\ Fit(b) => Fit(Normalise(Candidate(b)))
        /\ Apart(b) => Apart(Normalise(Candidate(b)))
    BY <1>1, WrittenText
  <2>3. stage = "transitions" => Fit(made'.body)
    BY <1>3, <2>1, <2>2 DEF Fair
  <2>4. stage = "formatting" => Apart(made'.body)
    BY <1>3, <2>1, <2>2 DEF Fair
  <2> QED BY <1>1, <1>2, <1>3, <2>1, <2>3, <2>4 DEF Headed
<1> QED BY <1>4, <1>5 DEF Worked

LEMMA WorkFielded ==
  ASSUME Phases, Fielded, NEW b, Worked(b)
  PROVE  Fielded'
<1>1. phase = "hold" /\ note' = note /\ saved' = saved /\ bared' = bared
  BY DEF Worked, user
<1>2. SUFFICES ASSUME ~bared
               PROVE  /\ note.fm \in Frontmatter /\ phase' # "hold"
                      /\ phase' = "write" => made'.fm \in Frontmatter
                      /\ Field \in saved => note.fm.own /\ (phase' = "write" => made'.fm.own)
  BY <1>1 DEF Fielded
<1>3. note.fm \in Frontmatter /\ (Field \in saved => note.fm.own)
  BY <1>2 DEF Fielded
<1>4. CASE Go(After(stage))
  BY <1>3, <1>4 DEF Go
<1>5. CASE Writes(b)
  <2>1. phase' = "write" /\ made'.fm = note.fm
    BY <1>3, <1>5, FmTypes DEF Writes
  <2> QED BY <1>3, <2>1
<1> QED BY <1>4, <1>5 DEF Worked

LEMMA WorkLined ==
  ASSUME Phases, Fielded, Lined, NEW b, Worked(b), Fair(b)
  PROVE  Lined'
<1>1. /\ phase = "hold" /\ note' = note /\ saved' = saved /\ bared' = bared
      /\ b \in Seq(NoteLine) /\ Clashes' = Clashes
  BY DEF Worked, user, Clashes
<1>2. SUFFICES ASSUME ~bared, ~Clashes, NEW m \in saved \ {Field}
               PROVE  /\ Para(m) \in Range(note.body) /\ phase' # "hold"
                      /\ phase' = "write" => Para(m) \in Range(made'.body)
  BY <1>1 DEF Lined
<1>3. Para(m) \in Range(note.body) /\ Para(m) \in Range(held.body) /\ m \in Range(Mine)
  BY <1>1, <1>2 DEF Lined, Phases, TypeOK
<1>4. CASE Go(After(stage))
  BY <1>3, <1>4 DEF Go
<1>5. CASE Writes(b)
  <2>1. phase' = "write" /\ made'.body = Normalise(Candidate(b))
    BY <1>5 DEF Writes
  <2>2. Para(m) \in Range(b)
    BY <1>2, <1>3 DEF Fair, KeepsMine
  <2>3. held.fm # NoFrontmatter
    BY <1>1, <1>2, FmTypes DEF Fielded
  <2>4. KeepsMine(b, Normalise(Candidate(b)))
    BY <1>1, <2>3, WrittenText
  <2>5. Para(m) \in Range(made'.body)
    BY <1>3, <2>1, <2>2, <2>4 DEF KeepsMine
  <2> QED BY <1>3, <2>1, <2>5
<1> QED BY <1>4, <1>5 DEF Worked

LEMMA WorkFew ==
  ASSUME Phases, FewLinks, NEW b, Worked(b), Fair(b)
  PROVE  FewLinks'
<1>1. /\ phase = "hold" /\ note' = note /\ placed' = placed /\ b \in Seq(NoteLine)
      /\ placed \in Seq(NoteLine) /\ held.body \in Seq(NoteLine)
  BY NoteParts DEF Worked, Phases
<1>2. Few(note.body) /\ Few(held.body)
  BY <1>1 DEF FewLinks
<1>3. Few(note.body)'
  BY <1>1, <1>2 DEF Few
<1>4. CASE Go(After(stage))
  BY <1>3, <1>4 DEF Go, FewLinks
<1>5. CASE Writes(b)
  <2> DEFINE c == Normalise(Candidate(b))
  <2>1. phase' = "write" /\ made'.body = c
    BY <1>5 DEF Writes
  <2>2. c \in Seq(NoteLine) /\ FewFrom(b, c)
    BY <1>1, WrittenText
  <2> HIDE DEF c
  <2>3. Few(b)
    BY <1>1, <1>2, FewStep DEF Fair
  <2>4. Few(c)
    BY <1>1, <2>2, <2>3, FewStep
  <2>5. \A n \in Names : Count(Link(n), made'.body) <= Count(Link(n), placed')
                           \/ Count(Link(n), made'.body) <= 1
    BY <1>1, <2>1, <2>4 DEF Few
  <2>6. Few(made.body)'
    BY <2>5 DEF Few
  <2> QED BY <1>3, <2>1, <2>6 DEF FewLinks
<1> QED BY <1>4, <1>5 DEF Worked

LEMMA WorkKeeps ==
  ASSUME Others, NEW b, Worked(b), Fair(b)
  PROVE  Others'
BY WorkPhases, WorkHeaded, WorkFielded, WorkLined, WorkFew DEF Others

LEMMA FairOfLess ==
  ASSUME FewFrom(held.body, held.body), Others, phase = "hold",
         stage \in {"transitions", "formatting", "linking"}
  PROVE  Fair(held.body)
<1>1. KeepsMine(held.body, held.body)
  BY DEF KeepsMine
<1>2. ~Clashes => /\ stage = "transitions" => Fit(held.body)
                  /\ stage = "formatting" => Apart(held.body)
  BY FitApart DEF Others, Headed
<1> QED BY <1>1, <1>2 DEF Fair

LEMMA HeldNote ==
  ASSUME Phases, phase = "hold"
  PROVE  /\ stage \in {"transitions", "formatting", "linking"}
         /\ held \in Note /\ held.body \in Seq(NoteLine) /\ FewFrom(held.body, held.body)
<1>1. held \in Note /\ held.body \in Seq(NoteLine)
  BY NoteParts DEF Phases
<1>2. \A n : Count(Link(n), held.body) <= Count(Link(n), held.body)
  BY <1>1, AtType
<1>3. FewFrom(held.body, held.body)
  BY <1>2 DEF FewFrom
<1> QED BY <1>1, <1>3 DEF Phases

LEMMA WeaveStep ==
  ASSUME Others, Weave
  PROVE  Others' /\ linked' = linked /\ stage = "transitions" /\ stage' # "done"
<1>1. /\ Phases /\ stage = "transitions" /\ phase = "hold"
      /\ UNCHANGED <<placed, note, user>> /\ linked' = linked /\ linked \subseteq Names
  BY DEF Others, Weave, Phases, TypeOK
<1>2. /\ held.body \in Seq(NoteLine) /\ FewFrom(held.body, held.body) /\ Fair(held.body)
  BY <1>1, HeldNote, FairOfLess
<1>3. PICK sections : SpliceAccepted(sections)
  BY DEF Weave
<1>4. CASE sections = {}
  <2>1. Go(After(stage))
    BY <1>1, <1>3, <1>4, Afters DEF SpliceAccepted
  <2>2. Worked(held.body)
    BY <1>1, <1>2, <2>1 DEF Worked
  <2>3. stage' # "done"
    BY <1>1, <2>1, Afters DEF Go
  <2> QED BY <1>1, <1>2, <2>2, <2>3, WorkKeeps
<1>5. CASE sections # {}
  <2> DEFINE b == Splice(held.body, sections)
  <2>1. WriteBack(b)
    BY <1>3, <1>5 DEF SpliceAccepted
  <2>2. /\ b \in Seq(NoteLine) /\ FewFrom(held.body, b) /\ KeepsMine(held.body, b)
        /\ Fit(held.body) => Fit(b)
    BY <1>2, WovenText
  <2> HIDE DEF b
  <2>3. Go(After(stage)) \/ Writes(b)
    BY <1>1, <2>1, <2>2, WriteBackWrites
  <2>4. ~Clashes => Fit(held.body)
    BY <1>1 DEF Others, Headed
  <2>5. Worked(b) /\ Fair(b)
    BY <1>1, <2>2, <2>3, <2>4 DEF Worked, Fair
  <2>6. stage' # "done"
    BY <1>1, <2>3, Afters DEF Go, Writes
  <2> QED BY <1>1, <2>5, <2>6, WorkKeeps
<1> QED BY <1>4, <1>5

LEMMA FormatStep ==
  ASSUME Others, Format
  PROVE  Others' /\ linked' = linked /\ stage = "formatting" /\ stage' # "done"
<1>1. /\ Phases /\ stage = "formatting" /\ phase = "hold"
      /\ UNCHANGED <<placed, note, user>> /\ linked' = linked /\ linked \subseteq Names
  BY DEF Others, Format, Phases, TypeOK
<1>2. /\ held.body \in Seq(NoteLine) /\ FewFrom(held.body, held.body) /\ Fair(held.body)
  BY <1>1, HeldNote, FairOfLess
<1> DEFINE b == ApplyStructure(held.body)
<1>3. CASE b = held.body
  <2>1. Go(After(stage))
    BY <1>1, <1>3, Afters DEF Format
  <2>2. Worked(held.body)
    BY <1>1, <1>2, <2>1 DEF Worked
  <2>3. stage' # "done"
    BY <1>1, <2>1, Afters DEF Go
  <2> QED BY <1>1, <1>2, <2>2, <2>3, WorkKeeps
<1>4. CASE b # held.body
  <2>1. WriteBack(b)
    BY <1>4 DEF Format
  <2>2. /\ b \in Seq(NoteLine) /\ FewFrom(held.body, b)
        /\ Fit(held.body) => KeepsMine(held.body, b) /\ Apart(b)
    BY <1>2, FormattedText
  <2> HIDE DEF b
  <2>3. Go(After(stage)) \/ Writes(b)
    BY <1>1, <2>1, <2>2, WriteBackWrites
  <2>4. ~Clashes => Fit(held.body)
    BY <1>1 DEF Others, Headed
  <2>5. Worked(b) /\ Fair(b)
    BY <1>1, <2>2, <2>3, <2>4 DEF Worked, Fair
  <2>6. stage' # "done"
    BY <1>1, <2>3, Afters DEF Go, Writes
  <2> QED BY <1>1, <2>5, <2>6, WorkKeeps
<1> QED BY <1>3, <1>4

LEMMA ConnectStep ==
  ASSUME Others, Connect
  PROVE  /\ Others' /\ stage = "linking" /\ phase = "hold"
         /\ \/ linked' = linked /\ phase' = "read"
            \/ linked' = {}
            \/ /\ stage' = "linking" /\ phase' = "write"
               /\ \A n \in linked' : Item(n) \notin Range(made'.body)
<1> DEFINE bare == StripRelated(held.body)
           body == LinkMentions(bare, Resolved(Entities, Names))
           fresh == {n \in Names : Link(n) \in Range(body) \ Range(bare)}
<1>1. /\ Phases /\ stage = "linking" /\ phase = "hold"
      /\ UNCHANGED <<placed, note, user>> /\ linked \subseteq Names
  BY DEF Others, Connect, Phases, TypeOK
<1>2. /\ held.body \in Seq(NoteLine) /\ FewFrom(held.body, held.body) /\ Fair(held.body)
  BY <1>1, HeldNote, FairOfLess
<1>3. PICK related \in Related :
        /\ Range(related) \cap fresh = {}
        /\ IF fresh = {} /\ Rendered(related) = <<>>
           THEN Go("done") /\ UNCHANGED linked
           ELSE /\ WriteBack(AppendRelated(body, related))
                /\ linked' = IF phase' = "write" THEN fresh ELSE {}
  BY DEF Connect
<1>4. related \in Seq(Text)
  BY NoteEditsAssumption
<1>5. CASE fresh = {} /\ Rendered(related) = <<>>
  <2>1. Go(After(stage)) /\ linked' = linked
    BY <1>1, <1>3, <1>5, Afters
  <2>2. Worked(held.body)
    BY <1>1, <1>2, <2>1 DEF Worked
  <2>3. phase' = "read"
    BY <2>1 DEF Go
  <2> QED BY <1>1, <1>2, <2>1, <2>2, <2>3, WorkKeeps
<1>6. CASE ~(fresh = {} /\ Rendered(related) = <<>>)
  <2> DEFINE b == AppendRelated(body, related)
  <2>1. WriteBack(b) /\ linked' = IF phase' = "write" THEN fresh ELSE {}
    BY <1>3, <1>6
  <2>2. /\ b \in Seq(NoteLine) /\ FewFrom(held.body, b)
        /\ Apart(held.body) => KeepsMine(held.body, b)
        /\ \A n : Link(n) \in Range(body) \ Range(bare) /\ n \notin Range(related)
                    => Item(n) \notin Range(b)
    <3> HIDE DEF bare
    <3>1. bare = StripRelated(held.body)
      BY DEF bare
    <3> HIDE DEF body
    <3>2. body = LinkMentions(bare, Resolved(Entities, Names))
      BY DEF body
    <3> HIDE DEF b
    <3>3. b = AppendRelated(body, related)
      BY DEF b
    <3> QED BY <1>2, <1>4, <3>1, <3>2, <3>3, ConnectedText
  <2>3. \A n \in fresh : Item(n) \notin Range(b)
    <3> HIDE DEF body, bare, b
    <3> QED BY <1>3, <2>2
  <2>4. fresh \subseteq Names
    OBVIOUS
  <2> HIDE DEF b, fresh, body, bare
  <2>5. Go(After(stage)) \/ Writes(b)
    BY <1>1, <2>1, <2>2, WriteBackWrites
  <2>6. ~Clashes => Apart(held.body)
    BY <1>1 DEF Others, Headed
  <2>7. linked' \subseteq Names
    BY <2>1, <2>4
  <2>8. Worked(b) /\ Fair(b)
    BY <1>1, <2>2, <2>5, <2>6, <2>7 DEF Worked, Fair
  <2>9. Others'
    BY <2>8, WorkKeeps
  <2>10. CASE Go(After(stage))
    <3>1. linked' = {}
      BY <2>1, <2>10 DEF Go
    <3> QED BY <1>1, <2>9, <3>1
  <2>11. CASE Writes(b)
    <3>1. /\ stage' = "linking" /\ phase' = "write" /\ linked' = fresh
          /\ made'.body = Normalise(Candidate(b))
      BY <1>1, <2>1, <2>11 DEF Writes
    <3>2. \A n \in linked' : Item(n) \notin Range(made'.body)
      BY <2>2, <2>3, <3>1, WrittenText
    <3> QED BY <1>1, <2>9, <3>1, <3>2
  <2> QED BY <2>5, <2>10, <2>11
<1> QED BY <1>5, <1>6

LEMMA ReadStep ==
  ASSUME Others, Read
  PROVE  Others' /\ linked' = linked /\ stage' = stage /\ phase = "read" /\ stage # "done"
<1>1. /\ stage \in {"transitions", "formatting", "linking"} /\ phase = "read"
      /\ held' = note /\ phase' = "hold"
      /\ UNCHANGED <<placed, note, stage, made, linked, edits, saved, bared>>
  BY DEF Read, user
<1>2. Phases'
  BY <1>1 DEF Others, Phases, TypeOK
<1>3. Headed'
  <2>1. Clashes' = Clashes
    BY <1>1 DEF Clashes
  <2> QED BY <1>1, <2>1 DEF Others, Headed
<1>4. Fielded'
  BY <1>1 DEF Others, Fielded
<1>5. Lined'
  <2>1. Clashes' = Clashes
    BY <1>1 DEF Clashes
  <2> QED BY <1>1, <2>1 DEF Others, Lined
<1>6. FewLinks'
  <2>1. \A n \in Names : Count(Link(n), note.body) <= Count(Link(n), placed)
                           \/ Count(Link(n), note.body) <= 1
    BY DEF Others, FewLinks, Few
  <2> QED BY <1>1, <2>1 DEF FewLinks, Few
<1> QED BY <1>1, <1>2, <1>3, <1>4, <1>5, <1>6 DEF Others

LEMMA TagsStep ==
  ASSUME Others, WriteTags
  PROVE  Others' /\ linked' = linked /\ stage = "tags" /\ stage' # "done"
<1>1. PICK tags \in {"[]", "some"} : note' = [note EXCEPT !.fm = Tagged(note.fm, tags)]
  BY DEF WriteTags
<1>2. /\ stage = "tags" /\ stage' = "formatting" /\ phase' = "read"
      /\ UNCHANGED <<placed, linked, edits, saved, bared>>
  BY DEF WriteTags, Go, user
<1>3. note \in Note /\ note.fm \in Frontmatter \cup {NoFrontmatter}
  BY NoteParts DEF Others, Phases
<1>4. Tagged(note.fm, tags) \in Frontmatter /\ Tagged(note.fm, tags).own = note.fm.own
  BY <1>3, FmTypes
<1> DEFINE fm == Tagged(note.fm, tags)
<1> HIDE DEF fm
<1>5. fm \in Frontmatter /\ fm.own = note.fm.own /\ note' = [note EXCEPT !.fm = fm]
  BY <1>1, <1>4 DEF fm
<1>6. note' \in Note /\ note'.fm = fm /\ note'.body = note.body
  BY <1>3, <1>5, NoteParts
<1>7. Phases'
  BY <1>2, <1>5, <1>6 DEF Others, Phases, TypeOK
<1>8. Clashes' = Clashes
  BY <1>2 DEF Clashes
<1>9. Headed'
  BY <1>2, <1>6, <1>8 DEF Others, Headed
<1>10. Fielded'
  BY <1>2, <1>5, <1>6 DEF Others, Fielded
<1>11. Lined'
  BY <1>2, <1>6, <1>8 DEF Others, Lined
<1>12. FewLinks'
  BY <1>2, <1>6 DEF Others, FewLinks, Few
<1> QED BY <1>2, <1>7, <1>9, <1>10, <1>11, <1>12 DEF Others

LEMMA PlaceStep ==
  ASSUME Others, Place
  PROVE  /\ Others' /\ linked' = linked /\ phase = "write" /\ note' = made
         /\ stage = "linking" => stage' = "done"
<1>1. /\ phase = "write" /\ note' = made /\ stage' = After(stage) /\ phase' = "read"
      /\ UNCHANGED <<placed, linked, edits, saved, bared>>
  BY DEF Place, Go, user
<1>2. /\ stage \in {"transitions", "formatting", "linking"} /\ made \in Note
      /\ made.fm \in Frontmatter \cup {NoFrontmatter} /\ made.body \in Seq(NoteLine)
  BY <1>1, NoteParts DEF Others, Phases
<1>3. Phases'
  BY <1>1, <1>2, Afters DEF Others, Phases, TypeOK
<1>4. Clashes' = Clashes
  BY <1>1 DEF Clashes
<1>5. Headed'
  <2>1. Fit(made.body) => Apart(made.body)
    BY FitApart
  <2> QED BY <1>1, <1>2, <1>4, <2>1, Afters DEF Others, Headed
<1>6. Fielded'
  BY <1>1 DEF Others, Fielded
<1>7. Lined'
  BY <1>1, <1>4 DEF Others, Lined
<1>8. FewLinks'
  <2>1. \A n \in Names : Count(Link(n), made.body) <= Count(Link(n), placed)
                           \/ Count(Link(n), made.body) <= 1
    BY <1>1 DEF Others, FewLinks, Few
  <2> QED BY <1>1, <2>1 DEF FewLinks, Few
<1> QED BY <1>1, <1>3, <1>5, <1>6, <1>7, <1>8, Afters DEF Others

LEMMA SaveStep ==
  ASSUME Others, AddBelow \/ AddAbove
  PROVE  Others' /\ linked' = linked /\ UNCHANGED <<stage, phase, made>> /\ stage # "done"
<1> DEFINE m == Mine[edits + 1]
           below == note.body \o <<Blank, Para(m)>>
           above == <<Para(m), Blank>> \o note.body
<1>1. PICK b \in {below, above} :
        /\ CanSave /\ edits' = edits + 1
        /\ note' = [note EXCEPT !.body = b]
        /\ saved' = IF phase = "read" THEN saved \cup {m} ELSE saved
        /\ UNCHANGED <<placed, stage, phase, held, made, linked, bared>>
  BY DEF AddBelow, AddAbove, Save, run
<1>2. m \in Range(Mine) /\ m \in Text /\ m # Field /\ edits' \in 0 .. MaxEdits
  <2>1. edits \in 0 .. MaxEdits /\ edits < MaxEdits
    BY <1>1 DEF Others, Phases, TypeOK, CanSave
  <2>2. MaxEdits \in 0 .. Len(Mine) /\ Mine \in Seq(Text) /\ Field \notin Range(Mine)
    BY NoteEditsAssumption
  <2>3. Len(Mine) \in Nat /\ DOMAIN Mine = 1 .. Len(Mine)
    BY <2>2, Whole
  <2>4. edits + 1 \in 1 .. Len(Mine) /\ edits + 1 \in 0 .. MaxEdits
    BY <2>1, <2>2, <2>3
  <2>5. m \in Range(Mine)
    BY <2>3, <2>4 DEF Range
  <2> QED BY <1>1, <2>2, <2>4, <2>5
<1> HIDE DEF m
<1>3. note \in Note /\ note.body \in Seq(NoteLine)
  BY NoteParts DEF Others, Phases
<1>4. /\ b \in Seq(NoteLine) /\ FewFrom(note.body, b) /\ KeepsMine(note.body, b)
      /\ Para(m) \in Range(b)
      /\ (Fit(note.body) => Fit(b)) /\ (Apart(note.body) => Apart(b))
  BY <1>2, <1>3, SavedText
<1>5. note' \in Note /\ note'.body = b /\ note'.fm = note.fm
  BY <1>1, <1>3, <1>4, NoteParts
<1> HIDE DEF below, above
<1>6. Phases'
  BY <1>1, <1>2, <1>5 DEF Others, Phases, TypeOK
<1>7. Clashes' = Clashes
  BY <1>1 DEF Clashes
<1>8. Headed'
  BY <1>1, <1>4, <1>5, <1>7 DEF Others, Headed
<1>9. Fielded'
  <2>1. Field \in saved' => Field \in saved
    BY <1>1, <1>2
  <2> QED BY <1>1, <1>5, <2>1 DEF Others, Fielded
<1>10. Lined'
  <2> SUFFICES ASSUME ~bared, ~Clashes, NEW x \in saved' \ {Field}
               PROVE  /\ Para(x) \in Range(b)
                      /\ phase = "hold" => Para(x) \in Range(held.body)
                      /\ phase = "write" => Para(x) \in Range(made.body)
    BY <1>1, <1>5, <1>7 DEF Lined
  <2>1. CASE x \in saved
    <3>1. x \in Range(Mine)
      BY <2>1 DEF Others, Phases, TypeOK
    <3>2. /\ Para(x) \in Range(note.body)
          /\ phase = "hold" => Para(x) \in Range(held.body)
          /\ phase = "write" => Para(x) \in Range(made.body)
      BY <2>1 DEF Others, Lined
    <3> QED BY <1>4, <3>1, <3>2 DEF KeepsMine
  <2>2. CASE x \notin saved
    <3>1. x = m /\ phase = "read"
      BY <1>1, <2>2
    <3> QED BY <1>4, <3>1
  <2> QED BY <2>1, <2>2
<1>11. FewLinks'
  <2>1. Few(b)
    BY <1>3, <1>4, FewStep DEF Others, Phases, FewLinks
  <2>2. Few(note.body)'
    BY <1>1, <1>5, <2>1 DEF Few
  <2>3. (phase = "hold" => Few(held.body)') /\ (phase = "write" => Few(made.body)')
    BY <1>1 DEF Others, FewLinks, Few
  <2> QED BY <1>1, <2>2, <2>3 DEF FewLinks
<1>12. stage # "done"
  BY <1>1 DEF CanSave
<1> QED BY <1>1, <1>6, <1>8, <1>9, <1>10, <1>11, <1>12 DEF Others

LEMMA FieldStep ==
  ASSUME Others, AddField \/ DropFrontmatter
  PROVE  Others' /\ linked' = linked /\ UNCHANGED <<stage, phase, made>> /\ stage # "done"
<1>1. /\ CanSave /\ edits' = edits + 1 /\ note.fm # NoFrontmatter
      /\ UNCHANGED <<placed, stage, phase, held, made, linked>>
  BY DEF AddField, DropFrontmatter, run
<1>2. stage # "done" /\ edits' \in 0 .. MaxEdits
  <2>1. edits \in 0 .. MaxEdits /\ edits < MaxEdits /\ stage # "done"
    BY <1>1 DEF Others, Phases, TypeOK, CanSave
  <2>2. MaxEdits \in Nat
    <3>1. MaxEdits \in 0 .. Len(Mine) /\ Len(Mine) \in Nat
      BY NoteEditsAssumption, Whole
    <3> QED BY <3>1
  <2> QED BY <1>1, <2>1, <2>2
<1>3. note \in Note /\ note.fm \in Frontmatter
  BY <1>1, NoteParts DEF Others, Phases
<1>4. PICK fm \in Frontmatter \cup {NoFrontmatter} :
        /\ note' = [note EXCEPT !.fm = fm]
        /\ \/ /\ fm \in Frontmatter /\ fm.own /\ bared' = bared
              /\ saved' = IF phase # "write" THEN saved \cup {Field} ELSE saved
           \/ bared' = TRUE /\ saved' = saved
  <2>1. CASE AddField
    <3> DEFINE fm == [note.fm EXCEPT !.own = TRUE]
    <3>1. fm \in Frontmatter /\ fm.own = TRUE
      BY <1>3, FmTypes
    <3>2. note' = [note EXCEPT !.fm.own = TRUE]
      BY <2>1 DEF AddField
    <3>3. note' = [note EXCEPT !.fm = fm]
      BY <3>2
    <3>4. bared' = bared /\ saved' = IF phase # "write" THEN saved \cup {Field} ELSE saved
      BY <2>1 DEF AddField
    <3> HIDE DEF fm
    <3> QED BY <3>1, <3>3, <3>4
  <2>2. CASE DropFrontmatter
    BY <2>2 DEF DropFrontmatter
  <2> QED BY <2>1, <2>2
<1>5. note' \in Note /\ note'.fm = fm /\ note'.body = note.body
  BY <1>3, <1>4, NoteParts
<1>6. saved' \in SUBSET (Range(Mine) \cup {Field}) /\ bared' \in BOOLEAN
  BY <1>4 DEF Others, Phases, TypeOK
<1>7. Phases'
  BY <1>1, <1>2, <1>5, <1>6 DEF Others, Phases, TypeOK
<1>8. Clashes' = Clashes
  BY <1>1 DEF Clashes
<1>9. Headed'
  BY <1>1, <1>5, <1>8 DEF Others, Headed
<1>10. Fielded'
  BY <1>1, <1>4, <1>5 DEF Others, Fielded
<1>11. Lined'
  <2>1. saved' \ {Field} = saved \ {Field} /\ (~bared' => ~bared)
    BY <1>4
  <2> QED BY <1>1, <1>5, <1>8, <2>1 DEF Others, Lined
<1>12. FewLinks'
  BY <1>1, <1>5 DEF Others, FewLinks, Few
<1> QED BY <1>1, <1>2, <1>7, <1>9, <1>10, <1>11, <1>12 DEF Others

\* Every step keeps every part of the invariant.
LEMMA StepKeeps ==
  ASSUME IInv, [Next]_vars
  PROVE  IInv'
<1>0. Others
  BY DEF IInv, Others
<1>1. CASE Read
  <2>1. Others' /\ linked' = linked /\ phase = "read" /\ stage # "done"
    BY <1>0, <1>1, ReadStep
  <2>2. linked' = {}
    BY <2>1 DEF IInv, Parted
  <2> QED BY <2>1, <2>2 DEF IInv, Others, Parted
<1>2. CASE Weave
  <2>1. Others' /\ linked' = linked /\ stage = "transitions"
    BY <1>0, <1>2, WeaveStep
  <2>2. linked' = {}
    BY <2>1 DEF IInv, Parted
  <2> QED BY <2>1, <2>2 DEF IInv, Others, Parted
<1>3. CASE WriteTags
  <2>1. Others' /\ linked' = linked /\ stage = "tags"
    BY <1>0, <1>3, TagsStep
  <2>2. linked' = {}
    BY <2>1 DEF IInv, Parted
  <2> QED BY <2>1, <2>2 DEF IInv, Others, Parted
<1>4. CASE Format
  <2>1. Others' /\ linked' = linked /\ stage = "formatting"
    BY <1>0, <1>4, FormatStep
  <2>2. linked' = {}
    BY <2>1 DEF IInv, Parted
  <2> QED BY <2>1, <2>2 DEF IInv, Others, Parted
<1>5. CASE Connect
  <2>1. /\ Others' /\ stage = "linking" /\ phase = "hold"
        /\ \/ linked' = linked /\ phase' = "read"
           \/ linked' = {}
           \/ /\ stage' = "linking" /\ phase' = "write"
              /\ \A n \in linked' : Item(n) \notin Range(made'.body)
    BY <1>0, <1>5, ConnectStep
  <2>2. linked = {}
    BY <2>1 DEF IInv, Parted
  <2> QED BY <2>1, <2>2 DEF IInv, Others, Parted
<1>6. CASE Place
  <2>1. /\ Others' /\ linked' = linked /\ phase = "write" /\ note' = made
        /\ stage = "linking" => stage' = "done"
    BY <1>0, <1>6, PlaceStep
  <2>2. phase = "write" => stage # "done"
    BY DEF IInv, Phases
  <2>3. Parted'
    BY <2>1, <2>2 DEF IInv, Parted
  <2> QED BY <2>1, <2>3 DEF IInv, Others
<1>7. CASE AddBelow \/ AddAbove
  <2>1. Others' /\ linked' = linked /\ UNCHANGED <<stage, phase, made>> /\ stage # "done"
    BY <1>0, <1>7, SaveStep
  <2>2. Parted'
    BY <2>1 DEF IInv, Parted
  <2> QED BY <2>1, <2>2 DEF IInv, Others
<1>8. CASE AddField \/ DropFrontmatter
  <2>1. Others' /\ linked' = linked /\ UNCHANGED <<stage, phase, made>> /\ stage # "done"
    BY <1>0, <1>8, FieldStep
  <2>2. Parted'
    BY <2>1 DEF IInv, Parted
  <2> QED BY <2>1, <2>2 DEF IInv, Others
<1>9. CASE UNCHANGED vars
  <2>1. UNCHANGED <<placed, note, stage, phase, held, made, linked, edits, saved, bared>>
    BY <1>9 DEF vars, run, user
  <2>2. Clashes' = Clashes
    BY <2>1 DEF Clashes
  <2>3. Phases' /\ FewLinks' /\ Parted'
    BY <2>1 DEF IInv, Phases, TypeOK, FewLinks, Few, Parted
  <2>4. Headed' /\ Fielded' /\ Lined'
    BY <2>1, <2>2 DEF IInv, Headed, Fielded, Lined
  <2> QED BY <2>3, <2>4 DEF IInv
<1> QED BY <1>1, <1>2, <1>3, <1>4, <1>5, <1>6, <1>7, <1>8, <1>9 DEF Next, Stage, User

LEMMA InitIInv ==
  ASSUME Init
  PROVE  IInv
<1>1. /\ note = [fm |-> [tags |-> "[]", own |-> FALSE], body |-> placed]
      /\ stage = "transitions" /\ phase = "read" /\ linked = {} /\ edits = 0 /\ saved = {}
      /\ bared = FALSE
  BY DEF Init
<1>2. placed \in Seq(NoteLine)
  BY PlacedType DEF Init
<1>3. PICK fm \in Frontmatter : fm = [tags |-> "[]", own |-> FALSE]
  BY DEF Frontmatter
<1>4. note \in Note /\ note.fm = fm /\ note.body = placed
  BY <1>1, <1>2, <1>3, NoteParts
<1>5. 0 \in 0 .. MaxEdits
  <2>1. MaxEdits \in 0 .. Len(Mine) /\ Len(Mine) \in Nat
    BY NoteEditsAssumption, Whole
  <2> QED BY <2>1
<1>6. Phases
  BY <1>1, <1>2, <1>4, <1>5 DEF Phases, TypeOK
<1>7. ~Clashes => Fit(placed)
  BY DEF Clashes, Fit, Range
<1>8. Headed
  BY <1>1, <1>4, <1>7 DEF Headed
<1>9. Fielded /\ Lined /\ Parted
  BY <1>1, <1>4 DEF Fielded, Lined, Parted
<1>10. FewLinks
  <2>1. \A n : Count(Link(n), placed) <= Count(Link(n), placed)
    BY <1>2, AtType
  <2> QED BY <1>1, <1>4, <2>1 DEF FewLinks, Few
<1> QED BY <1>6, <1>8, <1>9, <1>10 DEF IInv

\* The invariant, and with it the type invariant.
THEOREM Invariant == Spec => [](IInv /\ TypeOK)
<1>1. Init => IInv
  BY InitIInv
<1>2. IInv /\ [Next]_vars => IInv'
  BY StepKeeps
<1>3. IInv => TypeOK
  BY DEF IInv, Phases
<1> QED BY <1>1, <1>2, <1>3, PTL DEF Spec

\* What the user saves while no stage has read the note is never lost, and neither
\* is the line in the frontmatter (_write_back, FormatterStage, LinkingStage).
THEOREM UserKeeps == Spec => []EditsKept
<1>1. IInv => EditsKept
  BY DEF IInv, Lined, Fielded, EditsKept
<1> QED BY <1>1, Invariant, PTL

LEMMA MaxOne ==
  ASSUME NEW c \in Nat
  PROVE  Max({1, c}) >= 1 /\ Max({1, c}) >= c /\ Max({1, c}) \in Nat
<1> DEFINE top == IF c >= 1 THEN c ELSE 1
<1>1. top \in {1, c} /\ \A y \in {1, c} : top >= y
  OBVIOUS
<1>2. Max({1, c}) \in {1, c} /\ \A y \in {1, c} : Max({1, c}) >= y
  BY <1>1 DEF Max
<1> QED BY <1>2

\* A note is linked once, and not in the section as well (linking.py,
\* link_first_mentions and _already_linked; get_related_notes' exclude).
THEOREM LinksOnce == Spec => []LinkedOnce
<1>1. ASSUME IInv PROVE LinkedOnce
  <2> SUFFICES ASSUME NEW n \in Names
               PROVE  /\ Count(Link(n), note.body) <= Max({1, Count(Link(n), placed)})
                      /\ n \in linked /\ stage = "done" => Item(n) \notin Range(note.body)
    BY DEF LinkedOnce, Count, At
  <2>1. placed \in Seq(NoteLine) /\ note.body \in Seq(NoteLine)
    BY <1>1, NoteParts DEF IInv, Phases
  <2>2. Count(Link(n), placed) \in Nat /\ Count(Link(n), note.body) \in Nat
    BY <2>1, AtType
  <2>3. Count(Link(n), note.body) <= Count(Link(n), placed) \/ Count(Link(n), note.body) <= 1
    BY <1>1 DEF IInv, FewLinks, Few
  <2>4. Count(Link(n), note.body) <= Max({1, Count(Link(n), placed)})
    <3> DEFINE c == Count(Link(n), placed)
               d == Count(Link(n), note.body)
    <3> HIDE DEF c, d
    <3>1. c \in Nat /\ d \in Nat /\ (d <= c \/ d <= 1)
      BY <2>2, <2>3 DEF c, d
    <3>2. Max({1, c}) >= 1 /\ Max({1, c}) >= c /\ Max({1, c}) \in Nat
      BY <3>1, MaxOne
    <3>3. d <= Max({1, c})
      BY <3>1, <3>2
    <3> QED BY <3>3 DEF c, d
  <2>5. n \in linked /\ stage = "done" => Item(n) \notin Range(note.body)
    BY <1>1 DEF IInv, Parted
  <2> QED BY <2>4, <2>5
<1> QED BY <1>1, Invariant, PTL

-----------------------------------------------------------------------------
(* The table of contents.                                                  *)

LEMMA UntabledTabled ==
  ASSUME NEW ls, Untabled(ls)
  PROVE  Tabled(ls)
BY DEF Untabled, Tabled

\* A text with no entry or heading of its own.
LEMMA UntabledFrom ==
  ASSUME NEW a \in Seq(NoteLine), NEW b \in Seq(NoteLine), Untabled(a),
         \A l : l.kind \in {"entry", "head"} => Count(l, b) <= Count(l, a)
  PROVE  Untabled(b)
<1> SUFFICES ASSUME NEW l \in Range(b), l.kind \in {"entry", "head"} PROVE l \in Range(a)
  BY DEF Untabled
<1>1. Count(l, b) > 0 /\ Count(l, b) <= Count(l, a)
  BY CountMember
<1>2. Count(l, a) \in Nat /\ Count(l, b) \in Nat
  BY AtType
<1> QED BY <1>1, <1>2, CountMember

\* A text with no entry of its own that has lost no heading.
LEMMA TabledFrom ==
  ASSUME NEW a \in Seq(NoteLine), NEW b \in Seq(NoteLine), Tabled(a),
         \A l : l.kind = "entry" => Count(l, b) <= Count(l, a),
         \A l : l.kind = "head" => Count(l, b) >= Count(l, a)
  PROVE  Tabled(b)
<1> SUFFICES ASSUME NEW e \in Range(b), e.kind = "entry", e.num # 0
             PROVE  /\ e.text \notin DOMAIN Sanitised
                    /\ Heading(3, e.num, e.text) \in Range(b)
  BY DEF Tabled
<1>1. Count(e, b) > 0 /\ Count(e, b) <= Count(e, a)
  BY CountMember
<1>2. \A l : Count(l, a) \in Nat /\ Count(l, b) \in Nat
  BY AtType
<1>3. e \in Range(a)
  BY <1>1, <1>2, CountMember
<1> DEFINE h == Heading(3, e.num, e.text)
<1>4. e.text \notin DOMAIN Sanitised /\ h \in Range(a)
  BY <1>3 DEF Tabled
<1>5. h.kind = "head"
  BY LineKinds
<1> HIDE DEF h
<1>6. Count(h, a) > 0 /\ Count(h, b) >= Count(h, a)
  BY <1>4, <1>5, CountMember
<1>7. h \in Range(b)
  BY <1>2, <1>6, CountMember
<1> QED BY <1>4, <1>7 DEF h

\* What the formatter makes of a note without a table: each section it numbers has a
\* safe text, and the entry is made from the heading.
LEMMA StructureTabled ==
  ASSUME SafeIsSafe, NEW ls \in Seq(NoteLine), Untabled(ls)
  PROVE  Tabled(ApplyStructure(ls))
<1> DEFINE prose == Prose(ls, Strict)
           H == HeadsOf(ls)
           new == [i \in DOMAIN ls |-> Restructured(ls, H, i)]
           K == {i \in DOMAIN ls : ~Restates(ls, prose, H, i)}
           Safe(l) == /\ l.kind # "entry"
                      /\ l.kind = "head" /\ l.num # 0 =>
                           /\ l.text \notin DOMAIN Sanitised
                           /\ l = Heading(3, l.num, l.text)
           S == {l \in NoteLine : Safe(l)}
           kept == Lines(new, K)
<1>1. ApplyStructure(ls) = IF H = {} THEN ls ELSE GenerateToc(kept)
  BY DEF ApplyStructure, HeadsOf
<1>2. Len(ls) \in Nat /\ DOMAIN ls = 1 .. Len(ls)
  BY HeadsIn
<1>3. ASSUME NEW i \in DOMAIN ls PROVE new[i] \in S
  <2>1. new[i] = Restructured(ls, H, i)
    BY <1>3
  <2>2. /\ ls[i].kind # "entry" /\ (ls[i].kind = "head" => ls[i].num = 0)
        /\ ls[i] \in NoteLine
    BY <1>3, Whole DEF Untabled, Range
  <2> HIDE DEF new
  <2>3. /\ new[i] \in NoteLine
        /\ ls[i].kind # "head" => new[i] = ls[i]
        /\ ls[i].kind = "head" => new[i].kind = "head"
        /\ \/ new[i].num = ls[i].num
           \/ \E n \in Nat : new[i] = Heading(3, n, LinkSafe(ls[i].text))
    BY <1>3, <2>1, RestructuredLine
  <2>4. CASE new[i].kind # "head" \/ new[i].num = 0
    <3>1. new[i].kind # "entry"
      BY <2>2, <2>3
    <3>2. Safe(new[i])
      BY <2>4, <3>1
    <3> QED BY <2>3, <3>2
  <2>5. CASE new[i].kind = "head" /\ new[i].num # 0
    <3>1. ls[i].kind = "head"
      BY <2>3, <2>5
    <3>2. PICK n \in Nat : new[i] = Heading(3, n, LinkSafe(ls[i].text))
      BY <2>2, <2>3, <2>5, <3>1
    <3>3. new[i].num = n /\ new[i].text = LinkSafe(ls[i].text)
      BY <3>2, LineKinds
    <3>4. LinkSafe(ls[i].text) \notin DOMAIN Sanitised
      BY DEF SafeIsSafe, LinkSafe, Range
    <3>5. Safe(new[i])
      BY <2>5, <3>2, <3>3, <3>4
    <3> QED BY <2>3, <3>5
  <2> QED BY <2>4, <2>5
<1>4. DOMAIN new = 1 .. Len(ls)
  BY <1>2
<1>5. /\ S \subseteq NoteLine
      /\ \A l \in S : /\ l.kind # "entry"
                      /\ l.kind = "head" /\ l.num # 0 =>
                           /\ l.text \notin DOMAIN Sanitised
                           /\ l = Heading(3, l.num, l.text)
  OBVIOUS
<1> HIDE DEF S, new, K, H
<1>6. kept \in Seq(S)
  BY <1>2, <1>3, <1>4, LinesType
<1> HIDE DEF kept
<1>7. kept \in Seq(NoteLine) /\ \A l \in Range(kept) : l \in S
  BY <1>5, <1>6 DEF Range
<1> DEFINE g == GenerateToc(kept)
<1>8. /\ g \in Seq(NoteLine)
      /\ \A l : l.kind \notin {"callout", "entry", "blank"} => Count(l, g) = Count(l, kept)
      /\ \A e \in Range(g) : e.kind = "entry" =>
           e \in Range(kept) \/ \E h \in Range(kept) : IsSection(h) /\ e = Entry(h)
  BY <1>7, TocCount
<1> HIDE DEF g
<1>9. Tabled(g)
  <2> SUFFICES ASSUME NEW e \in Range(g), e.kind = "entry", e.num # 0
               PROVE  /\ e.text \notin DOMAIN Sanitised
                      /\ Heading(3, e.num, e.text) \in Range(g)
    BY DEF Tabled
  <2>1. PICK h \in Range(kept) : IsSection(h) /\ e = Entry(h)
    BY <1>5, <1>7, <1>8
  <2>2. e.num = h.num /\ e.text = h.text /\ h.kind = "head"
    BY <2>1, LineKinds DEF IsSection
  <2>3. h.text \notin DOMAIN Sanitised /\ h = Heading(3, h.num, h.text)
    BY <1>5, <1>7, <2>2
  <2>4. h \in Range(g)
    <3>1. Count(h, kept) > 0
      BY <1>7, CountMember
    <3>2. Count(h, g) = Count(h, kept)
      BY <1>8, <2>2
    <3> QED BY <1>8, <3>1, <3>2, CountMember
  <2> QED BY <2>2, <2>3, <2>4
<1>10. CASE H = {}
  BY <1>1, <1>10, UntabledTabled
<1> QED BY <1>1, <1>9, <1>10 DEF g

\* The weaver puts no heading and no entry into a note.
LEMMA WovenUntabled ==
  ASSUME NEW ls \in Seq(NoteLine), NEW chosen, Untabled(ls)
  PROVE  Untabled(Splice(ls, chosen))
<1> DEFINE b == Splice(ls, chosen)
<1>1. b \in Seq(NoteLine) /\ \A l : l # Blank /\ l.kind # "trans" => Count(l, b) = Count(l, ls)
  BY SpliceCount
<1>2. \A l : l.kind \in {"entry", "head"} => l # Blank
  BY LineKinds
<1> HIDE DEF b
<1>3. \A l : Count(l, ls) \in Nat
  BY AtType
<1>4. \A l : l.kind \in {"entry", "head"} => Count(l, b) <= Count(l, ls)
  BY <1>1, <1>2, <1>3
<1>5. Untabled(b)
  BY <1>1, <1>4, UntabledFrom
<1> QED BY <1>5 DEF b

\* Neither does the linker, which takes out no more than its own section.
LEMMA ConnectedTabled ==
  ASSUME NEW ls \in Seq(NoteLine), NEW related \in Seq(Text), NEW b, Apart(ls), Tabled(ls),
         b = AppendRelated(LinkMentions(StripRelated(ls), Resolved(Entities, Names)), related)
  PROVE  Tabled(b)
<1> DEFINE body == LinkMentions(ls, Resolved(Entities, Names))
<1>1. StripRelated(ls) = ls
  <2>1. \A i \in DOMAIN ls : ls[i].kind = "head" => ls[i].text # RelatedNotes
    BY DEF Apart, Range
  <2> QED BY <2>1, StripCount
<1>2. b = AppendRelated(body, related)
  BY <1>1
<1>3. Relinked(ls, body, Linked)
  <2>1. Resolved(Entities, Names) \in Seq(Linked)
    BY ResolvedType, NoteEditsAssumption DEF Linked
  <2>2. \A t \in Linked : t.name \in Text
    BY DEF Linked
  <2> QED BY <2>1, <2>2, MentionsRelinked
<1> HIDE DEF body
<1>4. body \in Seq(NoteLine) /\ Len(body) = Len(ls) /\ \A i \in DOMAIN ls : Turned(ls[i], body[i], Linked)
  BY <1>3 DEF Relinked
<1>5. ASSUME NEW l, l.kind \in {"entry", "head"} PROVE Count(l, body) = Count(l, ls)
  <2>1. DOMAIN ls = DOMAIN body
    BY <1>4, Whole
  <2>2. \A i \in DOMAIN ls : ls[i] = l <=> body[i] = l
    <3>1. \A n : Link(n) # l
      BY <1>5, LineKinds
    <3> QED BY <1>4, <1>5, <3>1 DEF Turned
  <2>3. At(l, body) = At(l, ls)
    BY <2>1, <2>2 DEF At
  <2> QED BY <2>3 DEF Count
<1>6. /\ b \in Seq(NoteLine)
      /\ \A l : l.kind \notin {"head", "blank", "item"} => Count(l, b) = Count(l, body)
      /\ \A l : l # Blank => Count(l, b) >= Count(l, body)
  BY <1>2, <1>4, AppendCount
<1>7. ASSUME NEW l, l.kind = "entry" PROVE Count(l, b) <= Count(l, ls)
  <2>1. Count(l, b) = Count(l, ls)
    BY <1>5, <1>6, <1>7
  <2> QED BY <2>1, AtType
<1>8. ASSUME NEW l, l.kind = "head" PROVE Count(l, b) >= Count(l, ls)
  <2>1. l # Blank
    BY <1>8, LineKinds
  <2> QED BY <1>5, <1>6, <1>8, <2>1
<1> QED BY <1>6, <1>7, <1>8, TabledFrom

\* _write_back writes them all, while the note has its frontmatter.
LEMMA WrittenTabled ==
  ASSUME NEW b \in Seq(NoteLine), held.fm # NoFrontmatter
  PROVE  /\ Untabled(b) => Untabled(Normalise(Candidate(b)))
         /\ Tabled(b) => Tabled(Normalise(Candidate(b)))
<1> DEFINE c == Normalise(Candidate(b))
<1>1. c \in Seq(NoteLine) /\ \A l : l # Blank /\ l # Rule => Count(l, c) = Count(l, b)
  BY CandidateCount
<1> HIDE DEF c
<1>2. \A l : l.kind \in {"entry", "head"} => l # Blank /\ l # Rule
  BY LineKinds
<1>3. \A l : Count(l, b) \in Nat
  BY AtType
<1>4. \A l : l.kind \in {"entry", "head"} =>
        Count(l, c) <= Count(l, b) /\ Count(l, c) >= Count(l, b)
  BY <1>1, <1>2, <1>3
<1>5. Untabled(b) => Untabled(c)
  BY <1>1, <1>4, UntabledFrom
<1>6. Tabled(b) => Tabled(c)
  BY <1>1, <1>4, TabledFrom
<1> QED BY <1>5, <1>6 DEF c

\* What the user adds has no headings.
LEMMA SavedTabled ==
  ASSUME NEW ls \in Seq(NoteLine), NEW m \in Text,
         NEW b \in {ls \o <<Blank, Para(m)>>, <<Para(m), Blank>> \o ls}
  PROVE  (Untabled(ls) => Untabled(b)) /\ (Tabled(ls) => Tabled(b))
<1>1. b \in Seq(NoteLine) /\ \A l : l.kind \notin {"blank", "para"} => Count(l, b) = Count(l, ls)
  BY SavedText
<1>2. \A l : Count(l, ls) \in Nat
  BY AtType
<1>3. ASSUME NEW l, l.kind \in {"entry", "head"}
      PROVE  Count(l, b) <= Count(l, ls) /\ Count(l, b) >= Count(l, ls)
  <2>1. Count(l, b) = Count(l, ls)
    BY <1>1, <1>3
  <2> QED BY <1>2, <2>1
<1>4. Untabled(ls) => Untabled(b)
  BY <1>1, <1>3, UntabledFrom
<1>5. Tabled(ls) => Tabled(b)
  <2>1. \A l : l.kind = "entry" => Count(l, b) <= Count(l, ls)
    BY <1>3
  <2>2. \A l : l.kind = "head" => Count(l, b) >= Count(l, ls)
    BY <1>3
  <2> QED BY <1>1, <2>1, <2>2, TabledFrom
<1> QED BY <1>4, <1>5

\* Assembly adds a title and a heading for each section, without numbers.
LEMMA PlacedUntabled ==
  ASSUME PlainChunks, NEW plan \in Plan, NEW chunks \in [DOMAIN plan -> Chunk]
  PROVE  Untabled(Placed(plan, chunks))
<1> DEFINE Plain(l) == l.kind # "entry" /\ (l.kind = "head" => l.num = 0)
           S == {l \in NoteLine : Plain(l)}
           all == Assembled(Topic, plan, chunks)
           cut == TrimEnd(all)
           safe == Unwrapped(cut, Names)
           full == Append(safe, Blank)
<1>1. plan \in Seq(Text) /\ Chunk \subseteq Seq(NoteLine)
  BY NoteEditsAssumption
<1>2. /\ S \subseteq NoteLine
      /\ \A ls : ls \in Seq(S) <=> ls \in Seq(NoteLine) /\ Untabled(ls)
  <2>1. ASSUME NEW ls \in Seq(S) PROVE ls \in Seq(NoteLine) /\ Untabled(ls)
    BY DEF Untabled, Range
  <2>2. ASSUME NEW ls \in Seq(NoteLine), Untabled(ls) PROVE ls \in Seq(S)
    <3>1. \A i \in 1 .. Len(ls) : ls[i] \in S
      BY <2>2 DEF Untabled, Range
    <3> HIDE DEF S
    <3> QED BY <3>1
  <2> QED BY <2>1, <2>2
<1>3. Blank \in S /\ \A m \in {1, 2}, t \in Text : Heading(m, 0, t) \in S
  BY LineTypes, LineKinds
<1>4. \A l \in S : l.kind = "link" => Para(l.text) \in S
  <2>1. \A l \in NoteLine : l.text \in Text
    BY DEF NoteLine
  <2> QED BY <2>1, LineTypes, LineKinds
<1> HIDE DEF S
<1>5. ASSUME NEW i \in DOMAIN plan PROVE Trim(chunks[i]) \in Seq(S)
  <2>1. chunks[i] \in Seq(NoteLine) /\ Untabled(chunks[i])
    BY <1>1 DEF PlainChunks
  <2>2. /\ Trim(chunks[i]) \in Seq(NoteLine)
        /\ \A l : Count(l, Trim(chunks[i])) <= Count(l, chunks[i])
    BY <2>1, TrimCount
  <2>3. Untabled(Trim(chunks[i]))
    BY <2>1, <2>2, UntabledFrom
  <2> QED BY <1>2, <2>2, <2>3
<1>6. all \in Seq(S)
  BY <1>1, <1>3, <1>5, AssembledIn
<1> HIDE DEF all
<1>7. cut \in Seq(S)
  <2>1. all \in Seq(NoteLine) /\ Untabled(all)
    BY <1>2, <1>6
  <2>2. cut \in Seq(NoteLine) /\ \A l : Count(l, cut) <= Count(l, all)
    BY <2>1, TrimEndCount
  <2> HIDE DEF cut
  <2>3. Untabled(cut)
    BY <2>1, <2>2, UntabledFrom
  <2> QED BY <1>2, <2>2, <2>3
<1> HIDE DEF cut
<1>8. safe \in Seq(S)
  BY <1>4, <1>7, UnwrappedIn
<1> HIDE DEF safe
<1>9. full \in Seq(S)
  BY <1>3, <1>8
<1>10. full \in Seq(NoteLine) /\ Untabled(full)
  BY <1>2, <1>9
<1>11. Placed(plan, chunks) = Normalise(full)
  BY DEF Placed, full, safe, cut, all
<1> HIDE DEF full
<1>12. /\ Normalise(full) \in Seq(NoteLine)
       /\ \A l : l # Blank /\ l # Rule => Count(l, Normalise(full)) = Count(l, full)
  BY <1>10, NormaliseCount
<1>13. \A l : l.kind \in {"entry", "head"} => l # Blank /\ l # Rule
  BY LineKinds
<1>14. \A l : Count(l, full) \in Nat
  BY <1>10, AtType
<1>15. \A l : l.kind \in {"entry", "head"} => Count(l, Normalise(full)) <= Count(l, full)
  BY <1>12, <1>13, <1>14
<1>16. Untabled(Normalise(full))
  BY <1>10, <1>12, <1>15, UntabledFrom
<1> QED BY <1>11, <1>16

LEMMA WorkToc ==
  ASSUME Others, TocInv, NEW b, Worked(b), FairToc(b)
  PROVE  TocInv'
<1> SUFFICES ASSUME ~bared, ~Clashes
             PROVE  /\ stage' \in {"transitions", "tags", "formatting"} => Untabled(note.body)
                    /\ stage' \in {"transitions", "formatting"} /\ phase' = "hold"
                         => Untabled(held'.body)
                    /\ stage' = "transitions" /\ phase' = "write" => Untabled(made'.body)
                    /\ Tabled(note.body)
                    /\ phase' = "hold" => Tabled(held'.body)
                    /\ phase' = "write" => Tabled(made'.body)
  <2>1. UNCHANGED <<placed, note, bared>>
    BY DEF Worked, user
  <2>2. Clashes' = Clashes
    BY <2>1 DEF Clashes
  <2> QED BY <2>1, <2>2 DEF TocInv
<1>1. /\ phase = "hold" /\ b \in Seq(NoteLine) /\ Tabled(b)
      /\ stage = "transitions" => Untabled(b)
      /\ Go(After(stage)) \/ Writes(b)
  BY DEF Worked, FairToc
<1>2. /\ Tabled(note.body)
      /\ stage \in {"transitions", "tags", "formatting"} => Untabled(note.body)
  BY DEF TocInv
<1>3. stage \in {"transitions", "formatting", "linking"}
  BY <1>1 DEF Others, Phases
<1>4. CASE Go(After(stage))
  BY <1>2, <1>3, <1>4, Afters DEF Go
<1>5. CASE Writes(b)
  <2>1. held.fm # NoFrontmatter
    BY <1>1, FmTypes DEF Others, Fielded
  <2>2. /\ Tabled(Normalise(Candidate(b)))
        /\ Untabled(b) => Untabled(Normalise(Candidate(b)))
    BY <1>1, <2>1, WrittenTabled
  <2>3. stage' = stage /\ phase' = "write" /\ made'.body = Normalise(Candidate(b))
    BY <1>5 DEF Writes
  <2> QED BY <1>1, <1>2, <2>2, <2>3
<1> QED BY <1>1, <1>4, <1>5

LEMMA WeaveToc ==
  ASSUME Others, TocInv, Weave
  PROVE  TocInv'
<1>1. /\ Phases /\ stage = "transitions" /\ phase = "hold"
      /\ UNCHANGED <<placed, note, user>> /\ linked' = linked /\ linked \subseteq Names
  BY DEF Others, Weave, Phases, TypeOK
<1>2. held.body \in Seq(NoteLine)
  BY <1>1, HeldNote
<1>3. ~bared /\ ~Clashes => Untabled(held.body)
  BY <1>1 DEF TocInv
<1>4. PICK sections : SpliceAccepted(sections)
  BY DEF Weave
<1>5. CASE sections = {}
  <2>1. Go(After(stage))
    BY <1>1, <1>4, <1>5, Afters DEF SpliceAccepted
  <2>2. Worked(held.body)
    BY <1>1, <1>2, <2>1 DEF Worked
  <2>3. FairToc(held.body)
    BY <1>3, UntabledTabled DEF FairToc
  <2> QED BY <2>2, <2>3, WorkToc
<1>6. CASE sections # {}
  <2> DEFINE b == Splice(held.body, sections)
  <2>1. WriteBack(b)
    BY <1>4, <1>6 DEF SpliceAccepted
  <2>2. b \in Seq(NoteLine) /\ (Untabled(held.body) => Untabled(b))
    BY <1>2, WovenText, WovenUntabled
  <2> HIDE DEF b
  <2>3. Worked(b)
    BY <1>1, <2>1, <2>2, WriteBackWrites DEF Worked
  <2>4. FairToc(b)
    BY <1>3, <2>2, UntabledTabled DEF FairToc
  <2> QED BY <2>3, <2>4, WorkToc
<1> QED BY <1>5, <1>6

LEMMA FormatToc ==
  ASSUME SafeIsSafe, Others, TocInv, Format
  PROVE  TocInv'
<1>1. /\ Phases /\ stage = "formatting" /\ phase = "hold"
      /\ UNCHANGED <<placed, note, user>> /\ linked' = linked /\ linked \subseteq Names
  BY DEF Others, Format, Phases, TypeOK
<1>2. held.body \in Seq(NoteLine)
  BY <1>1, HeldNote
<1>3. ~bared /\ ~Clashes => Untabled(held.body) /\ Tabled(held.body)
  BY <1>1 DEF TocInv
<1> DEFINE b == ApplyStructure(held.body)
<1>4. CASE b = held.body
  <2>1. Go(After(stage))
    BY <1>1, <1>4, Afters DEF Format
  <2>2. Worked(held.body)
    BY <1>1, <1>2, <2>1 DEF Worked
  <2>3. FairToc(held.body)
    BY <1>1, <1>3 DEF FairToc
  <2> QED BY <2>2, <2>3, WorkToc
<1>5. CASE b # held.body
  <2>1. WriteBack(b)
    BY <1>5 DEF Format
  <2>2. b \in Seq(NoteLine) /\ (Untabled(held.body) => Tabled(b))
    BY <1>2, FormattedText, StructureTabled
  <2> HIDE DEF b
  <2>3. Worked(b)
    BY <1>1, <2>1, <2>2, WriteBackWrites DEF Worked
  <2>4. FairToc(b)
    BY <1>1, <1>3, <2>2 DEF FairToc
  <2> QED BY <2>3, <2>4, WorkToc
<1> QED BY <1>4, <1>5

LEMMA ConnectToc ==
  ASSUME Others, TocInv, Connect
  PROVE  TocInv'
<1> DEFINE bare == StripRelated(held.body)
           body == LinkMentions(bare, Resolved(Entities, Names))
           fresh == {n \in Names : Link(n) \in Range(body) \ Range(bare)}
<1>1. /\ Phases /\ stage = "linking" /\ phase = "hold"
      /\ UNCHANGED <<placed, note, user>> /\ linked \subseteq Names
  BY DEF Others, Connect, Phases, TypeOK
<1>2. held.body \in Seq(NoteLine)
  BY <1>1, HeldNote
<1>3. ~bared /\ ~Clashes => Apart(held.body) /\ Tabled(held.body)
  BY <1>1 DEF TocInv, Others, Headed
<1>4. PICK related \in Related :
        IF fresh = {} /\ Rendered(related) = <<>>
        THEN Go("done") /\ UNCHANGED linked
        ELSE /\ WriteBack(AppendRelated(body, related))
             /\ linked' = IF phase' = "write" THEN fresh ELSE {}
  BY DEF Connect
<1>5. related \in Seq(Text)
  BY NoteEditsAssumption
<1>6. CASE fresh = {} /\ Rendered(related) = <<>>
  <2>1. Go(After(stage)) /\ linked' = linked
    BY <1>1, <1>4, <1>6, Afters
  <2>2. Worked(held.body)
    BY <1>1, <1>2, <2>1 DEF Worked
  <2>3. FairToc(held.body)
    BY <1>1, <1>3 DEF FairToc
  <2> QED BY <2>2, <2>3, WorkToc
<1>7. CASE ~(fresh = {} /\ Rendered(related) = <<>>)
  <2> DEFINE b == AppendRelated(body, related)
  <2>1. WriteBack(b) /\ linked' = IF phase' = "write" THEN fresh ELSE {}
    BY <1>4, <1>7
  <2>2. linked' \subseteq Names
    BY <2>1
  <2>3. b = AppendRelated(LinkMentions(StripRelated(held.body), Resolved(Entities, Names)), related)
    OBVIOUS
  <2> HIDE DEF b, body, bare, fresh
  <2>4. b \in Seq(NoteLine)
    BY <1>2, <1>5, <2>3, ConnectedText
  <2>5. ~bared /\ ~Clashes => Tabled(b)
    BY <1>2, <1>3, <1>5, <2>3, ConnectedTabled
  <2>6. Worked(b)
    BY <1>1, <2>1, <2>2, <2>4, WriteBackWrites DEF Worked
  <2>7. FairToc(b)
    BY <1>1, <2>5 DEF FairToc
  <2> QED BY <2>6, <2>7, WorkToc
<1> QED BY <1>6, <1>7

LEMMA StepToc ==
  ASSUME SafeIsSafe, IInv, TocInv, [Next]_vars
  PROVE  TocInv'
<1>0. Others
  BY DEF IInv, Others
<1>1. ASSUME UNCHANGED placed PROVE Clashes' = Clashes
  BY <1>1 DEF Clashes
<1>2. CASE Read
  <2>1. /\ stage \in {"transitions", "formatting", "linking"} /\ phase = "read"
        /\ held' = note /\ phase' = "hold"
        /\ UNCHANGED <<placed, note, stage, made, linked, edits, saved, bared>>
    BY <1>2 DEF Read, user
  <2> QED BY <1>1, <2>1 DEF TocInv
<1>3. CASE Weave
  BY <1>0, <1>3, WeaveToc
<1>4. CASE WriteTags
  <2>1. PICK tags \in {"[]", "some"} : note' = [note EXCEPT !.fm = Tagged(note.fm, tags)]
    BY <1>4 DEF WriteTags
  <2>2. /\ stage = "tags" /\ stage' = "formatting" /\ phase' = "read"
        /\ UNCHANGED <<placed, bared>>
    BY <1>4 DEF WriteTags, Go, user
  <2>3. note'.body = note.body
    <3>1. \A x : [note EXCEPT !.fm = x].body = note.body
      BY <1>0 DEF Others, Phases, Note
    <3> QED BY <2>1, <3>1
  <2> QED BY <1>1, <2>2, <2>3 DEF TocInv
<1>5. CASE Format
  BY <1>0, <1>5, FormatToc
<1>6. CASE Connect
  BY <1>0, <1>6, ConnectToc
<1>7. CASE Place
  <2>1. /\ phase = "write" /\ note' = made /\ stage' = After(stage) /\ phase' = "read"
        /\ UNCHANGED <<placed, bared>>
    BY <1>7 DEF Place, Go, user
  <2>2. stage \in {"transitions", "formatting", "linking"}
    BY <1>0, <2>1 DEF Others, Phases
  <2> QED BY <1>1, <2>1, <2>2, Afters DEF TocInv
<1>8. CASE AddBelow \/ AddAbove
  <2> DEFINE m == Mine[edits + 1]
             below == note.body \o <<Blank, Para(m)>>
             above == <<Para(m), Blank>> \o note.body
  <2>1. PICK b \in {below, above} :
          /\ CanSave /\ note' = [note EXCEPT !.body = b]
          /\ UNCHANGED <<placed, stage, phase, held, made, bared>>
    BY <1>8 DEF AddBelow, AddAbove, Save, run
  <2>2. m \in Text
    <3>1. edits \in 0 .. MaxEdits /\ edits < MaxEdits
      BY <1>0, <2>1 DEF Others, Phases, TypeOK, CanSave
    <3>2. MaxEdits \in 0 .. Len(Mine) /\ Mine \in Seq(Text) /\ Len(Mine) \in Nat
      BY NoteEditsAssumption
    <3>3. edits + 1 \in 1 .. Len(Mine)
      BY <3>1, <3>2
    <3> QED BY <3>2, <3>3
  <2>3. note \in Note /\ note.body \in Seq(NoteLine)
    BY <1>0, NoteParts DEF Others, Phases
  <2> HIDE DEF m
  <2>4. /\ b \in Seq(NoteLine)
        /\ Untabled(note.body) => Untabled(b)
        /\ Tabled(note.body) => Tabled(b)
    <3>1. b \in Seq(NoteLine)
      BY <2>2, <2>3, SavedText
    <3> QED BY <2>2, <2>3, <3>1, SavedTabled
  <2> HIDE DEF below, above
  <2>5. note'.body = b
    BY <2>1, <2>3, <2>4, NoteParts
  <2> QED BY <1>1, <2>1, <2>4, <2>5 DEF TocInv
<1>9. CASE AddField \/ DropFrontmatter
  <2>1. UNCHANGED <<placed, stage, phase, held, made>> /\ (~bared' => ~bared)
    BY <1>9 DEF AddField, DropFrontmatter, run
  <2>2. note'.body = note.body
    <3>1. \A x \in Note : \A fm : [x EXCEPT !.fm = fm].body = x.body
      BY DEF Note
    <3>2. \E fm : note' = [note EXCEPT !.fm = fm]
      <4>1. CASE AddField
        <5>1. note' = [note EXCEPT !.fm.own = TRUE]
          BY <4>1 DEF AddField
        <5>2. note' = [note EXCEPT !.fm = [note.fm EXCEPT !.own = TRUE]]
          BY <5>1
        <5> QED BY <5>2
      <4>2. CASE DropFrontmatter
        BY <4>2 DEF DropFrontmatter
      <4> QED BY <1>9, <4>1, <4>2
    <3> QED BY <1>0, <3>1, <3>2 DEF Others, Phases
  <2> QED BY <1>1, <2>1, <2>2 DEF TocInv
<1>10. CASE UNCHANGED vars
  <2>1. UNCHANGED <<placed, note, stage, phase, held, made, bared>>
    BY <1>10 DEF vars, run, user
  <2> QED BY <1>1, <2>1 DEF TocInv
<1> QED BY <1>2, <1>3, <1>4, <1>5, <1>6, <1>7, <1>8, <1>9, <1>10 DEF Next, Stage, User

LEMMA InitToc ==
  ASSUME PlainChunks, Init
  PROVE  TocInv
<1>1. /\ stage = "transitions" /\ phase = "read"
      /\ note = [fm |-> [tags |-> "[]", own |-> FALSE], body |-> placed]
  BY DEF Init
<1>2. note.body = placed
  BY <1>1
<1>3. Untabled(placed)
  BY PlacedUntabled DEF Init
<1> QED BY <1>1, <1>2, <1>3, UntabledTabled DEF TocInv

\* Until the note loses its frontmatter, every entry of its table of contents leads
\* to a heading of the note (structure.py:18, generate_toc, _link_safe), whatever
\* the linker and the user do to the note after the formatter.
THEOREM TocFound == PlainChunks /\ SafeIsSafe => (Spec => [](bared \/ TocResolves))
<1> SUFFICES ASSUME PlainChunks, SafeIsSafe PROVE Spec => [](bared \/ TocResolves)
  OBVIOUS
<1>1. Init => TocInv
  BY InitToc
<1>2. IInv /\ TocInv /\ [Next]_vars => TocInv'
  BY StepToc
<1>3. IInv /\ TocInv => bared \/ TocResolves
  <2> SUFFICES ASSUME IInv, TocInv, ~bared, ~Clashes
               PROVE  Tabled(note.body) => TocResolves
    BY DEF TocInv, TocResolves
  <2> QED BY DEF Tabled, TocResolves, Range
<1> QED BY <1>1, <1>2, <1>3, Invariant, PTL DEF Spec

-----------------------------------------------------------------------------
(* Reading a text line by line.                                            *)

LEMMA FedStates ==
  ASSUME NEW S, NEW d, Reader(d, S), NEW s \in S, NEW ls \in Seq(NoteLine)
  PROVE  \E f \in [0 .. Len(ls) -> S] :
           /\ f[0] = s /\ \A i \in 1 .. Len(ls) : f[i] = d[<<f[i - 1], ls[i]>>]
           /\ Fed(d, s, ls) = f[Len(ls)]
<1> DEFINE n == Len(ls)
           F == [p \in S \X (1 .. n) |-> d[<<p[1], ls[p[2]]>>]]
           h == CHOOSE x : IsFed(x, d, s, ls)
<1>0. n \in Nat /\ DOMAIN ls = 1 .. n
  OBVIOUS
<1>1. F \in [S \X (1 .. n) -> S]
  <2>1. d \in [S \X NoteLine -> S]
    BY DEF Reader
  <2> QED BY <1>0, <2>1
<1>2. \A a \in S, i \in 1 .. n : F[<<a, i>>] = d[<<a, ls[i]>>]
  OBVIOUS
<1> HIDE DEF F
<1>4. PICK f : Solves(f, n, S, s, F)
  BY <1>0, <1>1, Recursion
<1>5. f \in [0 .. n -> S] /\ f[0] = s
  BY <1>4 DEF Solves
<1>6. ASSUME NEW i \in 1 .. n PROVE f[i] = d[<<f[i - 1], ls[i]>>]
  <2>1. i - 1 \in 0 .. n /\ f[i - 1] \in S
    BY <1>0, <1>5
  <2> QED BY <1>2, <1>4, <2>1 DEF Solves
<1>7. IsFed(f, d, s, ls)
  <2>1. ASSUME NEW i \in 0 .. n
        PROVE  f[i] = IF i = 0 THEN s ELSE d[<<f[i - 1], ls[i]>>]
    <3>1. i = 0 \/ i \in 1 .. n
      BY <1>0
    <3> QED BY <1>5, <1>6, <3>1
  <2> QED BY <1>5, <2>1 DEF IsFed
<1>8. IsFed(h, d, s, ls)
  BY <1>7
<1>9. Fed(d, s, ls) = h[n]
  BY DEF Fed, IsFed
<1> HIDE DEF h
<1> DEFINE T == {i \in 0 .. n : h[i] = f[i]}
<1>10. 0 \in T
  <2>1. 0 \in 0 .. n
    BY <1>0
  <2>2. h[0] = f[0]
    BY <1>5, <1>8, <2>1 DEF IsFed
  <2> QED BY <2>1, <2>2
<1>11. ASSUME NEW i \in 1 .. n, i - 1 \in T PROVE i \in T
  <2>1. i \in 0 .. n /\ i # 0
    BY <1>0
  <2>2. h[i] = d[<<h[i - 1], ls[i]>>]
    BY <1>8, <2>1 DEF IsFed
  <2>3. h[i] = f[i]
    BY <1>6, <1>11, <2>2
  <2> QED BY <2>1, <2>3
<1> HIDE DEF T
<1>12. n \in T
  <2>1. \A i \in 1 .. n : i - 1 \in T => i \in T
    BY <1>11
  <2> QED BY <1>0, <1>10, <2>1, UpTo, Zenon
<1> QED BY <1>5, <1>6, <1>9, <1>12 DEF T

\* Reading no line, and one more.
LEMMA FedNone ==
  ASSUME NEW S, NEW d, Reader(d, S), NEW s \in S
  PROVE  Fed(d, s, <<>>) = s
<1>1. PICK none \in Seq(NoteLine) : none = <<>> /\ Len(none) = 0
  BY EmptySeq
<1>2. PICK e \in [0 .. Len(none) -> S] : e[0] = s /\ Fed(d, s, none) = e[Len(none)]
  BY FedStates
<1>3. Fed(d, s, none) = s
  BY <1>1, <1>2
<1> QED BY <1>1, <1>3

LEMMA FedLine ==
  ASSUME NEW S, NEW d, Reader(d, S), NEW s \in S, NEW ls \in Seq(NoteLine), NEW l \in NoteLine
  PROVE  /\ Fed(d, s, ls) \in S /\ Fed(d, s, <<>>) = s
         /\ Append(ls, l) \in Seq(NoteLine)
         /\ Fed(d, s, Append(ls, l)) = d[<<Fed(d, s, ls), l>>]
<1> DEFINE n == Len(ls)
           more == Append(ls, l)
<1>0. n \in Nat /\ DOMAIN ls = 1 .. n
  OBVIOUS
<1>1. more \in Seq(NoteLine) /\ Len(more) = n + 1 /\ more[n + 1] = l
      /\ \A i \in 1 .. n : more[i] = ls[i]
  BY <1>0
<1> HIDE DEF more
<1>2. PICK f \in [0 .. n -> S] :
        /\ f[0] = s /\ \A i \in 1 .. n : f[i] = d[<<f[i - 1], ls[i]>>]
        /\ Fed(d, s, ls) = f[n]
  BY FedStates
<1>3. PICK g \in [0 .. n + 1 -> S] :
        /\ g[0] = s /\ \A i \in 1 .. n + 1 : g[i] = d[<<g[i - 1], more[i]>>]
        /\ Fed(d, s, more) = g[n + 1]
  BY <1>1, FedStates
<1> DEFINE T == {i \in 0 .. n : g[i] = f[i]}
<1>4. 0 \in T
  BY <1>0, <1>2, <1>3
<1>5. ASSUME NEW i \in 1 .. n, i - 1 \in T PROVE i \in T
  <2>1. i \in 0 .. n /\ i \in 1 .. n + 1
    BY <1>0
  <2>2. g[i] = d[<<g[i - 1], ls[i]>>] /\ f[i] = d[<<f[i - 1], ls[i]>>]
    BY <1>1, <1>2, <1>3, <2>1
  <2> QED BY <1>5, <2>1, <2>2
<1> HIDE DEF T
<1>6. n \in T
  <2>1. \A i \in 1 .. n : i - 1 \in T => i \in T
    BY <1>5
  <2> QED BY <1>0, <1>4, <2>1, UpTo, Zenon
<1>7. Fed(d, s, more) = d[<<Fed(d, s, ls), l>>]
  <2>1. n + 1 \in 1 .. n + 1 /\ (n + 1) - 1 = n
    BY <1>0
  <2>2. g[n + 1] = d[<<g[n], l>>]
    BY <1>1, <1>3, <2>1
  <2>3. g[n] = f[n]
    BY <1>6 DEF T
  <2> QED BY <1>2, <1>3, <2>2, <2>3
<1>8. Fed(d, s, ls) \in S
  BY <1>0, <1>2
<1>9. Fed(d, s, <<>>) = s
  BY FedNone
<1> QED BY <1>1, <1>7, <1>8, <1>9 DEF more

LEMMA SeenStep ==
  ASSUME NEW S, NEW d, Reader(d, S), NEW s \in S, NEW ls \in Seq(NoteLine)
  PROVE  /\ Seen(d, s, ls, 0) = s /\ Seen(d, s, ls, Len(ls)) = Fed(d, s, ls)
         /\ \A i \in 0 .. Len(ls) : Seen(d, s, ls, i) \in S
         /\ \A i \in 1 .. Len(ls) :
              /\ i - 1 \in 0 .. Len(ls) /\ Seen(d, s, ls, i - 1) \in S /\ ls[i] \in NoteLine
              /\ Seen(d, s, ls, i) = d[<<Seen(d, s, ls, i - 1), ls[i]>>]
<1>1. SubSeq(ls, 1, 0) = <<>> /\ SubSeq(ls, 1, Len(ls)) = ls /\ Len(ls) \in Nat
  BY Whole
<1>2. Seen(d, s, ls, 0) = s /\ Seen(d, s, ls, Len(ls)) = Fed(d, s, ls)
  <2>2. Fed(d, s, <<>>) = s
    BY FedNone
  <2> QED BY <1>1, <2>2 DEF Seen
<1>3. ASSUME NEW i \in 0 .. Len(ls) PROVE Seen(d, s, ls, i) \in S
  <2>1. SubSeq(ls, 1, i) \in Seq(NoteLine) /\ Blank \in NoteLine
    BY LineTypes
  <2> QED BY <2>1, FedLine DEF Seen
<1>4. ASSUME NEW i \in 1 .. Len(ls)
      PROVE  /\ i - 1 \in 0 .. Len(ls) /\ ls[i] \in NoteLine
             /\ Seen(d, s, ls, i) = d[<<Seen(d, s, ls, i - 1), ls[i]>>]
  <2>1. /\ SubSeq(ls, 1, i - 1) \in Seq(NoteLine) /\ ls[i] \in NoteLine
        /\ SubSeq(ls, 1, i) = Append(SubSeq(ls, 1, i - 1), ls[i])
    BY Prefix
  <2>2. i - 1 \in 0 .. Len(ls)
    BY <1>1
  <2> DEFINE p == SubSeq(ls, 1, i - 1)
  <2> HIDE DEF p
  <2>3. p \in Seq(NoteLine) /\ SubSeq(ls, 1, i) = Append(p, ls[i])
    BY <2>1 DEF p
  <2>4. Fed(d, s, Append(p, ls[i])) = d[<<Fed(d, s, p), ls[i]>>]
    BY <2>1, <2>3, FedLine
  <2> QED BY <2>1, <2>2, <2>3, <2>4 DEF Seen, p
<1> QED BY <1>2, <1>3, <1>4

LEMMA FedConcat ==
  ASSUME NEW S, NEW d, Reader(d, S), NEW s \in S, NEW a \in Seq(NoteLine), NEW b \in Seq(NoteLine)
  PROVE  /\ a \o b \in Seq(NoteLine) /\ Fed(d, s, a) \in S
         /\ Fed(d, s, a \o b) = Fed(d, Fed(d, s, a), b)
<1> DEFINE n == Len(b)
           mid == Fed(d, s, a)
           T == {i \in 0 .. n : Fed(d, s, a \o SubSeq(b, 1, i)) = Seen(d, mid, b, i)}
<1>0. n \in Nat /\ SubSeq(b, 1, 0) = <<>> /\ SubSeq(b, 1, n) = b
  BY Whole
<1>1. mid \in S /\ Blank \in NoteLine
  BY FedLine, LineTypes
<1>2. 0 \in T
  <2>1. a \o SubSeq(b, 1, 0) = a
    BY <1>0, ConcatEmptySeq
  <2>2. Seen(d, mid, b, 0) = mid
    BY <1>1, SeenStep
  <2>3. Fed(d, s, a \o SubSeq(b, 1, 0)) = Seen(d, mid, b, 0)
    BY <2>1, <2>2, Zenon
  <2>4. 0 \in 0 .. n
    BY <1>0
  <2> QED BY <2>3, <2>4
<1>3. ASSUME NEW i \in 1 .. n, i - 1 \in T PROVE i \in T
  <2> DEFINE p == SubSeq(b, 1, i - 1)
  <2>1. p \in Seq(NoteLine) /\ b[i] \in NoteLine /\ SubSeq(b, 1, i) = Append(p, b[i])
    BY Prefix
  <2>2. Fed(d, s, a \o p) = Seen(d, mid, b, i - 1)
    BY <1>3
  <2>3. Seen(d, mid, b, i) = d[<<Seen(d, mid, b, i - 1), b[i]>>]
    BY <1>1, SeenStep
  <2> HIDE DEF p, mid
  <2>4. a \o Append(p, b[i]) = Append(a \o p, b[i]) /\ a \o p \in Seq(NoteLine)
    BY <2>1
  <2>5. Fed(d, s, Append(a \o p, b[i])) = d[<<Fed(d, s, a \o p), b[i]>>]
    <3>1. PICK q \in Seq(NoteLine) : q = a \o p
      BY <2>4
    <3>2. Fed(d, s, Append(q, b[i])) = d[<<Fed(d, s, q), b[i]>>]
      BY <2>1, FedLine
    <3> QED BY <3>1, <3>2
  <2>6. Fed(d, s, a \o SubSeq(b, 1, i)) = Seen(d, mid, b, i)
    BY <2>1, <2>2, <2>3, <2>4, <2>5
  <2> QED BY <1>0, <2>6
<1> HIDE DEF T
<1>4. n \in T
  <2>1. \A i \in 1 .. n : i - 1 \in T => i \in T
    BY <1>3
  <2> QED BY <1>0, <1>2, <2>1, UpTo, Zenon
<1>5. Fed(d, s, a \o b) = Seen(d, mid, b, n)
  BY <1>0, <1>4 DEF T
<1>6. Seen(d, mid, b, n) = Fed(d, mid, b)
  BY <1>1, SeenStep
<1> QED BY <1>1, <1>5, <1>6

\* Two texts that differ in lines which mean the same to the reader.
LEMMA FedSame ==
  ASSUME NEW S, NEW d, Reader(d, S), NEW s \in S, NEW a \in Seq(NoteLine), NEW b \in Seq(NoteLine),
         Len(a) = Len(b),
         \A i \in 1 .. Len(a) :
           d[<<Seen(d, s, a, i - 1), b[i]>>] = d[<<Seen(d, s, a, i - 1), a[i]>>]
  PROVE  /\ Fed(d, s, b) = Fed(d, s, a)
         /\ \A i \in 0 .. Len(a) : Seen(d, s, b, i) = Seen(d, s, a, i)
<1> DEFINE n == Len(a)
           T == {i \in 0 .. n : Seen(d, s, b, i) = Seen(d, s, a, i)}
<1>0. n \in Nat
  BY Whole
<1>1. 0 \in T
  BY <1>0, SeenStep
<1>2. ASSUME NEW i \in 1 .. n, i - 1 \in T PROVE i \in T
  <2>1. Seen(d, s, a, i) = d[<<Seen(d, s, a, i - 1), a[i]>>]
    BY SeenStep
  <2>2. Seen(d, s, b, i) = d[<<Seen(d, s, b, i - 1), b[i]>>]
    BY SeenStep
  <2> QED BY <1>0, <1>2, <2>1, <2>2
<1> HIDE DEF T
<1>3. ASSUME NEW i \in 0 .. n PROVE i \in T
  <2>1. \A j \in 1 .. i : j - 1 \in T => j \in T
    BY <1>0, <1>2
  <2> QED BY <1>0, <1>1, <2>1, UpTo
<1>4. \A i \in 0 .. n : Seen(d, s, b, i) = Seen(d, s, a, i)
  BY <1>3 DEF T
<1>5. Seen(d, s, b, n) = Seen(d, s, a, n)
  BY <1>0, <1>4
<1> QED BY <1>4, <1>5, SeenStep

\* A pass that replaces every line by lines that mean the same.
LEMMA FedFlatten ==
  ASSUME NEW S, NEW d, Reader(d, S), NEW s \in S, NEW ls \in Seq(NoteLine),
         NEW g \in [1 .. Len(ls) -> Seq(NoteLine)],
         \A i \in 1 .. Len(ls) :
           Fed(d, Seen(d, s, ls, i - 1), g[i]) = d[<<Seen(d, s, ls, i - 1), ls[i]>>]
  PROVE  FlattenSeq(g) \in Seq(NoteLine) /\ Fed(d, s, FlattenSeq(g)) = Fed(d, s, ls)
<1> DEFINE n == Len(ls)
<1>0. n \in Nat
  BY Whole
<1>1. PICK f \in [0 .. n -> Seq(NoteLine)] :
        /\ f[0] = <<>> /\ \A i \in 1 .. n : f[i] = f[i - 1] \o g[i]
        /\ FlattenSeq(g) = f[n]
  BY <1>0, Flattened
<1> DEFINE T == {i \in 0 .. n : Fed(d, s, f[i]) = Seen(d, s, ls, i)}
<1>2. 0 \in T
  <2>2. Fed(d, s, <<>>) = s
    BY FedNone
  <2>3. Seen(d, s, ls, 0) = s
    BY SeenStep
  <2> QED BY <1>0, <1>1, <2>2, <2>3
<1>3. ASSUME NEW i \in 1 .. n, i - 1 \in T PROVE i \in T
  <2>1. i \in 0 .. n /\ i - 1 \in 0 .. n
    BY <1>0
  <2>2. f[i - 1] \in Seq(NoteLine) /\ g[i] \in Seq(NoteLine) /\ f[i] = f[i - 1] \o g[i]
    BY <1>1, <2>1
  <2>3. Fed(d, s, f[i - 1] \o g[i]) = Fed(d, Fed(d, s, f[i - 1]), g[i])
    BY <2>2, FedConcat
  <2>4. Fed(d, s, f[i - 1]) = Seen(d, s, ls, i - 1)
    BY <1>3
  <2>5. Seen(d, s, ls, i) = d[<<Seen(d, s, ls, i - 1), ls[i]>>]
    BY SeenStep
  <2>6. Fed(d, s, f[i]) = Seen(d, s, ls, i)
    BY <2>2, <2>3, <2>4, <2>5
  <2> QED BY <2>1, <2>6
<1> HIDE DEF T
<1>4. n \in T
  <2>1. \A i \in 1 .. n : i - 1 \in T => i \in T
    BY <1>3
  <2> QED BY <1>0, <1>2, <2>1, UpTo, Zenon
<1>5. Fed(d, s, f[n]) = Seen(d, s, ls, n)
  BY <1>4 DEF T
<1>6. f[n] \in Seq(NoteLine)
  BY <1>0, <1>1
<1> QED BY <1>1, <1>5, <1>6, SeenStep

\* All readers know the same fence to be open.
LEMMA FedOpen ==
  ASSUME NEW S, NEW d, Reader(d, S), NEW s \in S, NEW R, NEW e, Reader(e, R), NEW r \in R,
         s.open = r.open, NEW ls \in Seq(NoteLine)
  PROVE  Fed(d, s, ls).open = Fed(e, r, ls).open
<1> DEFINE n == Len(ls)
           T == {i \in 0 .. n : Seen(d, s, ls, i).open = Seen(e, r, ls, i).open}
<1>0. n \in Nat
  BY Whole
<1>1. 0 \in T
  <2>1. Seen(d, s, ls, 0) = s /\ Seen(e, r, ls, 0) = r
    BY SeenStep
  <2> QED BY <1>0, <2>1
<1>2. ASSUME NEW i \in 1 .. n, i - 1 \in T PROVE i \in T
  <2>1. /\ Seen(d, s, ls, i - 1) \in S /\ ls[i] \in NoteLine
        /\ Seen(d, s, ls, i) = d[<<Seen(d, s, ls, i - 1), ls[i]>>]
    BY SeenStep
  <2>2. /\ Seen(e, r, ls, i - 1) \in R
        /\ Seen(e, r, ls, i) = e[<<Seen(e, r, ls, i - 1), ls[i]>>]
    BY SeenStep
  <2>3. /\ Seen(d, s, ls, i).open = Opened(Seen(d, s, ls, i - 1).open, ls[i], Strict)
        /\ Seen(e, r, ls, i).open = Opened(Seen(e, r, ls, i - 1).open, ls[i], Strict)
    BY <2>1, <2>2 DEF Reader
  <2>4. Seen(d, s, ls, i - 1).open = Seen(e, r, ls, i - 1).open
    BY <1>2
  <2> QED BY <1>0, <2>3, <2>4
<1> HIDE DEF T
<1>3. n \in T
  <2>1. \A i \in 1 .. n : i - 1 \in T => i \in T
    BY <1>2
  <2> QED BY <1>0, <1>1, <2>1, UpTo, Zenon
<1>4. Seen(d, s, ls, n).open = Seen(e, r, ls, n).open
  BY <1>3 DEF T
<1> QED BY <1>4, SeenStep

\* Prose is what a reader finds outside.
LEMMA SeenProse ==
  ASSUME NEW S, NEW d, Reader(d, S), NEW s \in S, Outside(s), NEW ls \in Seq(NoteLine)
  PROVE  Prose(ls, Strict)
           = {i \in DOMAIN ls : ls[i].kind \notin Strict /\ Outside(Seen(d, s, ls, i - 1))}
<1> DEFINE n == Len(ls)
<1>0. n \in Nat /\ DOMAIN ls = 1 .. n
  BY Whole
<1>1. PICK o : /\ IsOpen(o, ls, Strict)
               /\ Prose(ls, Strict) = {i \in DOMAIN ls : ls[i].kind \notin Strict /\ o[i - 1] = ""}
  <2>1. \E o : /\ IsOpen(o, ls, Strict)
               /\ Prose(ls, Strict) = {i \in DOMAIN ls : ls[i].kind \notin Strict /\ o[i - 1] = ""}
    <3>1. \A fences : \E o : /\ IsOpen(o, ls, fences)
            /\ Prose(ls, fences) = {i \in DOMAIN ls : ls[i].kind \notin fences /\ o[i - 1] = ""}
      BY ProseOpen
    <3> QED BY <3>1, Zenon
  <2> QED BY <2>1, Zenon
<1> DEFINE T == {i \in 0 .. n : Seen(d, s, ls, i).open = o[i]}
<1>2. 0 \in T
  <2>1. Seen(d, s, ls, 0) = s
    BY SeenStep
  <2>2. s.open = o[0]
    BY <1>1, Zenon DEF IsOpen, Outside
  <2> QED BY <1>0, <2>1, <2>2
<1>3. ASSUME NEW i \in 1 .. n, i - 1 \in T PROVE i \in T
  <2>1. /\ Seen(d, s, ls, i - 1) \in S /\ ls[i] \in NoteLine
        /\ Seen(d, s, ls, i) = d[<<Seen(d, s, ls, i - 1), ls[i]>>]
    BY SeenStep
  <2>2. Seen(d, s, ls, i).open = Opened(Seen(d, s, ls, i - 1).open, ls[i], Strict)
    BY <2>1 DEF Reader
  <2>3. o[i] = Opened(o[i - 1], ls[i], Strict)
    BY <1>1, Zenon DEF IsOpen
  <2>4. Seen(d, s, ls, i - 1).open = o[i - 1]
    BY <1>3
  <2> QED BY <1>0, <2>2, <2>3, <2>4
<1> HIDE DEF T
<1>4. ASSUME NEW i \in 0 .. n PROVE i \in T
  <2>1. \A j \in 1 .. i : j - 1 \in T => j \in T
    BY <1>0, <1>3
  <2> QED BY <1>0, <1>2, <2>1, UpTo
<1>5. ASSUME NEW i \in DOMAIN ls PROVE Outside(Seen(d, s, ls, i - 1)) <=> o[i - 1] = ""
  <2>1. i - 1 \in T
    BY <1>0, <1>4
  <2>2. Seen(d, s, ls, i - 1).open = o[i - 1]
    BY <2>1 DEF T
  <2> QED BY <2>2, Zenon DEF Outside
<1> QED BY <1>1, <1>5, Zenon

\* Lines that are not fences open nothing; outside, quiet lines tell nothing.
LEMMA FedQuiet ==
  ASSUME NEW S, NEW d, Reader(d, S), NEW s \in S, NEW ls \in Seq(NoteLine),
         \A i \in 1 .. Len(ls) : ls[i].kind \notin Strict /\ Quiet(d, S, ls[i])
  PROVE  /\ Fed(d, s, ls).open = s.open
         /\ Outside(s) => Fed(d, s, ls) = s
<1> DEFINE n == Len(ls)
           T == {i \in 0 .. n : /\ Seen(d, s, ls, i).open = s.open
                                /\ Outside(s) => Seen(d, s, ls, i) = s}
<1>0. n \in Nat
  BY Whole
<1>1. 0 \in T
  BY <1>0, SeenStep
<1>2. ASSUME NEW i \in 1 .. n, i - 1 \in T PROVE i \in T
  <2>1. /\ Seen(d, s, ls, i - 1) \in S /\ ls[i] \in NoteLine
        /\ Seen(d, s, ls, i) = d[<<Seen(d, s, ls, i - 1), ls[i]>>]
    BY SeenStep
  <2>2. Seen(d, s, ls, i).open = Seen(d, s, ls, i - 1).open
    <3>1. Seen(d, s, ls, i).open = Opened(Seen(d, s, ls, i - 1).open, ls[i], Strict)
      BY <2>1 DEF Reader
    <3> QED BY <3>1 DEF Opened
  <2>3. Outside(s) => Seen(d, s, ls, i) = s
    BY <1>2, <2>1 DEF Quiet
  <2> QED BY <1>0, <1>2, <2>2, <2>3
<1> HIDE DEF T
<1>3. n \in T
  <2>1. \A i \in 1 .. n : i - 1 \in T => i \in T
    BY <1>2
  <2> QED BY <1>0, <1>1, <2>1, UpTo, Zenon
<1> QED BY <1>3, SeenStep DEF T

\* Blank lines at the end.
LEMMA TrimEndRest ==
  ASSUME NEW ls \in Seq(NoteLine)
  PROVE  \E rest \in Seq(NoteLine) :
           ls = TrimEnd(ls) \o rest /\ \A i \in 1 .. Len(rest) : rest[i] = Blank
<1> DEFINE solid == {i \in DOMAIN ls : ls[i] # Blank}
<1>0. Len(ls) \in Nat /\ DOMAIN ls = 1 .. Len(ls) /\ solid \subseteq 1 .. Len(ls)
  OBVIOUS
<1>1. CASE solid = {}
  <2>1. TrimEnd(ls) = <<>>
    BY <1>1 DEF TrimEnd
  <2>2. ls = <<>> \o ls
    BY ConcatEmptySeq
  <2>3. ls = TrimEnd(ls) \o ls
    BY <2>1, <2>2
  <2>4. \A i \in 1 .. Len(ls) : ls[i] = Blank
    BY <1>0, <1>1
  <2> QED BY <2>3, <2>4
<1>2. CASE solid # {}
  <2>1. Max(solid) \in 1 .. Len(ls) /\ \A i \in solid : i <= Max(solid)
    BY <1>0, <1>2, MaxIn
  <2>2. TrimEnd(ls) = SubSeq(ls, 1, Max(solid))
    BY <1>2 DEF TrimEnd
  <2>3. PICK m \in 1 .. Len(ls) :
          TrimEnd(ls) = SubSeq(ls, 1, m) /\ \A i \in DOMAIN ls : i > m => ls[i] = Blank
    <3>1. \A i \in DOMAIN ls : i > Max(solid) => ls[i] = Blank
      BY <1>0, <2>1
    <3> QED BY <2>1, <2>2, <3>1
  <2> DEFINE rest == SubSeq(ls, m + 1, Len(ls))
  <2>4. rest \in Seq(NoteLine) /\ ls = SubSeq(ls, 1, m) \o rest
    <3>1. m \in 0 .. Len(ls)
      BY <1>0
    <3> QED BY <3>1, CountCut
  <2>5. ASSUME NEW i \in 1 .. Len(rest) PROVE rest[i] = Blank
    <3>1. m + i \in DOMAIN ls /\ rest[i] = ls[m + i] /\ m + i > m
      BY <1>0
    <3> QED BY <2>3, <3>1
  <2> HIDE DEF rest
  <2> QED BY <2>3, <2>4, <2>5
<1> QED BY <1>1, <1>2

LEMMA FedTrimEnd ==
  ASSUME NEW S, NEW d, Reader(d, S), NEW s \in S, NEW ls \in Seq(NoteLine), Quiet(d, S, Blank),
         Outside(Fed(d, s, ls)) \/ Outside(Fed(d, s, TrimEnd(ls)))
  PROVE  Fed(d, s, TrimEnd(ls)) = Fed(d, s, ls)
<1>1. PICK rest \in Seq(NoteLine) :
        ls = TrimEnd(ls) \o rest /\ \A i \in 1 .. Len(rest) : rest[i] = Blank
  BY TrimEndRest
<1>2. PICK cut \in Seq(NoteLine) : cut = TrimEnd(ls)
  BY TrimEndCount
<1>3. Fed(d, s, cut) \in S /\ Fed(d, s, ls) = Fed(d, Fed(d, s, cut), rest)
  <2>1. Fed(d, s, cut) \in S /\ Fed(d, s, cut \o rest) = Fed(d, Fed(d, s, cut), rest)
    BY FedConcat
  <2>2. ls = cut \o rest
    BY <1>1, <1>2
  <2> QED BY <2>1, <2>2, Zenon
<1>4. Blank.kind \notin Strict
  BY LineKinds DEF Strict
<1>5. /\ Fed(d, Fed(d, s, cut), rest).open = Fed(d, s, cut).open
      /\ Outside(Fed(d, s, cut)) => Fed(d, Fed(d, s, cut), rest) = Fed(d, s, cut)
  BY <1>1, <1>3, <1>4, FedQuiet
<1>6. Outside(Fed(d, s, cut))
  BY <1>2, <1>3, <1>5, Zenon DEF Outside
<1> QED BY <1>2, <1>3, <1>5, <1>6

\* What normalise_markdown does with the next line.
LEMMA TakeCases ==
  ASSUME NEW a \in Reading, NEW l \in NoteLine
  PROVE  LET b == Take(a, l)
         IN  /\ b \in Reading
             /\ \/ /\ ~Outside(a)
                   /\ b.out = Append(a.out, l) /\ b.open = Opened(a.open, l, Strict) /\ b.ruled = a.ruled
                \/ /\ Outside(a) /\ l.kind \in Strict
                   /\ b.out = UptoFence(a, l) /\ b.open = l.text /\ ~b.ruled
                \/ /\ Outside(a) /\ l \in {Blank, Rule}
                   /\ b.out = a.out /\ b.open = a.open
                \/ /\ Outside(a) /\ l.kind \notin Strict
                   /\ b.out \in {UptoHead(a, l), UptoText(a, l)} /\ b.open = a.open /\ ~b.ruled
<1>0. /\ a.out \in Seq(NoteLine) /\ a.open \in Text /\ l.text \in Text
      /\ a.pending \in BOOLEAN /\ a.ruled \in BOOLEAN /\ a.headed \in BOOLEAN
      /\ a.ruledAtHead \in BOOLEAN
  BY DEF Reading, NoteLine
<1>8. Blank # Rule /\ Blank.kind = "blank" /\ Rule.kind = "rule"
  BY DEF Blank, Rule, Line
<1>7. l.kind \in Strict => l # Blank /\ l # Rule /\ l.kind # "head"
  <2>1. l.kind \in Strict => l.kind = "fence"
    BY DEF Strict
  <2> QED BY <1>8, <2>1
<1>9. Take(a, l) \in Reading
  BY TakeStep
<1>10. Outside(a) <=> a.open = ""
  BY DEF Outside
<1>1. CASE a.open # ""
  <2>1. Take(a, l) = [a EXCEPT !.out = Append(@, l), !.open = Opened(@, l, Strict)]
    BY <1>1 DEF Take
  <2>2. /\ Take(a, l).out = Append(a.out, l) /\ Take(a, l).open = Opened(a.open, l, Strict)
        /\ Take(a, l).ruled = a.ruled
    <3>1. \A x, y : /\ [a EXCEPT !.out = x, !.open = y].out = x
                    /\ [a EXCEPT !.out = x, !.open = y].open = y
                    /\ [a EXCEPT !.out = x, !.open = y].ruled = a.ruled
      BY DEF Reading
    <3> QED BY <2>1, <3>1
  <2> QED BY <1>1, <1>9, <1>10, <2>2
<1>2. CASE a.open = "" /\ l.kind \in Strict
  <2>1. Take(a, l) = [a EXCEPT !.out = UptoFence(a, l), !.open = l.text,
                              !.pending = FALSE, !.ruled = FALSE, !.headed = FALSE]
    BY <1>2, <1>7 DEF Take
  <2>2. Take(a, l).out = UptoFence(a, l) /\ Take(a, l).open = l.text /\ ~Take(a, l).ruled
    BY <2>1 DEF Reading
  <2> QED BY <1>2, <1>9, <1>10, <2>2
<1>3. CASE a.open = "" /\ l.kind \notin Strict /\ l = Blank
  <2>1. Take(a, l) = [a EXCEPT !.pending = TRUE]
    BY <1>3, <1>8 DEF Take
  <2>2. Take(a, l).out = a.out /\ Take(a, l).open = a.open
    BY <2>1 DEF Reading
  <2> QED BY <1>3, <1>9, <1>10, <2>2
<1>4. CASE a.open = "" /\ l.kind \notin Strict /\ l # Blank /\ l = Rule
  <2>1. Take(a, l) = [a EXCEPT !.ruledAtHead = IF a.ruled THEN @ ELSE a.headed,
                              !.ruled = TRUE, !.pending = FALSE]
    BY <1>4, <1>8 DEF Take
  <2>2. Take(a, l).out = a.out /\ Take(a, l).open = a.open
    BY <2>1 DEF Reading
  <2> QED BY <1>4, <1>9, <1>10, <2>2
<1>5. CASE a.open = "" /\ l.kind \notin Strict /\ l # Blank /\ l # Rule /\ l.kind = "head"
  <2>1. Take(a, l) = [a EXCEPT !.out = UptoHead(a, l), !.headed = TRUE,
                              !.pending = FALSE, !.ruled = FALSE]
    BY <1>5 DEF Take
  <2>2. Take(a, l).out = UptoHead(a, l) /\ Take(a, l).open = a.open /\ ~Take(a, l).ruled
    BY <2>1 DEF Reading
  <2> QED BY <1>5, <1>9, <1>10, <2>2
<1>6. CASE a.open = "" /\ l.kind \notin Strict /\ l # Blank /\ l # Rule /\ l.kind # "head"
  <2>1. Take(a, l) = [a EXCEPT !.out = UptoText(a, l), !.headed = FALSE,
                              !.pending = FALSE, !.ruled = FALSE]
    BY <1>6 DEF Take
  <2>2. Take(a, l).out = UptoText(a, l) /\ Take(a, l).open = a.open /\ ~Take(a, l).ruled
    BY <2>1 DEF Reading
  <2> QED BY <1>6, <1>9, <1>10, <2>2
<1> QED BY <1>1, <1>2, <1>3, <1>4, <1>5, <1>6

\* A reader that is outside and is not told of blank lines and rules.
LEMMA FedOpt ==
  ASSUME NEW S, NEW d, Reader(d, S), NEW s \in S, NEW ls \in Seq(NoteLine),
         NEW q \in NoteLine, Quiet(d, S, q), Outside(Fed(d, s, ls)), NEW c
  PROVE  ls \o Opt(c, q) \in Seq(NoteLine) /\ Fed(d, s, ls \o Opt(c, q)) = Fed(d, s, ls)
<1>1. CASE c
  <2>1. ls \o Opt(c, q) = Append(ls, q)
    BY <1>1, AppendIsConcat DEF Opt
  <2>2. /\ Append(ls, q) \in Seq(NoteLine) /\ Fed(d, s, ls) \in S
        /\ Fed(d, s, Append(ls, q)) = d[<<Fed(d, s, ls), q>>]
    BY FedLine
  <2>3. d[<<Fed(d, s, ls), q>>] = Fed(d, s, ls)
    BY <2>2 DEF Quiet
  <2>4. Fed(d, s, ls \o Opt(c, q)) = Fed(d, s, ls)
    BY <2>1, <2>2, <2>3, Zenon
  <2> QED BY <2>1, <2>2, <2>4
<1>2. CASE ~c
  <2>1. ls \o Opt(c, q) = ls
    BY <1>2, ConcatEmptySeq DEF Opt
  <2>2. Fed(d, s, ls \o Opt(c, q)) = Fed(d, s, ls)
    BY <2>1, Zenon
  <2> QED BY <2>1, <2>2
<1> QED BY <1>1, <1>2

LEMMA FedUpto ==
  ASSUME NEW S, NEW d, Reader(d, S), NEW s \in S, NEW a \in Reading, NEW l \in NoteLine,
         Quiet(d, S, Blank), Quiet(d, S, Rule), Outside(Fed(d, s, a.out))
  PROVE  \A new \in {UptoFence(a, l), UptoHead(a, l), UptoText(a, l)} :
           Fed(d, s, new) = d[<<Fed(d, s, a.out), l>>]
<1> DEFINE t == Fed(d, s, a.out)
<1>0. a.out \in Seq(NoteLine) /\ Blank \in NoteLine /\ Rule \in NoteLine
  BY LineTypes DEF Reading
<1>1. ASSUME NEW u \in Seq(NoteLine), Fed(d, s, u) = t, NEW c
      PROVE  /\ u \o Opt(c, Blank) \in Seq(NoteLine) /\ Fed(d, s, u \o Opt(c, Blank)) = t
             /\ u \o Opt(c, Rule) \in Seq(NoteLine) /\ Fed(d, s, u \o Opt(c, Rule)) = t
  BY <1>0, <1>1, FedOpt
<1>2. ASSUME NEW u \in Seq(NoteLine), Fed(d, s, u) = t PROVE Fed(d, s, u \o <<l>>) = d[<<t, l>>]
  <2>1. u \o <<l>> = Append(u, l)
    BY AppendIsConcat
  <2>2. Fed(d, s, Append(u, l)) = d[<<Fed(d, s, u), l>>]
    BY FedLine
  <2> QED BY <1>2, <2>1, <2>2, Zenon
<1>3. Fed(d, s, UptoFence(a, l)) = d[<<t, l>>]
  <2>0. /\ a.out \o Opt(a.pending, Blank) \in Seq(NoteLine)
        /\ Fed(d, s, a.out \o Opt(a.pending, Blank)) = t
    BY <1>0, <1>1
  <2>1. PICK u \in Seq(NoteLine) : u = a.out \o Opt(a.pending, Blank) /\ Fed(d, s, u) = t
    BY <2>0, Zenon
  <2>2. PICK v \in Seq(NoteLine) : v = u \o Opt(a.ruled, Rule) /\ Fed(d, s, v) = t
    BY <1>1, <2>1
  <2>3. UptoFence(a, l) = v \o <<l>>
    BY <2>1, <2>2 DEF UptoFence
  <2> QED BY <1>2, <2>2, <2>3, Zenon
<1>4. Fed(d, s, UptoHead(a, l)) = d[<<t, l>>]
  <2>1. PICK mid \in Seq(NoteLine) :
          mid = a.out \o Opt(a.ruled /\ ~a.ruledAtHead /\ a.pending, Blank) /\ Fed(d, s, mid) = t
    <3> DEFINE c == a.ruled /\ ~a.ruledAtHead /\ a.pending
    <3> HIDE DEF c
    <3>1. a.out \o Opt(c, Blank) \in Seq(NoteLine) /\ Fed(d, s, a.out \o Opt(c, Blank)) = t
      BY <1>0, <1>1
    <3> QED BY <3>1, Zenon DEF c
  <2>2. PICK v \in Seq(NoteLine) :
          v = mid \o Opt(mid # <<>> /\ mid[Len(mid)] # Blank, Blank) /\ Fed(d, s, v) = t
    BY <1>1, <2>1
  <2>3. UptoHead(a, l) = v \o <<l>>
    BY <2>1, <2>2 DEF UptoHead
  <2> QED BY <1>2, <2>2, <2>3, Zenon
<1>5. Fed(d, s, UptoText(a, l)) = d[<<t, l>>]
  <2>1. CASE a.headed
    <3>0. a.out \o Opt(TRUE, Blank) \in Seq(NoteLine) /\ Fed(d, s, a.out \o Opt(TRUE, Blank)) = t
      BY <1>0, <1>1
    <3>1. PICK v \in Seq(NoteLine) : v = a.out \o Opt(TRUE, Blank) /\ Fed(d, s, v) = t
      BY <3>0, Zenon
    <3>2. a.out \o <<Blank, l>> = v \o <<l>>
      <4>0. <<Blank>> \in Seq(NoteLine) /\ <<l>> \in Seq(NoteLine)
        BY LineTypes
      <4>1. <<Blank, l>> = <<Blank>> \o <<l>>
        OBVIOUS
      <4>2. a.out \o (<<Blank>> \o <<l>>) = (a.out \o <<Blank>>) \o <<l>>
        BY <1>0, <4>0, ConcatAssociative
      <4> QED BY <3>1, <4>1, <4>2 DEF Opt
    <3>3. UptoText(a, l) = v \o <<l>>
      BY <2>1, <3>2 DEF UptoText
    <3> QED BY <1>2, <3>1, <3>3, Zenon
  <2>2. CASE ~a.headed
    <3>1. UptoText(a, l) = UptoFence(a, l)
      BY <2>2 DEF UptoText
    <3> QED BY <1>3, <3>1, Zenon
  <2> QED BY <2>1, <2>2
<1> QED BY <1>3, <1>4, <1>5, Zenon

LEMMA FedNormalise ==
  ASSUME NEW S, NEW d, Reader(d, S), NEW s \in S, Outside(s), NEW ls \in Seq(NoteLine),
         Quiet(d, S, Blank), Quiet(d, S, Rule)
  PROVE  Fed(d, s, Normalise(ls)) = Fed(d, s, ls)
<1> DEFINE n == Len(ls)
           Ok(a, t) == Fed(d, s, a.out) = t /\ a.open = t.open /\ (a.ruled => Outside(a))
<1>0. n \in Nat
  BY Whole
<1>1. PICK f \in [0 .. n -> Reading] :
        /\ f[0] = Unread /\ \A i \in 1 .. n : f[i] = Take(f[i - 1], ls[i])
        /\ Normalise(ls) = Written(f[n])
  BY TakeStates
<1>2. ASSUME NEW a \in Reading, NEW l \in NoteLine, Ok(a, Fed(d, s, a.out))
      PROVE  Ok(Take(a, l), d[<<Fed(d, s, a.out), l>>])
  <2> DEFINE t == Fed(d, s, a.out)
             b == Take(a, l)
  <2>0. a.out \in Seq(NoteLine)
    BY DEF Reading
  <2>1. /\ t \in S /\ Fed(d, s, Append(a.out, l)) = d[<<t, l>>]
    BY <2>0, FedLine
  <2>2. d[<<t, l>>].open = Opened(t.open, l, Strict)
    BY <2>1 DEF Reader
  <2>3. (Outside(a) <=> Outside(t)) /\ a.open = t.open /\ (a.ruled => Outside(a))
    BY <1>2 DEF Outside
  <2>4. l.kind \notin Strict => Opened(t.open, l, Strict) = t.open
    BY DEF Opened
  <2>5. Outside(t) /\ l.kind \in Strict => Opened(t.open, l, Strict) = l.text
    BY DEF Opened, Outside
  <2>6. Outside(t) => \A new \in {UptoFence(a, l), UptoHead(a, l), UptoText(a, l)} :
                        Fed(d, s, new) = d[<<t, l>>]
    BY FedUpto
  <2>7. ~b.ruled \/ Outside(a) \/ (a.ruled <=> b.ruled)
    BY TakeCases
  <2>8. Blank.kind \notin Strict /\ Rule.kind \notin Strict
    BY LineKinds DEF Strict
  <2> HIDE DEF b, t
  <2>9. CASE ~Outside(a)
    <3>1. b.out = Append(a.out, l) /\ b.open = Opened(a.open, l, Strict) /\ b.ruled = a.ruled
      BY <2>9, TakeCases DEF b
    <3>2. Fed(d, s, b.out) = d[<<t, l>>]
      BY <2>1, <3>1, Zenon
    <3> QED BY <2>2, <2>3, <2>9, <3>1, <3>2 DEF b, t
  <2>10. CASE Outside(a) /\ l \in {Blank, Rule} /\ b.out = a.out /\ b.open = a.open
    <3>1. d[<<t, l>>] = t
      BY <2>1, <2>3, <2>10 DEF Quiet
    <3>2. Outside(b)
      BY <2>10, Zenon DEF Outside
    <3>3. Fed(d, s, b.out) = t
      BY <2>10 DEF t
    <3> QED BY <2>3, <2>10, <3>1, <3>2, <3>3 DEF b, t
  <2>11. CASE /\ Outside(a) /\ l.kind \in Strict
              /\ b.out = UptoFence(a, l) /\ b.open = l.text /\ ~b.ruled
    <3>1. Fed(d, s, b.out) = d[<<t, l>>]
      BY <2>3, <2>6, <2>11
    <3> QED BY <2>2, <2>3, <2>5, <2>11, <3>1 DEF b, t
  <2>12. CASE /\ Outside(a) /\ l.kind \notin Strict
              /\ b.out \in {UptoHead(a, l), UptoText(a, l)} /\ b.open = a.open /\ ~b.ruled
    <3>1. Fed(d, s, b.out) = d[<<t, l>>]
      BY <2>3, <2>6, <2>12
    <3> QED BY <2>2, <2>3, <2>4, <2>12, <3>1 DEF b, t
  <2> QED BY <2>9, <2>10, <2>11, <2>12, TakeCases DEF b
<1>3. ASSUME NEW a \in Reading, NEW t \in S, Ok(a, t) PROVE Fed(d, s, Written(a)) = t
  <2>0. a.out \in Seq(NoteLine) /\ Blank \in NoteLine /\ Rule \in NoteLine
    BY LineTypes DEF Reading
  <2>1. CASE a.ruled /\ ~a.headed
    <3>1. Outside(Fed(d, s, a.out))
      BY <1>3, <2>1, Zenon DEF Outside
    <3>2. PICK u \in Seq(NoteLine) : u = a.out \o Opt(a.pending, Blank) /\ Fed(d, s, u) = t
      BY <1>3, <2>0, <3>1, FedOpt
    <3>3. Outside(Fed(d, s, u))
      BY <1>3, <3>1, <3>2
    <3>4. Fed(d, s, u \o Opt(TRUE, Rule)) = t
      <4>1. Fed(d, s, u \o Opt(TRUE, Rule)) = Fed(d, s, u)
        BY <2>0, <3>3, FedOpt
      <4> QED BY <3>2, <4>1
    <3>5. Written(a) = u \o Opt(TRUE, Rule)
      BY <2>1, <3>2 DEF Written, Opt
    <3> QED BY <3>4, <3>5, Zenon
  <2>2. CASE ~(a.ruled /\ ~a.headed)
    <3>1. Written(a) = a.out
      BY <2>2 DEF Written
    <3> QED BY <1>3, <3>1
  <2> QED BY <2>1, <2>2
<1> HIDE DEF Ok
<1> DEFINE T == {i \in 0 .. n : Ok(f[i], Seen(d, s, ls, i))}
<1>4. 0 \in T
  <2>1. Unread.out = <<>> /\ Blank \in NoteLine /\ <<>> \in Seq(NoteLine)
    BY UnreadType, LineTypes, EmptySeq
  <2>2. Fed(d, s, <<>>) = s
    BY FedNone
  <2>3. Fed(d, s, Unread.out) = s
    BY <2>1, <2>2, Zenon
  <2>4. Seen(d, s, ls, 0) = s
    BY SeenStep
  <2>5. Unread.open = "" /\ ~Unread.ruled
    BY DEF Unread
  <2>6. s.open = ""
    BY DEF Outside
  <2>7. Ok(Unread, s)
    BY <2>3, <2>5, <2>6, Zenon DEF Ok
  <2> QED BY <1>0, <1>1, <2>4, <2>7
<1>5. ASSUME NEW i \in 1 .. n, i - 1 \in T PROVE i \in T
  <2>1. i \in 0 .. n /\ i - 1 \in 0 .. n
    BY <1>0
  <2>2. /\ ls[i] \in NoteLine
        /\ Seen(d, s, ls, i) = d[<<Seen(d, s, ls, i - 1), ls[i]>>]
    BY SeenStep
  <2>3. f[i - 1] \in Reading /\ f[i] = Take(f[i - 1], ls[i])
    BY <1>1, <2>1
  <2>4. Ok(f[i - 1], Seen(d, s, ls, i - 1))
    BY <1>5
  <2>5. Fed(d, s, f[i - 1].out) = Seen(d, s, ls, i - 1)
    BY <2>4 DEF Ok
  <2>6. Ok(f[i], Seen(d, s, ls, i))
    BY <1>2, <2>2, <2>3, <2>4, <2>5
  <2> QED BY <2>1, <2>6
<1> HIDE DEF T
<1>6. n \in T
  <2>1. \A i \in 1 .. n : i - 1 \in T => i \in T
    BY <1>5
  <2> QED BY <1>0, <1>4, <2>1, UpTo, Zenon
<1>7. Ok(f[n], Fed(d, s, ls)) /\ Fed(d, s, ls) \in S /\ f[n] \in Reading
  <2>1. Seen(d, s, ls, n) = Fed(d, s, ls) /\ Seen(d, s, ls, n) \in S
    BY <1>0, SeenStep
  <2> QED BY <1>0, <1>6, <2>1 DEF T
<1> QED BY <1>1, <1>3, <1>7

-----------------------------------------------------------------------------
(* What a text says, and its headings.                                     *)

LEMMA OpenedType ==
  ASSUME NEW open \in Text, NEW l \in NoteLine
  PROVE  Opened(open, l, Strict) \in Text /\ (l.kind \notin Strict => Opened(open, l, Strict) = open)
<1>1. l.text \in Text
  BY DEF NoteLine
<1>2. "" \in Text
  BY TextAssumption
<1>3. Opened(open, l, Strict) \in {open, l.text, ""}
  BY Zenon DEF Opened
<1>4. l.kind \notin Strict => Opened(open, l, Strict) = open
  BY DEF Opened
<1> QED BY <1>1, <1>2, <1>3, <1>4

LEMMA SaidType ==
  ASSUME NEW l \in NoteLine
  PROVE  Said(l) \in NoteLine
<1>1. l.text \in Text
  BY DEF NoteLine
<1>2. l.text \in DOMAIN LastWord => LastWord[l.text] \in Text
  BY TextAssumption
<1> QED BY <1>1, <1>2, LinkSafeType, LineTypes DEF Said

LEMMA AddedPlain ==
  ASSUME NEW l, Added(l)
  PROVE  l.kind \notin Strict
<1>1. Heading(2, 0, RelatedNotes).kind = "head"
  BY LineKinds
<1> QED BY <1>1 DEF Added, Strict

LEMMA WordReads ==
  ASSUME NEW titles
  PROVE  /\ Reader(WordReader(titles), Writings) /\ Unsaid \in Writings /\ Outside(Unsaid)
         /\ \A s \in Writings, l \in NoteLine :
              /\ Says(s, l, titles) \in Seq(NoteLine)
              /\ WordReader(titles)[<<s, l>>]
                   = [open |-> Opened(s.open, l, Strict), out |-> s.out \o Says(s, l, titles)]
         /\ \A l \in NoteLine : Added(l) => Quiet(WordReader(titles), Writings, l)
<1> DEFINE d == WordReader(titles)
           To(s, l) == [open |-> Opened(s.open, l, Strict), out |-> s.out \o Says(s, l, titles)]
<1>1. ASSUME NEW s \in Writings, NEW l \in NoteLine
      PROVE  /\ Says(s, l, titles) \in Seq(NoteLine) /\ To(s, l) \in Writings
             /\ To(s, l).open = Opened(s.open, l, Strict) /\ d[<<s, l>>] = To(s, l)
             /\ Added(l) /\ Outside(s) => To(s, l) = s
  <2>1. s.open \in Text /\ s.out \in Seq(NoteLine) /\ s = [open |-> s.open, out |-> s.out]
    BY DEF Writings
  <2>2. Opened(s.open, l, Strict) \in Text
    BY <2>1, OpenedType
  <2>3. Says(s, l, titles) \in Seq(NoteLine)
    <3>1. <<Said(l)>> \in Seq(NoteLine) /\ <<l>> \in Seq(NoteLine) /\ <<>> \in Seq(NoteLine)
      BY SaidType, EmptySeq
    <3> QED BY <3>1, Zenon DEF Says, Left
  <2>4. s.out \o Says(s, l, titles) \in Seq(NoteLine)
    BY <2>1, <2>3, ConcatProperties
  <2>5. To(s, l) \in Writings /\ To(s, l).open = Opened(s.open, l, Strict)
    BY <2>2, <2>4 DEF Writings
  <2>6. d[<<s, l>>] = To(s, l)
    BY DEF WordReader
  <2>7. ASSUME Added(l), Outside(s) PROVE To(s, l) = s
    <3>1. l.kind \notin Strict
      BY <2>7, AddedPlain
    <3>2. Opened(s.open, l, Strict) = s.open
      BY <2>1, <3>1, OpenedType
    <3>3. Says(s, l, titles) = <<>>
      BY <2>7, <3>1 DEF Says, Left
    <3>4. s.out \o <<>> = s.out
      BY <2>1, ConcatEmptySeq
    <3> QED BY <2>1, <3>2, <3>3, <3>4
  <2> QED BY <2>3, <2>5, <2>6, <2>7
<1>2. d = [p \in Writings \X NoteLine |-> To(p[1], p[2])]
  BY DEF WordReader
<1> HIDE DEF d, To
<1>3. d \in [Writings \X NoteLine -> Writings]
  BY <1>1, <1>2
<1>4. Unsaid \in Writings /\ Outside(Unsaid)
  <2>1. "" \in Text /\ <<>> \in Seq(NoteLine)
    BY TextAssumption, EmptySeq
  <2>2. Unsaid \in Writings
    BY <2>1 DEF Unsaid, Writings
  <2> QED BY <2>2 DEF Unsaid, Outside
<1>5. \A s \in Writings : s.open \in Text
  BY DEF Writings
<1>6. Reader(d, Writings)
  BY <1>1, <1>3, <1>5 DEF Reader
<1>7. \A l \in NoteLine : Added(l) => Quiet(d, Writings, l)
  BY <1>1 DEF Quiet
<1> QED BY <1>1, <1>4, <1>6, <1>7 DEF d, To

LEMMA SectionReads ==
  /\ Reader(SectionReader, Outlines) /\ NoOutline \in Outlines /\ Outside(NoOutline)
  /\ \A s \in Outlines, l \in NoteLine :
       SectionReader[<<s, l>>].open = Opened(s.open, l, Strict) /\ SectionReader[<<s, l>>].secs = Sections(s, l)
  /\ \A l \in NoteLine : l.kind \notin {"head", "fence"} =>
       /\ Quiet(SectionReader, Outlines, l)
       /\ \A s \in Outlines : SectionReader[<<s, l>>] = s
<1> DEFINE d == SectionReader
           To(s, l) == [open |-> Opened(s.open, l, Strict), secs |-> Sections(s, l)]
<1>1. ASSUME NEW s \in Outlines, NEW l \in NoteLine
      PROVE  /\ To(s, l) \in Outlines /\ d[<<s, l>>] = To(s, l)
             /\ l.kind \notin {"head", "fence"} => To(s, l) = s
  <2>1. s.open \in Text /\ s = [open |-> s.open, secs |-> s.secs] /\ l.text \in Text
    BY DEF Outlines, NoteLine
  <2>2. Opened(s.open, l, Strict) \in Text
    BY <2>1, OpenedType
  <2>3. To(s, l) \in Outlines
    BY <2>1, <2>2 DEF Sections, Outlines
  <2>4. d[<<s, l>>] = To(s, l)
    BY DEF SectionReader
  <2>5. ASSUME l.kind \notin {"head", "fence"} PROVE To(s, l) = s
    <3>1. Opened(s.open, l, Strict) = s.open
      <4>1. l.kind \notin Strict
        BY <2>5 DEF Strict
      <4> QED BY <2>1, <4>1, OpenedType
    <3>2. Sections(s, l) = s.secs
      BY <2>5 DEF Sections
    <3> QED BY <2>1, <3>1, <3>2
  <2> QED BY <2>3, <2>4, <2>5
<1>2. d = [p \in Outlines \X NoteLine |-> To(p[1], p[2])]
  BY DEF SectionReader
<1>3. \A s, l : To(s, l).open = Opened(s.open, l, Strict) /\ To(s, l).secs = Sections(s, l)
  OBVIOUS
<1> HIDE DEF d, To
<1>4. d \in [Outlines \X NoteLine -> Outlines]
  BY <1>1, <1>2
<1>5. NoOutline \in Outlines /\ Outside(NoOutline)
  <2>1. "" \in Text
    BY TextAssumption
  <2>2. NoOutline \in Outlines
    BY <2>1 DEF NoOutline, Outlines
  <2> QED BY <2>2 DEF NoOutline, Outside
<1>6. \A s \in Outlines : s.open \in Text
  BY DEF Outlines
<1>7. Reader(d, Outlines)
  BY <1>1, <1>3, <1>4, <1>6 DEF Reader
<1>8. \A l \in NoteLine : l.kind \notin {"head", "fence"} =>
        Quiet(d, Outlines, l) /\ \A s \in Outlines : d[<<s, l>>] = s
  BY <1>1 DEF Quiet
<1>9. ASSUME NEW s \in Outlines, NEW l \in NoteLine
      PROVE  d[<<s, l>>].open = Opened(s.open, l, Strict) /\ d[<<s, l>>].secs = Sections(s, l)
  <2>1. d[<<s, l>>] = To(s, l)
    BY <1>1
  <2> QED BY <1>3, <2>1, Zenon
<1> QED BY <1>5, <1>7, <1>8, <1>9 DEF d

LEMMA TitleReads ==
  /\ Reader(TitleReader, Titlings) /\ NoTitle \in Titlings /\ Outside(NoTitle)
  /\ \A s \in Titlings, l \in NoteLine :
       TitleReader[<<s, l>>].open = Opened(s.open, l, Strict) /\ TitleReader[<<s, l>>].first = First(s, l)
  /\ \A l \in NoteLine : l.kind \notin {"head", "fence"} =>
       /\ Quiet(TitleReader, Titlings, l)
       /\ \A s \in Titlings : TitleReader[<<s, l>>] = s
<1> DEFINE d == TitleReader
           To(s, l) == [open |-> Opened(s.open, l, Strict), first |-> First(s, l)]
<1>1. ASSUME NEW s \in Titlings, NEW l \in NoteLine
      PROVE  /\ To(s, l) \in Titlings /\ d[<<s, l>>] = To(s, l)
             /\ l.kind \notin {"head", "fence"} => To(s, l) = s
  <2>1. s.open \in Text /\ s = [open |-> s.open, first |-> s.first] /\ l.text \in Text
    BY DEF Titlings, NoteLine
  <2>2. Opened(s.open, l, Strict) \in Text
    BY <2>1, OpenedType
  <2>3. To(s, l) \in Titlings
    BY <2>1, <2>2 DEF First, Titlings
  <2>4. d[<<s, l>>] = To(s, l)
    BY DEF TitleReader
  <2>5. ASSUME l.kind \notin {"head", "fence"} PROVE To(s, l) = s
    <3>1. Opened(s.open, l, Strict) = s.open
      <4>1. l.kind \notin Strict
        BY <2>5 DEF Strict
      <4> QED BY <2>1, <4>1, OpenedType
    <3>2. First(s, l) = s.first
      BY <2>5 DEF First
    <3> QED BY <2>1, <3>1, <3>2
  <2> QED BY <2>3, <2>4, <2>5
<1>2. d = [p \in Titlings \X NoteLine |-> To(p[1], p[2])]
  BY DEF TitleReader
<1>3. \A s, l : To(s, l).open = Opened(s.open, l, Strict) /\ To(s, l).first = First(s, l)
  OBVIOUS
<1> HIDE DEF d, To
<1>4. d \in [Titlings \X NoteLine -> Titlings]
  BY <1>1, <1>2
<1>5. NoTitle \in Titlings /\ Outside(NoTitle)
  <2>1. "" \in Text
    BY TextAssumption
  <2>2. NoTitle \in Titlings
    BY <2>1 DEF NoTitle, Titlings
  <2> QED BY <2>2 DEF NoTitle, Outside
<1>6. \A s \in Titlings : s.open \in Text
  BY DEF Titlings
<1>7. Reader(d, Titlings)
  BY <1>1, <1>3, <1>4, <1>6 DEF Reader
<1>8. \A l \in NoteLine : l.kind \notin {"head", "fence"} =>
        Quiet(d, Titlings, l) /\ \A s \in Titlings : d[<<s, l>>] = s
  BY <1>1 DEF Quiet
<1>9. ASSUME NEW s \in Titlings, NEW l \in NoteLine
      PROVE  d[<<s, l>>].open = Opened(s.open, l, Strict) /\ d[<<s, l>>].first = First(s, l)
  <2>1. d[<<s, l>>] = To(s, l)
    BY <1>1
  <2> QED BY <1>3, <2>1, Zenon
<1> QED BY <1>5, <1>7, <1>8, <1>9 DEF d

\* What the word reader has written is what the text says.
LEMMA WordsRead ==
  ASSUME NEW ls \in Seq(NoteLine), NEW titles
  PROVE  Words(ls, titles) = Fed(WordReader(titles), Unsaid, ls).out
<1> DEFINE d == WordReader(titles)
           n == Len(ls)
           prose == Prose(ls, Strict)
           g == [i \in DOMAIN ls |->
                   CASE i \notin prose -> <<ls[i]>>
                     [] i \in prose /\ (Added(ls[i]) \/ Repeats(ls[i], titles)) -> <<>>
                     [] OTHER -> <<Said(ls[i])>>]
<1>0. n \in Nat /\ DOMAIN ls = 1 .. n
  BY Whole
<1>1. Reader(d, Writings) /\ Unsaid \in Writings /\ Outside(Unsaid)
  BY WordReads
<1>2. prose = {i \in DOMAIN ls : ls[i].kind \notin Strict /\ Outside(Seen(d, Unsaid, ls, i - 1))}
  BY <1>1, SeenProse
<1>3. ASSUME NEW i \in 1 .. n
      PROVE  /\ g[i] = Says(Seen(d, Unsaid, ls, i - 1), ls[i], titles)
             /\ g[i] \in Seq(NoteLine) /\ i - 1 \in 0 .. n
             /\ Seen(d, Unsaid, ls, i).out = Seen(d, Unsaid, ls, i - 1).out \o g[i]
  <2>1. /\ i - 1 \in 0 .. n /\ Seen(d, Unsaid, ls, i - 1) \in Writings /\ ls[i] \in NoteLine
        /\ Seen(d, Unsaid, ls, i) = d[<<Seen(d, Unsaid, ls, i - 1), ls[i]>>]
    BY <1>1, SeenStep
  <2>2. g[i] = Says(Seen(d, Unsaid, ls, i - 1), ls[i], titles)
    <3>1. i \in prose <=> Outside(Seen(d, Unsaid, ls, i - 1)) /\ ls[i].kind \notin Strict
      BY <1>0, <1>2
    <3>2. g[i] = IF i \in prose THEN Left(ls[i], titles) ELSE <<ls[i]>>
      BY <1>0, Zenon DEF Left
    <3> HIDE DEF g, prose, d
    <3> QED BY <3>1, <3>2 DEF Says
  <2> DEFINE s == Seen(d, Unsaid, ls, i - 1)
  <2> HIDE DEF s, g, d
  <2>3. Says(s, ls[i], titles) \in Seq(NoteLine)
    BY <2>1, WordReads DEF s, d
  <2>4. d[<<s, ls[i]>>].out = s.out \o Says(s, ls[i], titles)
    <3>1. d[<<s, ls[i]>>]
            = [open |-> Opened(s.open, ls[i], Strict), out |-> s.out \o Says(s, ls[i], titles)]
      BY <2>1, WordReads DEF s, d
    <3>2. \A x, y : [open |-> x, out |-> y].out = y
      OBVIOUS
    <3> QED BY <3>1, <3>2, Zenon
  <2> QED BY <2>1, <2>2, <2>3, <2>4 DEF s
<1>4. Words(ls, titles) = FlattenSeq(g)
  BY DEF Words
<1>5. g \in [1 .. n -> Seq(NoteLine)]
  <2>1. g = [i \in 1 .. n |-> g[i]]
    BY <1>0
  <2> HIDE DEF g
  <2> QED BY <1>3, <2>1
<1> HIDE DEF g, d
<1>6. PICK f \in [0 .. n -> Seq(NoteLine)] :
        /\ f[0] = <<>> /\ \A i \in 1 .. n : f[i] = f[i - 1] \o g[i]
        /\ FlattenSeq(g) = f[n]
  BY <1>0, <1>5, Flattened
<1> DEFINE T == {i \in 0 .. n : Seen(d, Unsaid, ls, i).out = f[i]}
<1>7. 0 \in T
  <2>1. Seen(d, Unsaid, ls, 0) = Unsaid
    BY <1>1, SeenStep
  <2>2. Unsaid.out = <<>>
    BY DEF Unsaid
  <2> QED BY <1>0, <1>6, <2>1, <2>2
<1>8. ASSUME NEW i \in 1 .. n, i - 1 \in T PROVE i \in T
  <2>1. Seen(d, Unsaid, ls, i).out = f[i]
    BY <1>3, <1>6, <1>8
  <2>2. i \in 0 .. n
    BY <1>0
  <2> QED BY <2>1, <2>2
<1> HIDE DEF T
<1>9. n \in T
  <2>1. \A i \in 1 .. n : i - 1 \in T => i \in T
    BY <1>8
  <2> QED BY <1>0, <1>7, <2>1, UpTo, Zenon
<1>10. Seen(d, Unsaid, ls, n) = Fed(d, Unsaid, ls)
  BY <1>1, SeenStep
<1> QED BY <1>4, <1>6, <1>9, <1>10 DEF T, d

-----------------------------------------------------------------------------
(* What the passes do to what is read.                                     *)

LEMMA BlandLines ==
  /\ Blank \in NoteLine /\ Bland(Blank) /\ Rule \in NoteLine /\ Bland(Rule)
  /\ \A n \in Nat : Trans(n) \in NoteLine /\ Bland(Trans(n))
  /\ \A m \in Range(Mine) : Para(m) \in NoteLine /\ Bland(Para(m))
  /\ \A l : Bland(l) => l.kind \notin {"head", "fence"} /\ l.kind \notin Strict
<1>1. Range(Mine) \subseteq Text
  BY NoteEditsAssumption DEF Range
<1>2. \A l : Bland(l) => l.kind \notin {"head", "fence"} /\ l.kind \notin Strict
  BY DEF Bland, Strict
<1> QED BY <1>1, <1>2, LineTypes, LineKinds DEF Bland

LEMMA MildReaders ==
  /\ \A titles : Mild(WordReader(titles), Writings)
  /\ Mild(SectionReader, Outlines) /\ Mild(TitleReader, Titlings)
<1>1. ASSUME NEW titles PROVE Mild(WordReader(titles), Writings)
  <2>1. \A l : Bland(l) => Added(l)
    BY DEF Bland, Added
  <2> QED BY <2>1, WordReads DEF Mild
<1>2. Mild(SectionReader, Outlines)
  BY SectionReads, BlandLines DEF Mild
<1>3. Mild(TitleReader, Titlings)
  BY TitleReads, BlandLines DEF Mild
<1> QED BY <1>1, <1>2, <1>3

LEMMA FedOne ==
  ASSUME NEW S, NEW d, Reader(d, S), NEW s \in S, NEW l \in NoteLine
  PROVE  <<l>> \in Seq(NoteLine) /\ Fed(d, s, <<l>>) = d[<<s, l>>] /\ d[<<s, l>>] \in S
<1>1. PICK none \in Seq(NoteLine) : none = <<>>
  BY EmptySeq
<1>2. Fed(d, s, none) = s /\ Fed(d, s, Append(none, l)) = d[<<s, l>>]
  <2>1. Fed(d, s, <<>>) = s /\ Fed(d, s, Append(none, l)) = d[<<Fed(d, s, none), l>>]
    BY FedLine
  <2> QED BY <1>1, <2>1, Zenon
<1>3. Append(none, l) = <<l>>
  BY <1>1
<1>4. Fed(d, s, <<l>>) = d[<<s, l>>]
  BY <1>2, <1>3, Zenon
<1>5. <<l>> \in Seq(NoteLine)
  OBVIOUS
<1>6. d[<<s, l>>] \in S
  BY DEF Reader
<1> QED BY <1>4, <1>5, <1>6

\* Where every fence is plain, the code's two notions of a fence agree.
LEMMA ProseAgree ==
  ASSUME NEW ls \in Seq(NoteLine), PlainFences(ls)
  PROVE  Prose(ls, Loose) = Prose(ls, Strict)
<1> DEFINE n == Len(ls)
<1>0. n \in Nat /\ DOMAIN ls = 1 .. n
  BY Whole
<1>1. \A fences : \E o : /\ IsOpen(o, ls, fences)
        /\ Prose(ls, fences) = {i \in DOMAIN ls : ls[i].kind \notin fences /\ o[i - 1] = ""}
  BY ProseOpen
<1>2. PICK o : /\ IsOpen(o, ls, Strict)
               /\ Prose(ls, Strict) = {i \in DOMAIN ls : ls[i].kind \notin Strict /\ o[i - 1] = ""}
  BY <1>1, Zenon
<1>3. PICK u : /\ IsOpen(u, ls, Loose)
               /\ Prose(ls, Loose) = {i \in DOMAIN ls : ls[i].kind \notin Loose /\ u[i - 1] = ""}
  BY <1>1, Zenon
<1>4. ASSUME NEW i \in 1 .. n PROVE ls[i].kind \in Loose <=> ls[i].kind \in Strict
  BY <1>0 DEF PlainFences, Strict, Loose
<1> DEFINE T == {i \in 0 .. n : u[i] = o[i]}
<1>5. 0 \in T
  <2>1. o[0] = u[0]
    BY <1>2, <1>3, Zenon DEF IsOpen
  <2> QED BY <1>0, <2>1
<1>6. ASSUME NEW i \in 1 .. n, i - 1 \in T PROVE i \in T
  <2>1. o[i] = Opened(o[i - 1], ls[i], Strict) /\ u[i] = Opened(u[i - 1], ls[i], Loose)
    BY <1>2, <1>3, Zenon DEF IsOpen
  <2>2. Opened(u[i - 1], ls[i], Loose) = Opened(u[i - 1], ls[i], Strict)
    BY <1>4, Zenon DEF Opened
  <2>3. u[i - 1] = o[i - 1]
    BY <1>6
  <2> QED BY <1>0, <2>1, <2>2, <2>3
<1> HIDE DEF T
<1>7. ASSUME NEW i \in 1 .. n PROVE u[i - 1] = o[i - 1]
  <2>1. i - 1 \in 0 .. n /\ i - 1 \in Nat
    BY <1>0
  <2>2. \A j \in 1 .. (i - 1) : j - 1 \in T => j \in T
    BY <1>0, <1>6
  <2>3. i - 1 \in T
    BY <1>5, <2>1, <2>2, UpTo
  <2> QED BY <2>3 DEF T
<1> QED BY <1>0, <1>2, <1>3, <1>4, <1>7, Zenon

LEMMA FedSplice ==
  ASSUME NEW S, NEW d, Mild(d, S), NEW s \in S, Outside(s), NEW ls \in Seq(NoteLine),
         PlainFences(ls), NEW chosen
  PROVE  Fed(d, s, Splice(ls, chosen)) = Fed(d, s, ls)
<1> DEFINE starts == SectionLines(ls)
           Nth(i) == Cardinality({j \in starts : j <= i})
           Gets(i) == i \in starts /\ Nth(i) \in chosen
           Spliced(i) == CASE Gets(i) -> <<ls[i], Blank, Trans(Nth(i)), Blank>>
                           [] ls[i] = Blank /\ i > 1 /\ Gets(i - 1) -> <<>>
                           [] OTHER -> <<ls[i]>>
           g == [i \in DOMAIN ls |-> Spliced(i)]
           x(i) == Seen(d, s, ls, i)
<1>0. Len(ls) \in Nat /\ DOMAIN ls = 1 .. Len(ls) /\ Reader(d, S)
  BY Whole DEF Mild
<1>1. Splice(ls, chosen) = FlattenSeq(g)
  BY DEF Splice
<1>2. /\ starts \subseteq 1 .. Len(ls)
      /\ \A i \in starts : ls[i].kind = "head" /\ Outside(x(i - 1))
  <2>1. starts \subseteq Prose(ls, Strict) /\ \A i \in starts : ls[i].kind = "head"
    BY ProseAgree DEF SectionLines, Heads
  <2>2. Prose(ls, Strict) = {i \in DOMAIN ls : ls[i].kind \notin Strict /\ Outside(x(i - 1))}
    BY <1>0, SeenProse
  <2> HIDE DEF starts, x
  <2> QED BY <1>0, <2>1, <2>2
<1>3. ASSUME NEW i \in DOMAIN ls PROVE Nth(i) \in Nat
  <2> HIDE DEF starts
  <2> QED BY <1>0, <1>2, NthType
<1>4. \A i : Gets(i) => i \in starts
  OBVIOUS
<1> HIDE DEF Nth, starts
<1>5. ASSUME NEW i \in DOMAIN ls
      PROVE  \/ Gets(i) /\ g[i] = <<ls[i], Blank, Trans(Nth(i)), Blank>>
             \/ ls[i] = Blank /\ i > 1 /\ Gets(i - 1) /\ g[i] = <<>>
             \/ g[i] = <<ls[i]>>
  <2>1. g[i] = Spliced(i)
    OBVIOUS
  <2> HIDE DEF g, Gets
  <2>2. CASE Gets(i)
    BY <1>2, <1>4, <2>1, <2>2, LineKinds
  <2>3. CASE ~Gets(i) /\ ls[i] = Blank /\ i > 1 /\ Gets(i - 1)
    BY <2>1, <2>3
  <2>4. CASE ~Gets(i) /\ ~(ls[i] = Blank /\ i > 1 /\ Gets(i - 1))
    BY <2>1, <2>4
  <2> QED BY <2>2, <2>3, <2>4
<1>6. DOMAIN g = DOMAIN ls /\ g = [i \in DOMAIN ls |-> g[i]]
  OBVIOUS
<1> HIDE DEF Gets, Spliced, g
<1>7. ASSUME NEW i \in DOMAIN ls
      PROVE  /\ x(i - 1) \in S /\ ls[i] \in NoteLine /\ x(i) = d[<<x(i - 1), ls[i]>>]
             /\ i \in starts => Outside(x(i))
  <2>1. x(i - 1) \in S /\ ls[i] \in NoteLine /\ x(i) = d[<<x(i - 1), ls[i]>>]
    BY <1>0, SeenStep
  <2> HIDE DEF x
  <2>2. ASSUME i \in starts PROVE Outside(x(i))
    <3>1. ls[i].kind = "head" /\ Outside(x(i - 1))
      BY <1>2, <2>2
    <3>2. ls[i].kind \notin Strict
      BY <3>1 DEF Strict
    <3>3. x(i).open = Opened(x(i - 1).open, ls[i], Strict)
      BY <1>0, <2>1 DEF Reader
    <3>4. x(i).open = x(i - 1).open
      BY <3>2, <3>3 DEF Opened
    <3> QED BY <3>1, <3>4 DEF Outside
  <2> QED BY <2>1, <2>2
<1>8. ASSUME NEW i \in DOMAIN ls
      PROVE  /\ g[i] \in Seq(NoteLine)
             /\ Fed(d, x(i - 1), g[i]) = d[<<x(i - 1), ls[i]>>]
  <2>0. x(i - 1) \in S /\ ls[i] \in NoteLine /\ x(i) = d[<<x(i - 1), ls[i]>>]
    BY <1>7
  <2> HIDE DEF x
  <2>1. CASE Gets(i) /\ g[i] = <<ls[i], Blank, Trans(Nth(i)), Blank>>
    <3>1. Trans(Nth(i)) \in NoteLine /\ Bland(Trans(Nth(i))) /\ Blank \in NoteLine /\ Bland(Blank)
      BY <1>3, BlandLines
    <3>2. PICK q : q = Trans(Nth(i))
      OBVIOUS
    <3>3. PICK three \in Seq(NoteLine) : three = <<Blank, q, Blank>>
      <4>1. <<Blank, q, Blank>> \in Seq(NoteLine)
        BY <3>1, <3>2
      <4> QED BY <4>1
    <3>4. PICK one \in Seq(NoteLine) : one = <<ls[i]>> /\ Fed(d, x(i - 1), one) = x(i)
      <4>1. <<ls[i]>> \in Seq(NoteLine) /\ Fed(d, x(i - 1), <<ls[i]>>) = d[<<x(i - 1), ls[i]>>]
        BY <1>0, <2>0, FedOne
      <4> QED BY <2>0, <4>1, Zenon
    <3>5. g[i] = one \o three
      BY <2>1, <3>2, <3>3, <3>4
    <3>6. /\ g[i] \in Seq(NoteLine) /\ x(i) \in S
          /\ Fed(d, x(i - 1), g[i]) = Fed(d, x(i), three)
      <4>1. PICK y \in S : y = x(i - 1)
        BY <2>0
      <4>2. one \o three \in Seq(NoteLine) /\ Fed(d, y, one) \in S
            /\ Fed(d, y, one \o three) = Fed(d, Fed(d, y, one), three)
        BY <1>0, FedConcat
      <4> QED BY <3>4, <3>5, <4>1, <4>2, Zenon
    <3>7. \A j \in 1 .. Len(three) : three[j].kind \notin Strict /\ Quiet(d, S, three[j])
      <4>1. ASSUME NEW j \in 1 .. Len(three) PROVE three[j] \in {Blank, q}
        BY <3>3
      <4> QED BY <3>1, <3>2, <4>1, BlandLines DEF Mild
    <3>8. Outside(x(i))
      BY <1>4, <1>7, <2>1 DEF x
    <3>9. Fed(d, x(i), three) = x(i)
      BY <1>0, <3>6, <3>7, <3>8, FedQuiet
    <3> QED BY <2>0, <3>6, <3>9
  <2>2. CASE ls[i] = Blank /\ i > 1 /\ Gets(i - 1) /\ g[i] = <<>>
    <3>1. i - 1 \in DOMAIN ls /\ i - 1 \in starts
      BY <1>0, <1>4, <2>2
    <3>2. Outside(x(i - 1))
      BY <1>7, <3>1 DEF x
    <3>3. d[<<x(i - 1), Blank>>] = x(i - 1)
      BY <2>0, <3>2, BlandLines DEF Mild, Quiet
    <3>4. <<>> \in Seq(NoteLine)
      BY EmptySeq
    <3>5. Fed(d, x(i - 1), <<>>) = x(i - 1)
      <4>1. PICK y \in S : y = x(i - 1)
        BY <2>0
      <4>2. Fed(d, y, <<>>) = y
        BY <1>0, FedNone
      <4> QED BY <4>1, <4>2, Zenon
    <3> QED BY <2>2, <3>3, <3>4, <3>5, Zenon
  <2>3. CASE g[i] = <<ls[i]>>
    <3>1. <<ls[i]>> \in Seq(NoteLine) /\ Fed(d, x(i - 1), <<ls[i]>>) = d[<<x(i - 1), ls[i]>>]
      BY <1>0, <2>0, FedOne
    <3> QED BY <2>3, <3>1, Zenon
  <2> QED BY <1>5, <2>1, <2>2, <2>3
<1>9. g \in [1 .. Len(ls) -> Seq(NoteLine)]
  BY <1>0, <1>6, <1>8
<1>10. Fed(d, s, FlattenSeq(g)) = Fed(d, s, ls)
  <2>1. \A i \in 1 .. Len(ls) :
          Fed(d, Seen(d, s, ls, i - 1), g[i]) = d[<<Seen(d, s, ls, i - 1), ls[i]>>]
    BY <1>0, <1>8
  <2> QED BY <1>0, <1>9, <2>1, FedFlatten
<1> QED BY <1>1, <1>10, Zenon

LEMMA FedWritten ==
  ASSUME NEW S, NEW d, Mild(d, S), NEW s \in S, Outside(s), NEW b \in Seq(NoteLine),
         Outside(Fed(d, s, b)), held.fm # NoFrontmatter
  PROVE  Fed(d, s, Normalise(Candidate(b))) = Fed(d, s, b)
<1>1. Reader(d, S) /\ Quiet(d, S, Blank) /\ Quiet(d, S, Rule)
  BY BlandLines DEF Mild
<1>2. PICK cut \in Seq(NoteLine) : cut = TrimEnd(b)
  BY TrimEndCount
<1>3. Fed(d, s, cut) = Fed(d, s, b)
  <2>1. Fed(d, s, TrimEnd(b)) = Fed(d, s, b)
    BY <1>1, FedTrimEnd
  <2> QED BY <1>2, <2>1, Zenon
<1>4. Fed(d, s, Normalise(cut)) = Fed(d, s, cut)
  BY <1>1, FedNormalise
<1>5. Candidate(b) = cut
  BY <1>2, Zenon DEF Candidate
<1> QED BY <1>3, <1>4, <1>5, Zenon

LEMMA FedSaved ==
  ASSUME NEW S, NEW d, Mild(d, S), NEW s \in S, Outside(s), NEW ls \in Seq(NoteLine),
         Outside(Fed(d, s, ls)), NEW m \in Range(Mine), NEW b, Adds(b, ls, m)
  PROVE  Fed(d, s, b) = Fed(d, s, ls)
<1> DEFINE q == Para(m)
<1>1. Blank \in NoteLine /\ Bland(Blank) /\ q \in NoteLine /\ Bland(q) /\ Reader(d, S)
  BY BlandLines DEF Mild
<1> HIDE DEF q
<1>2. ASSUME NEW two \in Seq(NoteLine), \A i \in 1 .. Len(two) : two[i] \in {Blank, q},
             NEW x \in S, Outside(x)
      PROVE  Fed(d, x, two) = x
  <2>1. \A i \in 1 .. Len(two) : two[i].kind \notin Strict /\ Quiet(d, S, two[i])
    BY <1>1, <1>2, BlandLines DEF Mild
  <2> QED BY <1>1, <1>2, <2>1, FedQuiet
<1>3. PICK up \in Seq(NoteLine) : up = <<q, Blank>>
  <2>1. <<q, Blank>> \in Seq(NoteLine)
    BY <1>1
  <2> QED BY <2>1
<1>4. PICK down \in Seq(NoteLine) : down = <<Blank, q>>
  <2>1. <<Blank, q>> \in Seq(NoteLine)
    BY <1>1
  <2> QED BY <2>1
<1>5. Fed(d, s, up \o ls) = Fed(d, s, ls)
  <2>1. Fed(d, s, up \o ls) = Fed(d, Fed(d, s, up), ls)
    BY <1>1, FedConcat
  <2>2. \A i \in 1 .. Len(up) : up[i] \in {Blank, q}
    BY <1>3
  <2>3. Fed(d, s, up) = s
    BY <1>2, <2>2
  <2> QED BY <2>1, <2>3, Zenon
<1>6. Fed(d, s, ls \o down) = Fed(d, s, ls)
  <2>1. Fed(d, s, ls \o down) = Fed(d, Fed(d, s, ls), down) /\ Fed(d, s, ls) \in S
    BY <1>1, FedConcat
  <2>2. \A i \in 1 .. Len(down) : down[i] \in {Blank, q}
    BY <1>4
  <2>3. Fed(d, Fed(d, s, ls), down) = Fed(d, s, ls)
    BY <1>2, <2>1, <2>2
  <2> QED BY <2>1, <2>3, Zenon
<1>7. b = ls \o down \/ b = up \o ls
  BY <1>3, <1>4 DEF q, Adds
<1> QED BY <1>5, <1>6, <1>7, Zenon

\* All lines of a text.
LEMMA LinesAll ==
  ASSUME NEW S, NEW ls \in Seq(S)
  PROVE  Lines(ls, DOMAIN ls) = ls
<1> DEFINE n == Len(ls)
           g == [i \in DOMAIN ls |-> IF i \in DOMAIN ls THEN <<ls[i]>> ELSE <<>>]
<1>0. n \in Nat /\ DOMAIN ls = 1 .. n /\ SubSeq(ls, 1, 0) = <<>> /\ SubSeq(ls, 1, n) = ls
  BY Whole
<1>1. g \in [1 .. n -> Seq(S)] /\ \A i \in 1 .. n : g[i] = <<ls[i]>>
  OBVIOUS
<1>2. Lines(ls, DOMAIN ls) = FlattenSeq(g)
  BY DEF Lines
<1> HIDE DEF g
<1>3. PICK f \in [0 .. n -> Seq(S)] :
        /\ f[0] = <<>> /\ \A i \in 1 .. n : f[i] = f[i - 1] \o g[i]
        /\ FlattenSeq(g) = f[n]
  BY <1>0, <1>1, Flattened
<1> DEFINE T == {i \in 0 .. n : f[i] = SubSeq(ls, 1, i)}
<1>4. 0 \in T
  BY <1>0, <1>3
<1>5. ASSUME NEW i \in 1 .. n, i - 1 \in T PROVE i \in T
  <2>1. /\ SubSeq(ls, 1, i - 1) \in Seq(S) /\ ls[i] \in S
        /\ SubSeq(ls, 1, i) = Append(SubSeq(ls, 1, i - 1), ls[i])
    BY Prefix
  <2>2. f[i] = SubSeq(ls, 1, i - 1) \o <<ls[i]>>
    BY <1>1, <1>3, <1>5
  <2> DEFINE p == SubSeq(ls, 1, i - 1)
  <2> HIDE DEF p
  <2>3. p \in Seq(S) /\ f[i] = p \o <<ls[i]>> /\ SubSeq(ls, 1, i) = Append(p, ls[i])
    BY <2>1, <2>2 DEF p
  <2>4. p \o <<ls[i]>> = Append(p, ls[i])
    BY <2>1, <2>3
  <2>5. i \in 0 .. n
    BY <1>0
  <2> QED BY <2>3, <2>4, <2>5
<1> HIDE DEF T
<1>6. n \in T
  <2>1. \A i \in 1 .. n : i - 1 \in T => i \in T
    BY <1>5
  <2> QED BY <1>0, <1>4, <2>1, UpTo, Zenon
<1> QED BY <1>0, <1>2, <1>3, <1>6 DEF T

\* A pass that leaves out lines which tell the reader nothing where they stand.
LEMMA FedLines ==
  ASSUME NEW S, NEW d, Reader(d, S), NEW s \in S, NEW ls \in Seq(NoteLine), NEW K,
         \A i \in 1 .. Len(ls) :
           i \notin K => d[<<Seen(d, s, ls, i - 1), ls[i]>>] = Seen(d, s, ls, i - 1)
  PROVE  Lines(ls, K) \in Seq(NoteLine) /\ Fed(d, s, Lines(ls, K)) = Fed(d, s, ls)
<1> DEFINE g == [i \in DOMAIN ls |-> IF i \in K THEN <<ls[i]>> ELSE <<>>]
<1>0. Len(ls) \in Nat /\ DOMAIN ls = 1 .. Len(ls)
  BY Whole
<1>1. Lines(ls, K) = FlattenSeq(g)
  BY DEF Lines
<1>2. \A i \in 1 .. Len(ls) : g[i] = IF i \in K THEN <<ls[i]>> ELSE <<>>
  BY <1>0
<1>3. g = [i \in 1 .. Len(ls) |-> g[i]]
  BY <1>0
<1> HIDE DEF g
<1>4. ASSUME NEW i \in 1 .. Len(ls)
      PROVE  /\ g[i] \in Seq(NoteLine)
             /\ Fed(d, Seen(d, s, ls, i - 1), g[i]) = d[<<Seen(d, s, ls, i - 1), ls[i]>>]
  <2>1. ls[i] \in NoteLine
    BY SeenStep
  <2>2. PICK y \in S : y = Seen(d, s, ls, i - 1)
    BY SeenStep
  <2>3. CASE i \in K
    <3>1. <<ls[i]>> \in Seq(NoteLine) /\ Fed(d, y, <<ls[i]>>) = d[<<y, ls[i]>>]
      BY <2>1, FedOne
    <3> QED BY <1>2, <2>2, <2>3, <3>1, Zenon
  <2>4. CASE i \notin K
    <3>1. <<>> \in Seq(NoteLine)
      BY EmptySeq
    <3>2. Fed(d, y, <<>>) = y
      BY FedNone
    <3>3. d[<<y, ls[i]>>] = y
      BY <2>2, <2>4, Zenon
    <3> QED BY <1>2, <2>2, <2>4, <3>1, <3>2, <3>3, Zenon
  <2> QED BY <2>3, <2>4
<1>5. g \in [1 .. Len(ls) -> Seq(NoteLine)]
  BY <1>3, <1>4
<1>6. FlattenSeq(g) \in Seq(NoteLine) /\ Fed(d, s, FlattenSeq(g)) = Fed(d, s, ls)
  <2>1. \A i \in 1 .. Len(ls) :
          Fed(d, Seen(d, s, ls, i - 1), g[i]) = d[<<Seen(d, s, ls, i - 1), ls[i]>>]
    BY <1>4
  <2> QED BY <1>5, <2>1, FedFlatten
<1> QED BY <1>1, <1>6, Zenon

\* The section reader has the texts of the sections.
LEMMA SectionsRead ==
  ASSUME NEW ls \in Seq(NoteLine)
  PROVE  Fed(SectionReader, NoOutline, ls).secs
           = {ls[i].text : i \in SectionsOf(ls, HeadsOf(ls))}
<1> DEFINE n == Len(ls)
           x(i) == Seen(SectionReader, NoOutline, ls, i)
           Is(i) == Outside(x(i - 1)) /\ ls[i].kind = "head" /\ ls[i].level = 2
           Upto(k) == {ls[i].text : i \in {j \in 1 .. k : Is(j)}}
           T == {k \in 0 .. n : x(k).secs = Upto(k)}
<1>0. n \in Nat /\ DOMAIN ls = 1 .. n
  BY Whole
<1>1. Reader(SectionReader, Outlines) /\ NoOutline \in Outlines /\ Outside(NoOutline)
  BY SectionReads
<1>2. 0 \in T
  <2>1. x(0) = NoOutline
    BY <1>1, SeenStep
  <2>2. NoOutline.secs = {}
    BY DEF NoOutline
  <2>3. Upto(0) = {}
    OBVIOUS
  <2> QED BY <1>0, <2>1, <2>2, <2>3
<1>3. ASSUME NEW k \in 1 .. n, k - 1 \in T PROVE k \in T
  <2>1. /\ x(k - 1) \in Outlines /\ ls[k] \in NoteLine
        /\ x(k) = SectionReader[<<x(k - 1), ls[k]>>]
    BY <1>1, SeenStep
  <2>2. x(k).secs = Sections(x(k - 1), ls[k])
    BY <2>1, SectionReads
  <2>3. x(k - 1).secs = Upto(k - 1)
    BY <1>3
  <2> HIDE DEF x
  <2>4. Upto(k) = IF Is(k) THEN Upto(k - 1) \cup {ls[k].text} ELSE Upto(k - 1)
    <3>1. 1 .. k = (1 .. (k - 1)) \cup {k}
      BY <1>0
    <3>2. {j \in 1 .. k : Is(j)}
            = IF Is(k) THEN {j \in 1 .. (k - 1) : Is(j)} \cup {k} ELSE {j \in 1 .. (k - 1) : Is(j)}
      <4> HIDE DEF Is
      <4> QED BY <3>1
    <3> DEFINE A == {j \in 1 .. k : Is(j)}
               B == {j \in 1 .. (k - 1) : Is(j)}
    <3>3. Upto(k) = {ls[i].text : i \in A} /\ Upto(k - 1) = {ls[i].text : i \in B}
      OBVIOUS
    <3>4. A = IF Is(k) THEN B \cup {k} ELSE B
      BY <3>2
    <3> HIDE DEF A, B, Upto, Is
    <3> QED BY <3>3, <3>4
  <2>5. x(k).secs = Upto(k)
    <3> HIDE DEF Upto
    <3> QED BY <2>2, <2>3, <2>4 DEF Sections
  <2>6. k \in 0 .. n
    BY <1>0
  <2> HIDE DEF Upto
  <2> QED BY <2>5, <2>6
<1> HIDE DEF T
<1>4. n \in T
  <2>1. \A i \in 1 .. n : i - 1 \in T => i \in T
    BY <1>3
  <2> QED BY <1>0, <1>2, <2>1, UpTo, Zenon
<1>5. x(n) = Fed(SectionReader, NoOutline, ls)
  BY <1>1, SeenStep
<1>6. SectionsOf(ls, HeadsOf(ls)) = {j \in 1 .. n : Is(j)}
  <2>1. Prose(ls, Strict) = {i \in DOMAIN ls : ls[i].kind \notin Strict /\ Outside(x(i - 1))}
    BY <1>1, SeenProse
  <2> HIDE DEF x
  <2> QED BY <1>0, <2>1 DEF SectionsOf, HeadsOf, Strict
<1>7. x(n).secs = Upto(n)
  BY <1>4 DEF T
<1> HIDE DEF x, Is
<1> QED BY <1>5, <1>6, <1>7

\* What the title reader knows of the lines it has read.
LEMMA TitleSeen ==
  ASSUME NEW ls \in Seq(NoteLine), NEW k \in 0 .. Len(ls)
  PROVE  /\ Seen(TitleReader, NoTitle, ls, k).first = "none"
              => \A j \in 1 .. k : ~IsTitle(ls[j])
         /\ Seen(TitleReader, NoTitle, ls, k).first = "prose"
              => \E j \in 1 .. k :
                   /\ IsTitle(ls[j]) /\ Outside(Seen(TitleReader, NoTitle, ls, j - 1))
                   /\ \A m \in 1 .. (j - 1) : ~IsTitle(ls[m])
<1> DEFINE n == Len(ls)
           x(i) == Seen(TitleReader, NoTitle, ls, i)
           None(i) == \A j \in 1 .. i : ~IsTitle(ls[j])
           Some(i) == \E j \in 1 .. i : IsTitle(ls[j]) /\ Outside(x(j - 1)) /\ None(j - 1)
           T == {i \in 0 .. n : (x(i).first = "none" => None(i)) /\ (x(i).first = "prose" => Some(i))}
<1>0. n \in Nat /\ DOMAIN ls = 1 .. n
  BY Whole
<1>1. Reader(TitleReader, Titlings) /\ NoTitle \in Titlings
  BY TitleReads
<1>2. 0 \in T
  <2>1. x(0) = NoTitle
    BY <1>1, SeenStep
  <2>2. NoTitle.first = "none"
    BY DEF NoTitle
  <2>3. None(0)
    OBVIOUS
  <2> HIDE DEF None, Some, x
  <2> QED BY <1>0, <2>1, <2>2, <2>3
<1>3. ASSUME NEW i \in 1 .. n, i - 1 \in T PROVE i \in T
  <2>1. /\ x(i - 1) \in Titlings /\ ls[i] \in NoteLine
        /\ x(i) = TitleReader[<<x(i - 1), ls[i]>>]
    BY <1>1, SeenStep
  <2>2. x(i).first = First(x(i - 1), ls[i])
    BY <2>1, TitleReads
  <2>3. x(i).first = IF IsTitle(ls[i]) /\ x(i - 1).first = "none"
                     THEN IF Outside(x(i - 1)) THEN "prose" ELSE "code" ELSE x(i - 1).first
    BY <2>2, Zenon DEF First, IsTitle
  <2>4. (x(i - 1).first = "none" => None(i - 1)) /\ (x(i - 1).first = "prose" => Some(i - 1))
    BY <1>3
  <2>5. i \in 0 .. n /\ i \in 1 .. i /\ 1 .. (i - 1) \subseteq 1 .. i
    BY <1>0
  <2>6. Some(i - 1) => Some(i)
    BY <2>5
  <2>7. None(i - 1) /\ ~IsTitle(ls[i]) => None(i)
    <3>1. 1 .. i = (1 .. (i - 1)) \cup {i}
      BY <1>0
    <3> QED BY <3>1
  <2>8. None(i - 1) /\ IsTitle(ls[i]) /\ Outside(x(i - 1)) => Some(i)
    BY <2>5
  <2> HIDE DEF None, Some, x
  <2> QED BY <2>3, <2>4, <2>5, <2>6, <2>7, <2>8
<1> HIDE DEF T
<1>4. k \in T
  <2>1. \A i \in 1 .. k : i - 1 \in T => i \in T
    BY <1>0, <1>3
  <2> QED BY <1>0, <1>2, <2>1, UpTo
<1> QED BY <1>4 DEF T

LEMMA TitleAt ==
  ASSUME NEW ls \in Seq(NoteLine), Fed(TitleReader, NoTitle, ls).first = "prose"
  PROVE  \E m \in 1 .. Len(ls) :
           /\ {i \in DOMAIN ls : ls[i].kind = "head" /\ ls[i].level = 1} # {}
           /\ m = Min({i \in DOMAIN ls : ls[i].kind = "head" /\ ls[i].level = 1})
           /\ Outside(Seen(TitleReader, NoTitle, ls, m))
<1> DEFINE n == Len(ls)
           x(i) == Seen(TitleReader, NoTitle, ls, i)
           K == {i \in DOMAIN ls : ls[i].kind = "head" /\ ls[i].level = 1}
<1>0. n \in Nat /\ DOMAIN ls = 1 .. n /\ n \in 0 .. n
  BY Whole
<1>1. Reader(TitleReader, Titlings) /\ NoTitle \in Titlings
  BY TitleReads
<1>2. x(n).first = "prose"
  BY <1>1, SeenStep
<1>3. PICK j \in 1 .. n : /\ IsTitle(ls[j]) /\ Outside(x(j - 1))
                          /\ \A m \in 1 .. (j - 1) : ~IsTitle(ls[m])
  BY <1>0, <1>2, TitleSeen
<1>4. K = {i \in 1 .. n : IsTitle(ls[i])}
  BY <1>0 DEF IsTitle
<1>5. j \in K /\ K \subseteq 1 .. n
  BY <1>3, <1>4
<1>6. j = Min(K)
  <2> HIDE DEF K
  <2>1. Min(K) \in K /\ Min(K) <= j
    BY <1>0, <1>5, MinIn
  <2>2. Min(K) \in 1 .. n /\ IsTitle(ls[Min(K)])
    BY <1>4, <2>1
  <2> QED BY <1>0, <1>3, <2>1, <2>2
<1>7. Outside(x(j))
  <2>1. x(j - 1) \in Titlings /\ ls[j] \in NoteLine /\ x(j) = TitleReader[<<x(j - 1), ls[j]>>]
    BY <1>1, SeenStep
  <2>2. ls[j].kind \notin Strict /\ x(j - 1).open \in Text
    BY <1>3, <2>1 DEF IsTitle, Strict, Titlings
  <2> HIDE DEF x
  <2>3. x(j).open = Opened(x(j - 1).open, ls[j], Strict)
    BY <2>1, TitleReads
  <2>4. x(j).open = x(j - 1).open
    BY <2>1, <2>2, <2>3, OpenedType
  <2> QED BY <1>3, <2>4 DEF Outside
<1> QED BY <1>5, <1>6, <1>7

\* A heading that is renumbered, promoted or cleaned says the same.
LEMMA HeadSaid ==
  ASSUME SafeIsSafe, NEW titles, NEW a \in NoteLine, NEW b \in NoteLine,
         a.kind = "head", b.kind = "head", b.text \in {a.text, LinkSafe(a.text)},
         RelatedNotes \notin {a.text, LinkSafe(a.text)}, NEW s \in Writings, Outside(s)
  PROVE  WordReader(titles)[<<s, b>>] = WordReader(titles)[<<s, a>>]
<1>1. LinkSafe(LinkSafe(a.text)) = LinkSafe(a.text)
  <2>1. CASE a.text \in DOMAIN Sanitised
    <3>1. LinkSafe(a.text) \in Range(Sanitised)
      BY <2>1 DEF LinkSafe, Range
    <3> QED BY <3>1 DEF LinkSafe, SafeIsSafe
  <2>2. CASE a.text \notin DOMAIN Sanitised
    BY <2>2 DEF LinkSafe
  <2> QED BY <2>1, <2>2
<1>2. LinkSafe(b.text) = LinkSafe(a.text)
  BY <1>1
<1>3. Said(a) = Said(b)
  BY <1>2 DEF Said
<1>4. ~Added(a) /\ ~Added(b)
  <2>1. Heading(2, 0, RelatedNotes).text = RelatedNotes
    BY LineKinds
  <2> QED BY <2>1 DEF Added
<1>5. ~Repeats(a, titles) /\ ~Repeats(b, titles)
  BY DEF Repeats
<1>6. Left(a, titles) = Left(b, titles)
  BY <1>3, <1>4, <1>5 DEF Left
<1>7. a.kind \notin Strict /\ b.kind \notin Strict /\ s.open \in Text
  BY DEF Strict, Writings
<1>8. Opened(s.open, a, Strict) = s.open /\ Opened(s.open, b, Strict) = s.open
  BY <1>7, OpenedType
<1>9. Says(s, a, titles) = Says(s, b, titles)
  BY <1>6, <1>7 DEF Says
<1>10. /\ WordReader(titles)[<<s, a>>]
            = [open |-> Opened(s.open, a, Strict), out |-> s.out \o Says(s, a, titles)]
       /\ WordReader(titles)[<<s, b>>]
            = [open |-> Opened(s.open, b, Strict), out |-> s.out \o Says(s, b, titles)]
  BY WordReads
<1> QED BY <1>8, <1>9, <1>10, Zenon

\* The first title stays the first.
LEMMA RestructuredTitle ==
  ASSUME NEW ls \in Seq(NoteLine), NEW i \in DOMAIN ls,
         \A j \in 1 .. (i - 1) : ~IsTitle(ls[j])
  PROVE  \/ Restructured(ls, HeadsOf(ls), i) = ls[i]
         \/ ~IsTitle(Restructured(ls, HeadsOf(ls), i)) /\ ~IsTitle(ls[i])
<1> DEFINE H == HeadsOf(ls)
           h == ls[i]
           new == Restructured(ls, H, i)
<1>0. /\ Len(ls) \in Nat /\ DOMAIN ls = 1 .. Len(ls) /\ H \subseteq 1 .. Len(ls) /\ h \in NoteLine
      /\ \A j \in H : ls[j].kind = "head"
  BY HeadsIn
<1>1. h.level \in Nat
  BY <1>0 DEF NoteLine
<1>2. CASE i \notin H \/ i = TitleOf(ls, H)
  BY <1>2 DEF Restructured
<1>3. CASE i \in H /\ i # TitleOf(ls, H)
  <2>1. h.level # 1
    <3> SUFFICES ASSUME h.level = 1 PROVE FALSE
      OBVIOUS
    <3> DEFINE K == {j \in H : ls[j].level = 1}
    <3>1. i \in K /\ K \subseteq 1 .. Len(ls) /\ K # {} /\ TitleOf(ls, H) = Min(K)
      BY <1>0, <1>3 DEF TitleOf
    <3>2. \A j \in K : IsTitle(ls[j]) /\ j \in 1 .. Len(ls)
      BY <1>0 DEF IsTitle
    <3> HIDE DEF K
    <3>3. Min(K) \in K /\ Min(K) <= i
      BY <1>0, <3>1, MinIn
    <3>4. Min(K) \notin 1 .. (i - 1)
      BY <3>2, <3>3
    <3> QED BY <1>0, <1>3, <3>1, <3>2, <3>3, <3>4
  <2>2. CASE i \in SectionsOf(ls, H)
    <3>0. h.level = 2
      BY <2>2 DEF SectionsOf
    <3> DEFINE n == Cardinality({j \in SectionsOf(ls, H) : j <= i})
    <3>1. new = Heading(3, n, LinkSafe(h.text))
      BY <1>3, <2>2, <3>0 DEF Restructured
    <3>2. new.level = 3
      BY <3>1, LineKinds
    <3> QED BY <2>1, <3>2 DEF IsTitle
  <2>3. CASE i \notin SectionsOf(ls, H) /\ Within(ls, H, i) # 0 /\ h.level >= 3
    <3>1. new = [h EXCEPT !.level = Min({h.level + 1, 6})]
      BY <1>3, <2>3 DEF Restructured
    <3>2. Min({h.level + 1, 6}) \in {h.level + 1, 6}
      <4>1. {h.level + 1, 6} \subseteq 1 .. (h.level + 7) /\ h.level + 7 \in Nat
        BY <1>1
      <4> QED BY <4>1, MinIn
    <3>3. \A n : \A l \in NoteLine : [l EXCEPT !.level = n].level = n
      BY DEF NoteLine
    <3>4. new.level \in {h.level + 1, 6}
      BY <1>0, <3>1, <3>2, <3>3
    <3> QED BY <1>1, <2>1, <2>3, <3>4 DEF IsTitle
  <2>4. CASE i \notin SectionsOf(ls, H) /\ ~(Within(ls, H, i) # 0 /\ h.level >= 3)
    BY <1>3, <2>1, <2>4 DEF Restructured
  <2> QED BY <2>2, <2>3, <2>4
<1> QED BY <1>2, <1>3

LEMMA TitlingsEqual ==
  ASSUME NEW a \in Titlings, NEW b \in Titlings, a.open = b.open, a.first = b.first
  PROVE  a = b
BY DEF Titlings

\* Renumbering changes nothing for either reader.
LEMMA FedRestructured ==
  ASSUME SafeIsSafe, NEW titles, NEW ls \in Seq(NoteLine), Fit(ls), NEW new,
         new = [i \in DOMAIN ls |-> Restructured(ls, HeadsOf(ls), i)]
  PROVE  /\ new \in Seq(NoteLine) /\ Len(new) = Len(ls)
         /\ Fed(WordReader(titles), Unsaid, new) = Fed(WordReader(titles), Unsaid, ls)
         /\ Fed(TitleReader, NoTitle, new) = Fed(TitleReader, NoTitle, ls)
         /\ \A i \in 0 .. Len(ls) :
              /\ Seen(WordReader(titles), Unsaid, new, i) = Seen(WordReader(titles), Unsaid, ls, i)
              /\ Seen(TitleReader, NoTitle, new, i) = Seen(TitleReader, NoTitle, ls, i)
<1> DEFINE n == Len(ls)
           W == WordReader(titles)
<1>0. n \in Nat /\ DOMAIN ls = 1 .. n
  BY Whole
<1>1. ASSUME NEW i \in 1 .. n
      PROVE  /\ ls[i] \in NoteLine /\ new[i] \in NoteLine
             /\ new[i] = Restructured(ls, HeadsOf(ls), i)
             /\ ls[i].kind # "head" => new[i] = ls[i]
             /\ i \notin HeadsOf(ls) => new[i] = ls[i]
             /\ ls[i].kind = "head" =>
                  new[i].kind = "head" /\ new[i].text \in {ls[i].text, LinkSafe(ls[i].text)}
  <2>1. new[i] = Restructured(ls, HeadsOf(ls), i)
    BY <1>0
  <2>2. i \notin HeadsOf(ls) => new[i] = ls[i]
    BY <2>1 DEF Restructured
  <2> QED BY <1>0, <2>1, <2>2, RestructuredLine
<1>2. new \in Seq(NoteLine) /\ Len(new) = n
  <2>1. new \in [1 .. n -> NoteLine]
    BY <1>0, <1>1
  <2> QED BY <1>0, <2>1
<1>3. Reader(W, Writings) /\ Unsaid \in Writings /\ Outside(Unsaid)
  BY WordReads
<1>4. ASSUME NEW i \in 1 .. n
      PROVE  W[<<Seen(W, Unsaid, ls, i - 1), new[i]>>] = W[<<Seen(W, Unsaid, ls, i - 1), ls[i]>>]
  <2>1. PICK y \in Writings : y = Seen(W, Unsaid, ls, i - 1)
    BY <1>3, SeenStep
  <2>2. CASE new[i] = ls[i]
    BY <2>2
  <2>3. CASE new[i] # ls[i]
    <3>1. i \in HeadsOf(ls) /\ ls[i].kind = "head"
      BY <1>1, <2>3
    <3>2. Prose(ls, Strict) = {j \in DOMAIN ls : ls[j].kind \notin Strict /\ Outside(Seen(W, Unsaid, ls, j - 1))}
      BY <1>3, SeenProse
    <3>3. Outside(y)
      BY <2>1, <3>1, <3>2 DEF HeadsOf
    <3>4. RelatedNotes \notin {ls[i].text, LinkSafe(ls[i].text)}
      <4>1. ls[i] \in Range(ls)
        BY <1>0 DEF Range
      <4> QED BY <3>1, <4>1 DEF Fit
    <3>5. PICK a \in NoteLine : a = ls[i]
      BY <1>1
    <3>6. PICK b \in NoteLine : b = new[i]
      BY <1>1
    <3>7. a.kind = "head" /\ b.kind = "head" /\ b.text \in {a.text, LinkSafe(a.text)}
      BY <1>1, <3>1, <3>5, <3>6
    <3>8. RelatedNotes \notin {a.text, LinkSafe(a.text)}
      BY <3>4, <3>5
    <3>9. W[<<y, b>>] = W[<<y, a>>]
      BY <3>3, <3>7, <3>8, HeadSaid
    <3> QED BY <2>1, <3>5, <3>6, <3>9, Zenon
  <2> QED BY <2>2, <2>3
<1>5. Reader(TitleReader, Titlings) /\ NoTitle \in Titlings
  BY TitleReads
<1>6. ASSUME NEW i \in 1 .. n
      PROVE  TitleReader[<<Seen(TitleReader, NoTitle, ls, i - 1), new[i]>>]
               = TitleReader[<<Seen(TitleReader, NoTitle, ls, i - 1), ls[i]>>]
  <2>1. PICK y \in Titlings : y = Seen(TitleReader, NoTitle, ls, i - 1)
    BY <1>5, SeenStep
  <2>2. CASE new[i] = ls[i]
    BY <2>2
  <2>3. CASE new[i] # ls[i]
    <3>0. ls[i].kind = "head" /\ new[i].kind = "head"
      BY <1>1, <2>3
    <3>1. y.first = "none" => ~IsTitle(new[i]) /\ ~IsTitle(ls[i])
      <4>1. i - 1 \in 0 .. n
        BY <1>0
      <4>2. y.first = "none" => \A j \in 1 .. (i - 1) : ~IsTitle(ls[j])
        BY <2>1, <4>1, TitleSeen
      <4> QED BY <1>0, <1>1, <2>3, <4>2, RestructuredTitle
    <3>2. First(y, new[i]) = First(y, ls[i])
      BY <3>1 DEF First, IsTitle
    <3>3. ls[i].kind \notin Strict /\ new[i].kind \notin Strict /\ y.open \in Text
      BY <3>0 DEF Strict, Titlings
    <3>4. Opened(y.open, ls[i], Strict) = y.open /\ Opened(y.open, new[i], Strict) = y.open
      BY <1>1, <3>3, OpenedType
    <3>5. \A l \in NoteLine : /\ TitleReader[<<y, l>>] \in Titlings
                              /\ TitleReader[<<y, l>>].open = Opened(y.open, l, Strict)
                              /\ TitleReader[<<y, l>>].first = First(y, l)
      BY <1>5, TitleReads DEF Reader
    <3>6. PICK a \in Titlings : a = TitleReader[<<y, ls[i]>>]
      BY <1>1, <3>5
    <3>7. PICK b \in Titlings : b = TitleReader[<<y, new[i]>>]
      BY <1>1, <3>5
    <3>8. a.open = b.open /\ a.first = b.first
      <4>1. a.open = Opened(y.open, ls[i], Strict) /\ a.first = First(y, ls[i])
        BY <1>1, <3>5, <3>6
      <4>2. b.open = Opened(y.open, new[i], Strict) /\ b.first = First(y, new[i])
        BY <1>1, <3>5, <3>7
      <4> QED BY <3>2, <3>4, <4>1, <4>2, Zenon
    <3>9. a = b
      BY <3>8, TitlingsEqual
    <3> QED BY <2>1, <3>6, <3>7, <3>9, Zenon
  <2> QED BY <2>2, <2>3
<1> HIDE DEF W
<1>7. /\ Fed(W, Unsaid, new) = Fed(W, Unsaid, ls)
      /\ \A i \in 0 .. n : Seen(W, Unsaid, new, i) = Seen(W, Unsaid, ls, i)
  <2>1. Len(ls) = Len(new)
    BY <1>2
  <2>2. \A i \in 1 .. Len(ls) :
          W[<<Seen(W, Unsaid, ls, i - 1), new[i]>>] = W[<<Seen(W, Unsaid, ls, i - 1), ls[i]>>]
    BY <1>4
  <2>3. new \in Seq(NoteLine)
    BY <1>2
  <2>4. Fed(W, Unsaid, new) = Fed(W, Unsaid, ls)
    BY <1>3, <2>1, <2>2, <2>3, FedSame
  <2>5. \A i \in 0 .. Len(ls) : Seen(W, Unsaid, new, i) = Seen(W, Unsaid, ls, i)
    BY <1>3, <2>1, <2>2, <2>3, FedSame
  <2> QED BY <2>4, <2>5
<1>8. /\ Fed(TitleReader, NoTitle, new) = Fed(TitleReader, NoTitle, ls)
      /\ \A i \in 0 .. n : Seen(TitleReader, NoTitle, new, i) = Seen(TitleReader, NoTitle, ls, i)
  <2>1. Len(ls) = Len(new)
    BY <1>2
  <2>2. \A i \in 1 .. Len(ls) :
          TitleReader[<<Seen(TitleReader, NoTitle, ls, i - 1), new[i]>>]
            = TitleReader[<<Seen(TitleReader, NoTitle, ls, i - 1), ls[i]>>]
    BY <1>6
  <2>3. new \in Seq(NoteLine)
    BY <1>2
  <2>4. Fed(TitleReader, NoTitle, new) = Fed(TitleReader, NoTitle, ls)
    BY <1>5, <2>1, <2>2, <2>3, FedSame
  <2>5. \A i \in 0 .. Len(ls) : Seen(TitleReader, NoTitle, new, i) = Seen(TitleReader, NoTitle, ls, i)
    BY <1>5, <2>1, <2>2, <2>3, FedSame
  <2> QED BY <2>4, <2>5
<1> QED BY <1>2, <1>7, <1>8 DEF W

LEMMA FedMore ==
  ASSUME NEW S, NEW d, Reader(d, S), NEW s \in S, NEW a \in Seq(NoteLine), NEW b \in Seq(NoteLine),
         Outside(Fed(d, s, a)),
         \A i \in 1 .. Len(b) : b[i].kind \notin Strict /\ Quiet(d, S, b[i])
  PROVE  a \o b \in Seq(NoteLine) /\ Fed(d, s, a \o b) = Fed(d, s, a)
<1>1. PICK y \in S : y = Fed(d, s, a)
  BY FedConcat
<1>2. a \o b \in Seq(NoteLine) /\ Fed(d, s, a \o b) = Fed(d, Fed(d, s, a), b)
  BY FedConcat
<1>3. Outside(y)
  BY <1>1
<1>4. Fed(d, y, b) = y
  BY <1>3, FedQuiet
<1> QED BY <1>1, <1>2, <1>4, Zenon

\* A text without entries has no table that could be replaced.
LEMMA NoTocRange ==
  ASSUME NEW ls \in Seq(NoteLine), \A i \in DOMAIN ls : ls[i].kind # "entry"
  PROVE  TocRange(ls) = {}
<1> DEFINE Goes(l) == l.kind \in {"callout", "entry", "blank"}
           Through(i) == {e \in i .. Len(ls) : \A m \in i .. e : Goes(ls[m])}
           End(i) == Max(Through(i))
           old == {i \in DOMAIN ls : ls[i] = Callout /\ \E m \in i .. End(i) : ls[m].kind = "entry"}
<1>0. Len(ls) \in Nat /\ DOMAIN ls = 1 .. Len(ls)
  BY Whole
<1>1. TocRange(ls) = IF old = {} THEN {} ELSE Min(old) .. End(Min(old))
  BY DEF TocRange
<1>2. ASSUME NEW i \in DOMAIN ls, ls[i] = Callout PROVE End(i) \in i .. Len(ls)
  <2>1. Goes(ls[i])
    BY <1>2, LineKinds
  <2>2. i \in Through(i)
    BY <1>0, <2>1
  <2>3. Through(i) \subseteq 1 .. Len(ls) /\ Through(i) \subseteq i .. Len(ls)
    BY <1>0
  <2> HIDE DEF Through
  <2>4. Max(Through(i)) \in Through(i)
    BY <1>0, <2>2, <2>3, MaxIn
  <2> QED BY <2>3, <2>4
<1>3. old = {}
  <2> SUFFICES ASSUME NEW i \in old PROVE FALSE
    OBVIOUS
  <2>1. i \in DOMAIN ls /\ ls[i] = Callout /\ \E m \in i .. End(i) : ls[m].kind = "entry"
    OBVIOUS
  <2> HIDE DEF End, old
  <2>2. PICK m \in i .. End(i) : ls[m].kind = "entry"
    BY <2>1
  <2>3. m \in DOMAIN ls
    BY <1>0, <1>2, <2>1
  <2> QED BY <2>2, <2>3
<1> HIDE DEF old
<1> QED BY <1>1, <1>3

\* The table goes below the title, outside code, and says nothing of the text.
LEMMA FedToc ==
  ASSUME NEW titles, NEW ls \in Seq(NoteLine), \A i \in DOMAIN ls : ls[i].kind # "entry",
         Fed(TitleReader, NoTitle, ls).first = "prose"
  PROVE  Fed(WordReader(titles), Unsaid, GenerateToc(ls)) = Fed(WordReader(titles), Unsaid, ls)
<1> DEFINE W == WordReader(titles)
           K == {i \in DOMAIN ls : ls[i].kind = "head" /\ ls[i].level = 1}
           text == {i \in DOMAIN ls : i > Min(K) /\ ls[i] # Blank}
           at == IF K = {} THEN 0 ELSE IF text = {} THEN Len(ls) ELSE Min(text) - 1
           heads == TocHeads(ls)
           entries == [n \in DOMAIN heads |-> Entry(heads[n])]
           above == SubSeq(ls, 1, at)
           below == SubSeq(ls, at + 1, Len(ls))
           new == above \o <<Callout>> \o entries \o <<Blank>> \o below
<1>0. Len(ls) \in Nat /\ DOMAIN ls = 1 .. Len(ls)
  BY Whole
<1>1. GenerateToc(ls) = IF Len(heads) < 2 THEN ls ELSE new
  <2> DEFINE rest == Lines(ls, DOMAIN ls \ TocRange(ls))
             text2 == {i \in DOMAIN rest : i > Min(K) /\ rest[i] # Blank}
             at2 == IF K = {} THEN 0 ELSE IF text2 = {} THEN Len(rest) ELSE Min(text2) - 1
  <2>1. GenerateToc(ls) = IF Len(heads) < 2 THEN ls
                          ELSE SubSeq(rest, 1, at2) \o <<Callout>> \o entries
                                 \o <<Blank>> \o SubSeq(rest, at2 + 1, Len(rest))
    BY DEF GenerateToc
  <2>2. rest = ls
    <3>1. DOMAIN ls \ TocRange(ls) = DOMAIN ls
      BY NoTocRange
    <3>2. Lines(ls, DOMAIN ls) = ls
      BY LinesAll
    <3> QED BY <3>1, <3>2, Zenon
  <2> HIDE DEF rest, entries, heads, K
  <2> QED BY <2>1, <2>2
<1>2. PICK m \in 1 .. Len(ls) : K # {} /\ m = Min(K) /\ Outside(Seen(TitleReader, NoTitle, ls, m))
  BY TitleAt
<1>3. at \in m .. Len(ls) /\ \A i \in (m + 1) .. at : ls[i] = Blank
  <2> HIDE DEF K
  <2>1. CASE text = {}
    <3>1. at = Len(ls)
      BY <1>2, <2>1
    <3>2. ASSUME NEW i \in (m + 1) .. Len(ls) PROVE ls[i] = Blank
      <4>1. i \in DOMAIN ls /\ i > Min(K)
        BY <1>0, <1>2
      <4>2. i \notin text
        BY <2>1
      <4> QED BY <4>1, <4>2
    <3> HIDE DEF at
    <3> QED BY <1>0, <3>1, <3>2
  <2>2. CASE text # {}
    <3>1. at = Min(text) - 1
      BY <1>2, <2>2
    <3>2. text \subseteq 1 .. Len(ls) /\ \A i \in text : i > m
      BY <1>0, <1>2
    <3>3. ASSUME NEW i \in 1 .. Len(ls), i > m, i \notin text PROVE ls[i] = Blank
      BY <1>0, <1>2, <3>3
    <3> HIDE DEF text
    <3>4. Min(text) \in text /\ \A i \in text : Min(text) <= i
      BY <1>0, <2>2, <3>2, MinIn
    <3>5. Min(text) \in 1 .. Len(ls) /\ Min(text) > m
      BY <3>2, <3>4
    <3> HIDE DEF at
    <3>6. ASSUME NEW i \in (m + 1) .. at PROVE ls[i] = Blank
      <4>1. i \in 1 .. Len(ls) /\ i > m /\ i < Min(text)
        BY <1>0, <3>1, <3>5
      <4>2. i \notin text
        <5> SUFFICES ASSUME i \in text PROVE FALSE
          OBVIOUS
        <5>1. Min(text) <= i
          BY <3>4
        <5> QED BY <1>0, <3>5, <4>1, <5>1
      <4> QED BY <3>3, <4>1, <4>2
    <3> QED BY <1>0, <3>1, <3>5, <3>6
  <2> QED BY <2>1, <2>2
<1> HIDE DEF at, K, text
<1>4. Reader(TitleReader, Titlings) /\ NoTitle \in Titlings /\ Outside(NoTitle)
  BY TitleReads
<1>5. Outside(Seen(TitleReader, NoTitle, ls, at))
  <2> DEFINE T == {i \in 0 .. (at - m) : Outside(Seen(TitleReader, NoTitle, ls, m + i))}
  <2>0. at - m \in Nat /\ m + 0 = m /\ m + (at - m) = at
    BY <1>0, <1>3
  <2>1. 0 \in T
    BY <1>2, <2>0
  <2>2. ASSUME NEW i \in 1 .. (at - m), i - 1 \in T PROVE i \in T
    <3>1. PICK k \in 1 .. Len(ls) : k = m + i /\ k - 1 = m + (i - 1) /\ k \in (m + 1) .. at
      BY <1>0, <1>3
    <3>2. Outside(Seen(TitleReader, NoTitle, ls, k - 1))
      BY <2>2, <3>1
    <3>3. /\ Seen(TitleReader, NoTitle, ls, k - 1) \in Titlings
          /\ Seen(TitleReader, NoTitle, ls, k)
               = TitleReader[<<Seen(TitleReader, NoTitle, ls, k - 1), ls[k]>>]
      BY <1>4, SeenStep
    <3>4. ls[k] = Blank
      BY <1>3, <3>1
    <3>5. Mild(TitleReader, Titlings) /\ Blank \in NoteLine /\ Bland(Blank)
      BY MildReaders, BlandLines
    <3>6. Seen(TitleReader, NoTitle, ls, k) = Seen(TitleReader, NoTitle, ls, k - 1)
      BY <3>2, <3>3, <3>4, <3>5 DEF Mild, Quiet
    <3>7. Outside(Seen(TitleReader, NoTitle, ls, m + i))
      BY <3>1, <3>2, <3>6
    <3> QED BY <2>0, <3>7
  <2> HIDE DEF T
  <2>3. at - m \in T
    <3>1. \A i \in 1 .. (at - m) : i - 1 \in T => i \in T
      BY <2>2
    <3> QED BY <2>0, <2>1, <3>1, UpTo
  <2> QED BY <2>0, <2>3 DEF T
<1>6. Reader(W, Writings) /\ Unsaid \in Writings /\ Outside(Unsaid)
      /\ \A l \in NoteLine : Added(l) => Quiet(W, Writings, l)
  BY WordReads
<1>7. /\ above \in Seq(NoteLine) /\ below \in Seq(NoteLine) /\ ls = above \o below
  <2>1. at \in 0 .. Len(ls)
    BY <1>0, <1>3
  <2> QED BY <2>1, CountCut
<1> HIDE DEF W, above, below
<1>8. Outside(Fed(W, Unsaid, above))
  <2>1. Outside(Fed(TitleReader, NoTitle, above))
    BY <1>5 DEF Seen, above
  <2>2. Unsaid.open = NoTitle.open
    BY <1>4, <1>6 DEF Outside
  <2>3. Fed(W, Unsaid, above).open = Fed(TitleReader, NoTitle, above).open
    BY <1>4, <1>6, <1>7, <2>2, FedOpen
  <2> QED BY <2>1, <2>3 DEF Outside
<1>9. entries \in Seq(NoteLine) /\ \A i \in 1 .. Len(entries) : entries[i].kind = "entry"
  <2>1. heads \in Seq(NoteLine)
    BY LinesCount DEF TocHeads
  <2>2. Len(heads) \in Nat /\ DOMAIN heads = 1 .. Len(heads) /\ \A i \in DOMAIN heads : heads[i] \in NoteLine
    BY <2>1
  <2>3. ASSUME NEW i \in 1 .. Len(heads) PROVE entries[i] \in NoteLine /\ entries[i].kind = "entry"
    <3>1. entries[i] = Entry(heads[i])
      BY <2>2
    <3> HIDE DEF heads, entries
    <3> QED BY <2>2, <3>1, LineTypes, LineKinds
  <2>4. entries = [n \in 1 .. Len(heads) |-> entries[n]]
    BY <2>2
  <2> HIDE DEF heads, entries
  <2> QED BY <2>2, <2>3, <2>4
<1> HIDE DEF entries, heads
<1>10. PICK c \in Seq(NoteLine) : c = <<Callout>> /\ \A i \in 1 .. Len(c) : c[i] = Callout
  <2>1. <<Callout>> \in Seq(NoteLine)
    BY LineTypes
  <2>2. \A i \in 1 .. Len(<<Callout>>) : <<Callout>>[i] = Callout
    OBVIOUS
  <2> QED BY <2>1, <2>2, Zenon
<1>11. PICK b \in Seq(NoteLine) : b = <<Blank>> /\ \A i \in 1 .. Len(b) : b[i] = Blank
  <2>1. <<Blank>> \in Seq(NoteLine)
    BY LineTypes
  <2>2. \A i \in 1 .. Len(<<Blank>>) : <<Blank>>[i] = Blank
    OBVIOUS
  <2> QED BY <2>1, <2>2, Zenon
<1>12. \A l \in NoteLine : l.kind \in {"callout", "entry", "blank"}
          => l.kind \notin Strict /\ Quiet(W, Writings, l)
  <2>1. \A l \in NoteLine : l.kind \in {"callout", "entry", "blank"} => Added(l)
    BY DEF Added
  <2> QED BY <1>6, <2>1 DEF Strict
<1>13. /\ \A i \in 1 .. Len(c) : c[i].kind \notin Strict /\ Quiet(W, Writings, c[i])
       /\ \A i \in 1 .. Len(b) : b[i].kind \notin Strict /\ Quiet(W, Writings, b[i])
       /\ \A i \in 1 .. Len(entries) : entries[i].kind \notin Strict /\ Quiet(W, Writings, entries[i])
  <2>1. Callout \in NoteLine /\ Blank \in NoteLine /\ Callout.kind = "callout" /\ Blank.kind = "blank"
    BY LineTypes, LineKinds
  <2>2. \A i \in 1 .. Len(entries) : entries[i] \in NoteLine
    BY <1>9, Whole
  <2> QED BY <1>9, <1>10, <1>11, <1>12, <2>1, <2>2
<1>14. PICK p \in Seq(NoteLine) : p = above \o c /\ Fed(W, Unsaid, p) = Fed(W, Unsaid, above)
  <2>1. above \o c \in Seq(NoteLine) /\ Fed(W, Unsaid, above \o c) = Fed(W, Unsaid, above)
    BY <1>6, <1>7, <1>8, <1>13, FedMore
  <2> QED BY <2>1
<1>15. PICK q \in Seq(NoteLine) : q = p \o entries /\ Fed(W, Unsaid, q) = Fed(W, Unsaid, above)
  <2>1. Outside(Fed(W, Unsaid, p))
    BY <1>8, <1>14
  <2>2. p \o entries \in Seq(NoteLine) /\ Fed(W, Unsaid, p \o entries) = Fed(W, Unsaid, p)
    BY <1>6, <1>9, <1>13, <2>1, FedMore
  <2> QED BY <1>14, <2>2
<1>16. PICK r \in Seq(NoteLine) : r = q \o b /\ Fed(W, Unsaid, r) = Fed(W, Unsaid, above)
  <2>1. Outside(Fed(W, Unsaid, q))
    BY <1>8, <1>15
  <2>2. q \o b \in Seq(NoteLine) /\ Fed(W, Unsaid, q \o b) = Fed(W, Unsaid, q)
    BY <1>6, <1>13, <2>1, FedMore
  <2> QED BY <1>15, <2>2
<1>17. new = r \o below
  BY <1>10, <1>11, <1>14, <1>15, <1>16
<1>18. Fed(W, Unsaid, new) = Fed(W, Unsaid, ls)
  <2>1. Fed(W, Unsaid, r \o below) = Fed(W, Fed(W, Unsaid, r), below)
    BY <1>6, <1>7, FedConcat
  <2>2. Fed(W, Unsaid, above \o below) = Fed(W, Fed(W, Unsaid, above), below)
    BY <1>6, <1>7, FedConcat
  <2> HIDE DEF new
  <2> QED BY <1>7, <1>16, <1>17, <2>1, <2>2, Zenon
<1> HIDE DEF new
<1> QED BY <1>1, <1>18 DEF W

\* The formatter: what it leaves out repeats a heading, and what it adds says nothing.
LEMMA FedStructure ==
  ASSUME SafeIsSafe, NEW titles, NEW ls \in Seq(NoteLine), Fit(ls), Untabled(ls),
         Fed(TitleReader, NoTitle, ls).first = "prose",
         {LinkSafe(t) : t \in Fed(SectionReader, NoOutline, ls).secs} \subseteq titles
  PROVE  Fed(WordReader(titles), Unsaid, ApplyStructure(ls)) = Fed(WordReader(titles), Unsaid, ls)
<1> DEFINE W == WordReader(titles)
           prose == Prose(ls, Strict)
           H == HeadsOf(ls)
           new == [i \in DOMAIN ls |-> Restructured(ls, H, i)]
           K == {i \in DOMAIN ls : ~Restates(ls, prose, H, i)}
           kept == Lines(new, K)
<1>1. ApplyStructure(ls) = IF H = {} THEN ls ELSE GenerateToc(kept)
  BY DEF ApplyStructure, HeadsOf
<1>2. Len(ls) \in Nat /\ DOMAIN ls = 1 .. Len(ls)
  BY Whole
<1>3. /\ new \in Seq(NoteLine) /\ Len(new) = Len(ls)
      /\ Fed(W, Unsaid, new) = Fed(W, Unsaid, ls)
      /\ Fed(TitleReader, NoTitle, new) = Fed(TitleReader, NoTitle, ls)
      /\ \A i \in 0 .. Len(ls) :
           /\ Seen(W, Unsaid, new, i) = Seen(W, Unsaid, ls, i)
           /\ Seen(TitleReader, NoTitle, new, i) = Seen(TitleReader, NoTitle, ls, i)
  <2> HIDE DEF W
  <2> QED BY FedRestructured DEF W
<1>4. ASSUME NEW i \in 1 .. Len(ls), i \notin K
      PROVE  /\ i \in prose /\ ls[i] \in NoteLine /\ new[i] = ls[i]
             /\ ls[i].kind = "para" /\ \E t \in titles : ls[i] = Para(t)
  <2>1. Restates(ls, prose, H, i)
    BY <1>2, <1>4
  <2>2. /\ i \in prose /\ Within(ls, H, i) # 0
        /\ ls[i] = Para(LinkSafe(ls[Within(ls, H, i)].text))
    <3> HIDE DEF prose, H
    <3> QED BY <2>1 DEF Restates
  <2>3. Within(ls, H, i) \in SectionsOf(ls, H)
    <3> DEFINE before == {j \in SectionsOf(ls, H) : j < i}
    <3>1. before \subseteq 1 .. Len(ls)
      BY HeadsIn DEF SectionsOf
    <3>2. before # {} /\ Within(ls, H, i) = Max(before)
      BY <2>2 DEF Within
    <3> HIDE DEF before
    <3>3. Max(before) \in before
      BY <1>2, <3>1, <3>2, MaxIn
    <3> QED BY <3>2, <3>3 DEF before
  <2>4. ls[Within(ls, H, i)].text \in Fed(SectionReader, NoOutline, ls).secs
    <3> HIDE DEF H
    <3> QED BY <2>3, SectionsRead DEF H
  <2>5. LinkSafe(ls[Within(ls, H, i)].text) \in titles
    BY <2>4
  <2>6. ls[i].kind = "para"
    BY <2>2, LineKinds
  <2>7. new[i] = ls[i] /\ ls[i] \in NoteLine
    BY <1>2, <2>6, RestructuredLine
  <2> HIDE DEF H
  <2> QED BY <2>2, <2>5, <2>6, <2>7
<1> HIDE DEF new, K, prose, H
<1>5. Reader(W, Writings) /\ Unsaid \in Writings /\ Outside(Unsaid)
  BY WordReads
<1>6. prose = {i \in DOMAIN ls : ls[i].kind \notin Strict /\ Outside(Seen(W, Unsaid, ls, i - 1))}
  BY <1>5, SeenProse DEF prose
<1>7. ASSUME NEW i \in 1 .. Len(new), i \notin K
      PROVE  W[<<Seen(W, Unsaid, new, i - 1), new[i]>>] = Seen(W, Unsaid, new, i - 1)
  <2>1. PICK l \in NoteLine : l = ls[i] /\ l = new[i] /\ l.kind = "para" /\ \E t \in titles : l = Para(t)
    BY <1>3, <1>4, <1>7
  <2>2. PICK y \in Writings : y = Seen(W, Unsaid, ls, i - 1) /\ y = Seen(W, Unsaid, new, i - 1)
    <3>1. i - 1 \in 0 .. Len(ls) /\ i \in 1 .. Len(ls)
      BY <1>2, <1>3
    <3>2. Seen(W, Unsaid, ls, i - 1) \in Writings
      BY <1>5, <3>1, SeenStep
    <3> QED BY <1>3, <3>1, <3>2
  <2>3. Outside(y)
    BY <1>3, <1>4, <1>6, <1>7, <2>2
  <2>4. Repeats(l, titles)
    BY <2>1 DEF Repeats
  <2>5. Says(y, l, titles) = <<>>
    <3>1. l.kind \notin Strict
      BY <2>1 DEF Strict
    <3> QED BY <2>3, <2>4, <3>1 DEF Says, Left
  <2>6. W[<<y, l>>] = [open |-> Opened(y.open, l, Strict), out |-> y.out \o Says(y, l, titles)]
    BY WordReads
  <2>7. y.open \in Text /\ y.out \in Seq(NoteLine) /\ y = [open |-> y.open, out |-> y.out]
    BY DEF Writings
  <2>8. Opened(y.open, l, Strict) = y.open
    <3>1. l.kind \notin Strict
      BY <2>1 DEF Strict
    <3> QED BY <2>7, <3>1, OpenedType
  <2>9. y.out \o <<>> = y.out
    BY <2>7, ConcatEmptySeq
  <2>10. W[<<y, l>>] = y
    BY <2>5, <2>6, <2>7, <2>8, <2>9, Zenon
  <2> QED BY <2>1, <2>2, <2>10, Zenon
<1>8. Reader(TitleReader, Titlings) /\ NoTitle \in Titlings
  BY TitleReads
<1>9. ASSUME NEW i \in 1 .. Len(new), i \notin K
      PROVE  TitleReader[<<Seen(TitleReader, NoTitle, new, i - 1), new[i]>>]
               = Seen(TitleReader, NoTitle, new, i - 1)
  <2>1. new[i] \in NoteLine /\ new[i].kind = "para"
    BY <1>3, <1>4, <1>9
  <2>2. Seen(TitleReader, NoTitle, new, i - 1) \in Titlings
    BY <1>3, <1>8, SeenStep
  <2>3. new[i].kind \notin {"head", "fence"}
    BY <2>1
  <2> QED BY <2>1, <2>2, <2>3, TitleReads
<1> HIDE DEF W
<1>10. kept \in Seq(NoteLine) /\ Fed(W, Unsaid, kept) = Fed(W, Unsaid, new)
  BY <1>3, <1>5, <1>7, FedLines
<1>11. Fed(TitleReader, NoTitle, kept) = Fed(TitleReader, NoTitle, new)
  BY <1>3, <1>8, <1>9, FedLines
<1>12. Fed(TitleReader, NoTitle, kept).first = "prose"
  BY <1>3, <1>11
<1>13. \A i \in DOMAIN kept : kept[i].kind # "entry"
  <2> DEFINE S == {l \in NoteLine : l.kind # "entry"}
  <2>1. ASSUME NEW i \in 1 .. Len(new) PROVE new[i] \in S
    <3>1. ls[i].kind # "entry" /\ i \in DOMAIN ls
      BY <1>2, <1>3 DEF Untabled, Range
    <3>2. new[i] = Restructured(ls, HeadsOf(ls), i)
      BY <3>1 DEF new, H
    <3>3. new[i].kind # "entry"
      <4>1. CASE ls[i].kind = "head"
        BY <3>1, <3>2, <4>1, RestructuredLine
      <4>2. CASE ls[i].kind # "head"
        BY <3>1, <3>2, <4>2, RestructuredLine
      <4> QED BY <4>1, <4>2
    <3> QED BY <1>3, <3>3
  <2>2. Len(new) \in Nat /\ DOMAIN new = 1 .. Len(new)
    BY <1>3, Whole
  <2>3. \A i \in 1 .. Len(new) : i \in K => new[i] \in S
    BY <2>1
  <2>4. \A l \in S : l.kind # "entry"
    OBVIOUS
  <2> HIDE DEF S
  <2>5. kept \in Seq(S)
    BY <2>2, <2>3, LinesType
  <2> HIDE DEF kept
  <2> QED BY <2>4, <2>5
<1> HIDE DEF kept
<1>14. Fed(W, Unsaid, GenerateToc(kept)) = Fed(W, Unsaid, kept)
  BY <1>10, <1>12, <1>13, FedToc DEF W
<1> QED BY <1>1, <1>3, <1>10, <1>14, Zenon DEF W

-----------------------------------------------------------------------------
(* That the text is kept.                                                  *)

\* A link says what the line said before.
LEMMA LinkSaid ==
  ASSUME LastIsLast, NEW t \in Linked, t.name \notin Unlinkable, NEW l \in NoteLine,
         l.kind = "para", l.text \in {Surfaces(t)[1], Surfaces(t)[2]}
  PROVE  Said(l) = Said(Link(t.name))
<1> DEFINE Shown(x) == Para(IF x \in DOMAIN LastWord THEN LastWord[x] ELSE LinkSafe(x))
           name == t.name
           entity == t.entity
<1>1. /\ \A x : Said(Para(x)) = Shown(x) /\ Said(Link(x)) = Shown(x)
      /\ Said(l) = Shown(l.text)
  BY LineKinds DEF Said
<1>2. \A n \in DOMAIN LastWord \ Unlinkable : Shown(LastWord[n]) = Para(LastWord[n])
  BY <1>1 DEF LastIsLast
<1>3. entity = name \/ (name \in DOMAIN LastWord /\ entity = LastWord[name])
  <2>1. entity \in Keys(name)
    BY DEF Linked
  <2>2. entity \in {name} \cup {LastWord[n] : n \in {name} \cap NameLike}
    BY <2>1 DEF Keys
  <2> QED BY <2>2, TextAssumption
<1>4. /\ Surfaces(t)[1] = name
      /\ Surfaces(t)[2] = IF entity \in DOMAIN LastWord THEN LastWord[entity] ELSE entity
  BY DEF Surfaces
<1>5. \A x, y : Para(x) = Para(y) => x = y
  <2>1. \A x : Para(x).text = x
    BY LineKinds
  <2> QED BY <2>1
<1>6. ASSUME name \in DOMAIN LastWord
      PROVE  /\ Shown(name) = Para(LastWord[name]) /\ Shown(LastWord[name]) = Shown(name)
             /\ LastWord[name] \in DOMAIN LastWord => LastWord[LastWord[name]] = LastWord[name]
  <2>1. Shown(LastWord[name]) = Para(LastWord[name])
    BY <1>2, <1>6
  <2>2. Shown(name) = Para(LastWord[name])
    BY <1>6
  <2>3. LastWord[name] \in DOMAIN LastWord => Shown(LastWord[name]) = Para(LastWord[LastWord[name]])
    OBVIOUS
  <2> QED BY <1>5, <2>1, <2>2, <2>3
<1> HIDE DEF Shown
<1>7. Shown(Surfaces(t)[2]) = Shown(name)
  <2>1. CASE entity = name
    BY <1>4, <1>6, <2>1
  <2>2. CASE name \in DOMAIN LastWord /\ entity = LastWord[name]
    BY <1>4, <1>6, <2>2
  <2> QED BY <1>3, <2>1, <2>2
<1>8. Shown(l.text) = Shown(name)
  BY <1>4, <1>7
<1> QED BY <1>1, <1>8

LEMMA LinkRead ==
  ASSUME LastIsLast, NEW titles, NEW t \in Linked, t.name \notin Unlinkable, NEW l \in NoteLine,
         l.kind = "para", l.text \in {Surfaces(t)[1], Surfaces(t)[2]},
         NEW s \in Writings, Outside(s)
  PROVE  Link(t.name) \in NoteLine /\ WordReader(titles)[<<s, Link(t.name)>>] = WordReader(titles)[<<s, l>>]
<1>1. /\ t.name \in Text /\ \A m \in Range(Mine) : m \notin {Surfaces(t)[1], Surfaces(t)[2]}
  BY NotMine DEF Linked
<1>2. PICK x \in NoteLine : x = Link(t.name) /\ x.kind = "link"
  BY <1>1, LineTypes, LineKinds
<1>3. Said(x) = Said(l)
  BY <1>2, LinkSaid
<1>4. ~Added(x) /\ ~Added(l)
  <2>1. Heading(2, 0, RelatedNotes).kind = "head"
    BY LineKinds
  <2> QED BY <1>1, <1>2, <2>1 DEF Added
<1>5. Repeats(x, titles) <=> Repeats(l, titles)
  BY <1>2, <1>3 DEF Repeats
<1>6. Left(x, titles) = Left(l, titles)
  BY <1>3, <1>4, <1>5 DEF Left
<1>7. x.kind \notin Strict /\ l.kind \notin Strict
  BY <1>2 DEF Strict
<1>8. Says(s, x, titles) = Says(s, l, titles)
  BY <1>6, <1>7 DEF Says
<1>9. Opened(s.open, x, Strict) = s.open /\ Opened(s.open, l, Strict) = s.open
  BY <1>7 DEF Opened
<1>10. \A y \in NoteLine : WordReader(titles)[<<s, y>>]
          = [open |-> Opened(s.open, y, Strict), out |-> s.out \o Says(s, y, titles)]
  BY WordReads
<1>11. WordReader(titles)[<<s, x>>] = WordReader(titles)[<<s, l>>]
  BY <1>8, <1>9, <1>10
<1> QED BY <1>2, <1>11

\* A link is put in outside code.
LEMMA FedLink ==
  ASSUME LastIsLast, NEW titles, NEW ls \in Seq(NoteLine), PlainFences(ls), NEW t \in Linked
  PROVE  /\ LinkFirst(ls, t) \in Seq(NoteLine) /\ PlainFences(LinkFirst(ls, t))
         /\ Fed(WordReader(titles), Unsaid, LinkFirst(ls, t)) = Fed(WordReader(titles), Unsaid, ls)
<1> DEFINE d == WordReader(titles)
           x == Link(t.name)
<1>1. CASE LinkFirst(ls, t) = ls
  BY <1>1
<1>2. CASE LinkFirst(ls, t) # ls
  <2>1. PICK at \in DOMAIN ls :
          /\ LinkFirst(ls, t) = [ls EXCEPT ![at] = x]
          /\ ls[at].kind = "para" /\ ls[at].text \in {Surfaces(t)[1], Surfaces(t)[2]}
          /\ t.name \notin Unlinkable /\ at \in Prose(ls, Loose)
    BY <1>2, LinkFirstStep
  <2> DEFINE new == [ls EXCEPT ![at] = x]
  <2>2. Len(ls) \in Nat /\ DOMAIN ls = 1 .. Len(ls) /\ ls[at] \in NoteLine
    BY Whole
  <2>3. x \in NoteLine /\ x.kind = "link"
    BY LineTypes, LineKinds DEF Linked
  <2>4. /\ new \in Seq(NoteLine) /\ Len(new) = Len(ls) /\ DOMAIN new = 1 .. Len(ls)
        /\ new[at] = x /\ \A i \in 1 .. Len(ls) : i # at => new[i] = ls[i]
    <3>1. \A i \in 1 .. Len(ls) : new[i] \in NoteLine
      BY <2>2, <2>3
    <3>2. new \in [1 .. Len(ls) -> NoteLine]
      BY <2>2, <3>1
    <3> QED BY <2>1, <2>2, <3>2
  <2> HIDE DEF new
  <2>5. PlainFences(new)
    BY <2>2, <2>3, <2>4 DEF PlainFences
  <2>6. Reader(d, Writings) /\ Unsaid \in Writings /\ Outside(Unsaid)
    BY WordReads
  <2>7. Outside(Seen(d, Unsaid, ls, at - 1)) /\ Seen(d, Unsaid, ls, at - 1) \in Writings
    <3>1. at \in Prose(ls, Strict)
      BY <2>1, ProseAgree
    <3>2. at \in {i \in DOMAIN ls : ls[i].kind \notin Strict /\ Outside(Seen(d, Unsaid, ls, i - 1))}
      BY <2>6, <3>1, SeenProse
    <3>3. Seen(d, Unsaid, ls, at - 1) \in Writings
      BY <2>2, <2>6, SeenStep
    <3> QED BY <3>2, <3>3
  <2>8. d[<<Seen(d, Unsaid, ls, at - 1), x>>] = d[<<Seen(d, Unsaid, ls, at - 1), ls[at]>>]
    BY <2>1, <2>2, <2>7, LinkRead
  <2> HIDE DEF d, x
  <2>9. \A i \in 1 .. Len(ls) :
          d[<<Seen(d, Unsaid, ls, i - 1), new[i]>>] = d[<<Seen(d, Unsaid, ls, i - 1), ls[i]>>]
    BY <2>4, <2>8
  <2>10. Fed(d, Unsaid, new) = Fed(d, Unsaid, ls)
    BY <2>4, <2>6, <2>9, FedSame
  <2> QED BY <2>1, <2>4, <2>5, <2>10 DEF new, d
<1> QED BY <1>1, <1>2

LEMMA FedMentions ==
  ASSUME LastIsLast, NEW titles, NEW ls \in Seq(NoteLine), PlainFences(ls), NEW body,
         body = LinkMentions(ls, Resolved(Entities, Names))
  PROVE  /\ body \in Seq(NoteLine) /\ PlainFences(body)
         /\ Fed(WordReader(titles), Unsaid, body) = Fed(WordReader(titles), Unsaid, ls)
<1> DEFINE d == WordReader(titles)
           S == {s \in Seq(NoteLine) : PlainFences(s) /\ Fed(d, Unsaid, s) = Fed(d, Unsaid, ls)}
<1>1. ls \in S
  OBVIOUS
<1>2. ASSUME NEW s \in S, NEW t \in Linked PROVE LinkFirst(s, t) \in S
  BY FedLink
<1>3. Resolved(Entities, Names) \in Seq(Linked)
  BY ResolvedType, NoteEditsAssumption DEF Linked
<1> HIDE DEF S
<1>4. body \in S
  BY <1>1, <1>2, <1>3, MentionsIn
<1> QED BY <1>4 DEF S

\* A text that has no fence of its own is as plain as the one it is made of.
LEMMA PlainFrom ==
  ASSUME NEW a \in Seq(NoteLine), NEW b \in Seq(NoteLine), PlainFences(a),
         \A l : l.kind = "info" => Count(l, b) <= Count(l, a)
  PROVE  PlainFences(b)
<1> SUFFICES ASSUME NEW i \in DOMAIN b, b[i].kind = "info" PROVE FALSE
  BY DEF PlainFences
<1> DEFINE l == b[i]
<1>1. l \in Range(b)
  BY DEF Range
<1>2. Count(l, b) > 0 /\ Count(l, b) <= Count(l, a)
  BY <1>1, CountMember
<1>3. Count(l, a) \in Nat /\ Count(l, b) \in Nat
  BY AtType
<1>4. l \in Range(a)
  BY <1>2, <1>3, CountMember
<1> QED BY <1>4 DEF PlainFences, Range

\* The linker's section says nothing of the text.
LEMMA FedAppend ==
  ASSUME NEW titles, NEW ls \in Seq(NoteLine), NEW related \in Seq(Text),
         Outside(Fed(WordReader(titles), Unsaid, ls))
  PROVE  Fed(WordReader(titles), Unsaid, AppendRelated(ls, related))
           = Fed(WordReader(titles), Unsaid, ls)
<1> DEFINE d == WordReader(titles)
           K == {n \in DOMAIN related : related[n] \notin Unlinkable}
           names == Rendered(related)
           items == [n \in DOMAIN names |-> Item(names[n])]
           title == <<Blank, Heading(2, 0, RelatedNotes), Blank>>
           cut == TrimEnd(ls)
           new == cut \o title \o items
<1>1. AppendRelated(ls, related) = IF names = <<>> THEN ls ELSE new
  BY DEF AppendRelated
<1>2. names \in Seq(Text)
  <2>1. /\ Len(related) \in Nat /\ DOMAIN related = 1 .. Len(related)
        /\ \A i \in 1 .. Len(related) : i \in K => related[i] \in Text
    BY Whole
  <2> HIDE DEF K
  <2>2. Lines(related, K) \in Seq(Text)
    BY <2>1, LinesType
  <2> QED BY <2>2 DEF K, Rendered
<1> HIDE DEF names
<1>3. Len(names) \in Nat /\ DOMAIN names = 1 .. Len(names) /\ DOMAIN items = 1 .. Len(names)
  BY <1>2, Whole
<1>4. ASSUME NEW l \in NoteLine, Added(l) PROVE l.kind \notin Strict /\ Quiet(d, Writings, l)
  BY <1>4, AddedPlain, WordReads
<1>5. \A n \in 1 .. Len(names) : items[n] \in NoteLine /\ Added(items[n])
  <2> SUFFICES ASSUME NEW n \in 1 .. Len(names) PROVE items[n] \in NoteLine /\ Added(items[n])
    OBVIOUS
  <2>1. items[n] = Item(names[n]) /\ names[n] \in Text
    BY <1>2, <1>3
  <2> HIDE DEF items
  <2>2. items[n] \in NoteLine /\ items[n].kind = "item"
    BY <2>1, LineTypes, LineKinds
  <2> QED BY <2>2 DEF Added
<1>6. PICK its \in Seq(NoteLine) : its = items /\ \A n \in 1 .. Len(its) : Added(its[n])
  <2>1. items = [n \in 1 .. Len(names) |-> items[n]]
    BY <1>3
  <2> HIDE DEF items
  <2>2. items \in [1 .. Len(names) -> NoteLine]
    BY <1>5, <2>1
  <2>3. items \in Seq(NoteLine) /\ Len(items) = Len(names)
    BY <1>3, <2>2
  <2> QED BY <1>5, <2>3
<1>7. PICK t \in Seq(NoteLine) : t = title /\ \A n \in 1 .. Len(t) : Added(t[n])
  <2>1. Heading(2, 0, RelatedNotes) \in NoteLine /\ Blank \in NoteLine /\ Blank.kind = "blank"
    BY TextAssumption, LineTypes, LineKinds
  <2>2. title \in Seq(NoteLine)
    BY <2>1
  <2>3. PICK t \in Seq(NoteLine) : t = title
    BY <2>2
  <2>4. Len(t) = 3 /\ t[1] = Blank /\ t[2] = Heading(2, 0, RelatedNotes) /\ t[3] = Blank
    BY <2>3
  <2>5. Added(Blank) /\ Added(Heading(2, 0, RelatedNotes))
    BY <2>1 DEF Added
  <2>6. \A n \in 1 .. Len(t) : Added(t[n])
    BY <2>4, <2>5
  <2> QED BY <2>3, <2>6
<1>8. Reader(d, Writings) /\ Unsaid \in Writings /\ Quiet(d, Writings, Blank)
  <2>1. Blank \in NoteLine /\ Bland(Blank)
    BY BlandLines
  <2> QED BY <2>1, MildReaders, WordReads DEF Mild
<1>9. cut \in Seq(NoteLine) /\ Fed(d, Unsaid, cut) = Fed(d, Unsaid, ls)
  BY <1>8, FedTrimEnd, TrimEndCount
<1>10. Outside(Fed(d, Unsaid, cut))
  BY <1>9
<1>11. \A n \in 1 .. Len(t) : t[n].kind \notin Strict /\ Quiet(d, Writings, t[n])
  BY <1>4, <1>7, Whole
<1>12. \A n \in 1 .. Len(its) : its[n].kind \notin Strict /\ Quiet(d, Writings, its[n])
  <2> HIDE DEF d, items
  <2>1. \A n \in 1 .. Len(its) : its[n] \in NoteLine /\ Added(its[n])
    BY <1>6
  <2> QED BY <1>4, <2>1, Zenon
<1> HIDE DEF d, cut, items, title
<1>13. cut \o t \in Seq(NoteLine) /\ Fed(d, Unsaid, cut \o t) = Fed(d, Unsaid, cut)
  BY <1>8, <1>9, <1>10, <1>11, FedMore
<1>14. PICK c \in Seq(NoteLine) : c = cut \o t
  BY <1>13
<1>15. Fed(d, Unsaid, c) = Fed(d, Unsaid, ls) /\ Outside(Fed(d, Unsaid, c))
  BY <1>9, <1>10, <1>13, <1>14
<1>16. Fed(d, Unsaid, c \o its) = Fed(d, Unsaid, c)
  BY <1>8, <1>12, <1>15, FedMore
<1>17. new = c \o its
  BY <1>6, <1>7, <1>14
<1> HIDE DEF new
<1>18. Fed(d, Unsaid, new) = Fed(d, Unsaid, ls)
  BY <1>15, <1>16, <1>17
<1> QED BY <1>1, <1>18 DEF d

\* The linker.
LEMMA FedConnect ==
  ASSUME LastIsLast, NEW titles, NEW ls \in Seq(NoteLine), NEW related \in Seq(Text), NEW b,
         Apart(ls), PlainFences(ls), Outside(Fed(WordReader(titles), Unsaid, ls)),
         b = AppendRelated(LinkMentions(StripRelated(ls), Resolved(Entities, Names)), related)
  PROVE  /\ PlainFences(b)
         /\ Fed(WordReader(titles), Unsaid, b) = Fed(WordReader(titles), Unsaid, ls)
<1> DEFINE body == LinkMentions(ls, Resolved(Entities, Names))
<1>1. StripRelated(ls) = ls
  <2>1. \A i \in DOMAIN ls : ls[i].kind = "head" => ls[i].text # RelatedNotes
    BY DEF Apart, Range
  <2> QED BY <2>1, StripCount
<1>2. b = AppendRelated(body, related)
  BY <1>1
<1>3. /\ body \in Seq(NoteLine) /\ PlainFences(body)
      /\ Fed(WordReader(titles), Unsaid, body) = Fed(WordReader(titles), Unsaid, ls)
  BY FedMentions
<1> HIDE DEF body
<1>4. Fed(WordReader(titles), Unsaid, b) = Fed(WordReader(titles), Unsaid, body)
  BY <1>2, <1>3, FedAppend
<1>5. b \in Seq(NoteLine) /\ \A l : l.kind = "info" => Count(l, b) <= Count(l, body)
  <2>1. /\ b \in Seq(NoteLine)
        /\ \A l : l.kind \notin {"head", "blank", "item"} => Count(l, b) = Count(l, body)
    BY <1>2, <1>3, AppendCount
  <2>2. \A l : Count(l, body) \in Nat
    BY <1>3, AtType
  <2> QED BY <2>1, <2>2
<1>6. PlainFences(b)
  BY <1>3, <1>5, PlainFrom
<1> QED BY <1>3, <1>4, <1>6

\* No stage and no save brings in a fence that opens in another way.
LEMMA PlainWoven ==
  ASSUME NEW ls \in Seq(NoteLine), NEW chosen, PlainFences(ls)
  PROVE  PlainFences(Splice(ls, chosen))
<1> DEFINE b == Splice(ls, chosen)
<1>1. b \in Seq(NoteLine) /\ \A l : l # Blank /\ l.kind # "trans" => Count(l, b) = Count(l, ls)
  BY SpliceCount
<1> HIDE DEF b
<1>2. \A l : Count(l, ls) \in Nat
  BY AtType
<1>3. \A l : l.kind = "info" => l # Blank
  BY LineKinds
<1>4. \A l : l.kind = "info" => Count(l, b) <= Count(l, ls)
  BY <1>1, <1>2, <1>3
<1> QED BY <1>1, <1>4, PlainFrom DEF b

LEMMA PlainFormatted ==
  ASSUME NEW ls \in Seq(NoteLine), PlainFences(ls)
  PROVE  PlainFences(ApplyStructure(ls))
<1> DEFINE b == ApplyStructure(ls)
<1>1. /\ b \in Seq(NoteLine)
      /\ \A l : l.kind \notin {"head", "callout", "entry", "blank"} => Count(l, b) <= Count(l, ls)
  BY StructureCount
<1> HIDE DEF b
<1>2. \A l : l.kind = "info" => Count(l, b) <= Count(l, ls)
  BY <1>1
<1> QED BY <1>1, <1>2, PlainFrom DEF b

LEMMA PlainWritten ==
  ASSUME NEW b \in Seq(NoteLine), PlainFences(b)
  PROVE  PlainFences(Normalise(Candidate(b)))
<1> DEFINE c == Normalise(Candidate(b))
<1>1. c \in Seq(NoteLine) /\ \A l : l # Blank /\ l # Rule => Count(l, c) <= Count(l, b)
  BY CandidateCount
<1> HIDE DEF c
<1>2. \A l : l.kind = "info" => l # Blank /\ l # Rule
  BY LineKinds
<1>3. \A l : l.kind = "info" => Count(l, c) <= Count(l, b)
  BY <1>1, <1>2
<1> QED BY <1>1, <1>3, PlainFrom DEF c

LEMMA PlainSaved ==
  ASSUME NEW ls \in Seq(NoteLine), NEW m \in Text, PlainFences(ls),
         NEW b \in {ls \o <<Blank, Para(m)>>, <<Para(m), Blank>> \o ls}
  PROVE  PlainFences(b)
<1>1. b \in Seq(NoteLine) /\ \A l : l.kind \notin {"blank", "para"} => Count(l, b) = Count(l, ls)
  BY SavedText
<1>2. \A l : Count(l, ls) \in Nat
  BY AtType
<1>3. \A l : l.kind = "info" => Count(l, b) <= Count(l, ls)
  BY <1>1, <1>2
<1> QED BY <1>1, <1>3, PlainFrom

\* The title assembly writes is the first of the note, and not in code.
LEMMA TitleSecond ==
  ASSUME NEW ls \in Seq(NoteLine), Len(ls) >= 2, ls[1] = Blank, IsTitle(ls[2])
  PROVE  Titling(ls).first = "prose"
<1> DEFINE d == TitleReader
<1>1. /\ Reader(d, Titlings) /\ NoTitle \in Titlings /\ Outside(NoTitle)
      /\ \A s \in Titlings, l \in NoteLine : d[<<s, l>>].first = First(s, l)
      /\ \A l \in NoteLine : l.kind \notin {"head", "fence"} => \A s \in Titlings : d[<<s, l>>] = s
  BY TitleReads
<1> HIDE DEF d
<1>2. PICK f \in [0 .. Len(ls) -> Titlings] :
        /\ f[0] = NoTitle /\ \A i \in 1 .. Len(ls) : f[i] = d[<<f[i - 1], ls[i]>>]
        /\ Fed(d, NoTitle, ls) = f[Len(ls)]
  BY <1>1, FedStates
<1>3. Len(ls) \in Nat /\ \A i \in 1 .. Len(ls) : ls[i] \in NoteLine
  BY Whole
<1>4. ASSUME NEW i \in 1 .. Len(ls)
      PROVE  /\ i - 1 \in 0 .. Len(ls) /\ f[i - 1] \in Titlings /\ f[i].first = First(f[i - 1], ls[i])
  <2>1. i - 1 \in 0 .. Len(ls)
    BY <1>3
  <2>2. f[i - 1] \in Titlings
    BY <2>1
  <2>3. PICK s \in Titlings : s = f[i - 1]
    BY <2>2
  <2>4. PICK l \in NoteLine : l = ls[i]
    BY <1>3
  <2>5. f[i] = d[<<s, l>>]
    BY <1>2, <2>3, <2>4
  <2>6. d[<<s, l>>].first = First(s, l)
    BY <1>1
  <2> QED BY <2>1, <2>2, <2>3, <2>4, <2>5, <2>6
<1>5. f[1] = NoTitle
  <2>1. 1 \in 1 .. Len(ls) /\ 1 - 1 = 0
    BY <1>3
  <2>2. f[1] = d[<<NoTitle, Blank>>]
    BY <1>2, <2>1
  <2>3. Blank \in NoteLine /\ Blank.kind = "blank"
    BY LineTypes, LineKinds
  <2> QED BY <1>1, <2>2, <2>3
<1>6. f[2].first = "prose"
  <2>1. 2 \in 1 .. Len(ls) /\ 2 - 1 = 1
    BY <1>3
  <2>2. f[2].first = First(NoTitle, ls[2])
    BY <1>4, <1>5, <2>1
  <2>3. NoTitle.first = "none"
    BY DEF NoTitle
  <2> QED BY <1>1, <2>2, <2>3 DEF First, IsTitle
<1> DEFINE T == {i \in 0 .. Len(ls) : i >= 2 => f[i].first = "prose"}
<1>7. 0 \in T
  BY <1>3
<1>8. ASSUME NEW i \in 1 .. Len(ls), i - 1 \in T PROVE i \in T
  <2>1. f[i].first = First(f[i - 1], ls[i])
    BY <1>4
  <2>2. CASE i <= 2
    BY <1>3, <1>6, <2>2
  <2>3. CASE i > 2
    <3>1. f[i - 1].first = "prose"
      BY <1>8, <2>3
    <3>2. f[i].first = "prose"
      BY <2>1, <3>1 DEF First
    <3> QED BY <3>2
  <2> QED BY <1>3, <2>2, <2>3
<1>9. Len(ls) \in T
  <2> HIDE DEF T
  <2>1. \A i \in 1 .. Len(ls) : i - 1 \in T => i \in T
    BY <1>8
  <2> QED BY <1>3, <1>7, <2>1, UpTo, Zenon
<1> QED BY <1>2, <1>9 DEF Titling, d

LEMMA PlacedTitle ==
  ASSUME NEW plan \in Plan, NEW chunks \in [DOMAIN plan -> Chunk]
  PROVE  Titling(Placed(plan, chunks)).first = "prose"
<1> DEFINE all == Assembled(Topic, plan, chunks)
           cut == TrimEnd(all)
           safe == Unwrapped(cut, Names)
           full == Append(safe, Blank)
           title == Heading(1, 0, Topic)
<1>1. plan \in Seq(Text) /\ Chunk \subseteq Seq(NoteLine) /\ Topic \in Text
  BY NoteEditsAssumption
<1>2. all \in Seq(NoteLine) /\ Len(all) >= 2 /\ all[1] = Blank /\ all[2] = title
  <2>1. \A i \in DOMAIN plan : Trim(chunks[i]) \in Seq(NoteLine)
    BY <1>1, TrimCount
  <2>2. Blank \in NoteLine /\ \A m \in {1, 2}, t \in Text : Heading(m, 0, t) \in NoteLine
    BY LineTypes
  <2> HIDE DEF all
  <2> QED BY <1>1, <2>1, <2>2, AssembledIn DEF all
<1>3. IsTitle(title) /\ title # Blank /\ title.kind # "link" /\ Blank.kind # "link"
  BY LineKinds DEF IsTitle
<1> HIDE DEF all, title
<1>4. cut \in Seq(NoteLine)
  BY <1>2, TrimEndCount
<1>5. Len(cut) >= 2 /\ cut[1] = Blank /\ cut[2] = title
  <2>1. PICK rest \in Seq(NoteLine) : all = cut \o rest /\ \A i \in 1 .. Len(rest) : rest[i] = Blank
    BY <1>2, TrimEndRest
  <2> HIDE DEF cut
  <2>2. /\ Len(all) = Len(cut) + Len(rest) /\ Len(cut) \in Nat /\ Len(rest) \in Nat
        /\ \A i \in 1 .. Len(cut) + Len(rest) :
             all[i] = IF i <= Len(cut) THEN cut[i] ELSE rest[i - Len(cut)]
    BY <1>4, <2>1, ConcatProperties
  <2>3. Len(cut) >= 2
    <3> SUFFICES ASSUME Len(cut) < 2 PROVE FALSE
      BY <2>2
    <3>1. 2 \in 1 .. Len(cut) + Len(rest) /\ 2 - Len(cut) \in 1 .. Len(rest)
      BY <1>2, <2>2
    <3>2. all[2] = rest[2 - Len(cut)]
      BY <2>2, <3>1
    <3> QED BY <1>2, <1>3, <2>1, <3>1, <3>2
  <2>4. 1 \in 1 .. Len(cut) + Len(rest) /\ 2 \in 1 .. Len(cut) + Len(rest)
    BY <2>2, <2>3
  <2> QED BY <1>2, <2>2, <2>3, <2>4
<1> HIDE DEF cut
<1>6. safe \in Seq(NoteLine)
  <2>1. \A l \in NoteLine : Para(l.text) \in NoteLine
    <3>1. \A l \in NoteLine : l.text \in Text
      BY DEF NoteLine
    <3> QED BY <3>1, LineTypes
  <2> QED BY <1>4, <2>1, UnwrappedIn
<1>7. Len(safe) >= 2 /\ safe[1] = Blank /\ safe[2] = title
  <2>1. DOMAIN cut = 1 .. Len(cut) /\ Len(cut) \in Nat
    BY <1>4, Whole
  <2>2. /\ DOMAIN safe = 1 .. Len(cut)
        /\ \A i \in 1 .. Len(cut) : cut[i].kind # "link" => safe[i] = cut[i]
    BY <2>1 DEF Unwrapped
  <2>3. 1 \in 1 .. Len(cut) /\ 2 \in 1 .. Len(cut)
    BY <1>5, <2>1
  <2> HIDE DEF safe
  <2>4. Len(safe) = Len(cut)
    BY <1>6, <2>1, <2>2
  <2> QED BY <1>3, <1>5, <2>2, <2>3, <2>4
<1> HIDE DEF safe
<1>8. full \in Seq(NoteLine) /\ Len(full) >= 2 /\ full[1] = Blank /\ full[2] = title
  <2>1. Blank \in NoteLine
    BY LineTypes
  <2> QED BY <1>6, <1>7, <2>1
<1>9. Placed(plan, chunks) = Normalise(full)
  BY DEF Placed, full, safe, cut, all
<1> HIDE DEF full
<1>10. Titling(full).first = "prose"
  BY <1>3, <1>8, TitleSecond
<1>11. Fed(TitleReader, NoTitle, Normalise(full)) = Fed(TitleReader, NoTitle, full)
  <2>1. /\ Reader(TitleReader, Titlings) /\ NoTitle \in Titlings /\ Outside(NoTitle)
        /\ Quiet(TitleReader, Titlings, Blank) /\ Quiet(TitleReader, Titlings, Rule)
    BY MildReaders, BlandLines, TitleReads DEF Mild
  <2> QED BY <1>8, <2>1, FedNormalise
<1> QED BY <1>9, <1>10, <1>11 DEF Titling

\* The readers end outside code where the text does.
LEMMA ClosesRead ==
  ASSUME NEW titles, NEW ls \in Seq(NoteLine), Closes(ls)
  PROVE  Outside(Fed(WordReader(titles), Unsaid, ls))
<1> DEFINE d == WordReader(titles)
           n == Len(ls)
           a == Append(ls, Blank)
<1>1. Reader(d, Writings) /\ Unsaid \in Writings /\ Outside(Unsaid)
  BY WordReads
<1> HIDE DEF d
<1>2. n \in Nat /\ Blank \in NoteLine
  BY LineTypes
<1>3. a \in Seq(NoteLine)
  BY <1>2
<1>4. SubSeq(a, 1, n) = ls
  <2>1. Len(a) = n + 1 /\ \A i \in 1 .. n : a[i] = ls[i]
    BY <1>2
  <2> HIDE DEF a
  <2>2. /\ SubSeq(a, 1, n) \in Seq(NoteLine) /\ Len(SubSeq(a, 1, n)) = n
        /\ \A i \in 1 .. n : SubSeq(a, 1, n)[i] = a[i]
    BY <1>2, <1>3, <2>1, SubSeqProperties
  <2>3. Len(SubSeq(a, 1, n)) = Len(ls) /\ \A i \in 1 .. Len(ls) : SubSeq(a, 1, n)[i] = ls[i]
    BY <2>1, <2>2
  <2> QED BY <2>2, <2>3, SeqEqual
<1>5. n + 1 \in Prose(a, Strict)
  BY DEF Closes
<1> HIDE DEF a
<1>6. n + 1 \in {i \in DOMAIN a : a[i].kind \notin Strict /\ Outside(Seen(d, Unsaid, a, i - 1))}
  BY <1>1, <1>3, <1>5, SeenProse
<1>7. Outside(Seen(d, Unsaid, a, n))
  <2>1. Outside(Seen(d, Unsaid, a, (n + 1) - 1))
    BY <1>6
  <2>2. (n + 1) - 1 = n
    BY <1>2
  <2> QED BY <2>1, <2>2
<1>8. Seen(d, Unsaid, a, n) = Fed(d, Unsaid, ls)
  BY <1>4 DEF Seen
<1> QED BY <1>7, <1>8 DEF d

LEMMA KeptReads ==
  ASSUME placed \in Seq(NoteLine), Plainly, NEW ls \in Seq(NoteLine), Kept(ls)
  PROVE  /\ PlainFences(ls) /\ Outside(Word(ls)) /\ Outside(Outline(ls)) /\ Outside(Titling(ls))
<1>1. Outside(Word(placed))
  BY ClosesRead DEF Plainly, Word
<1>2. PlainFences(ls) /\ Outside(Word(ls))
  BY <1>1 DEF Kept
<1>3. /\ Reader(SectionReader, Outlines) /\ NoOutline \in Outlines /\ Outside(NoOutline)
      /\ Reader(TitleReader, Titlings) /\ NoTitle \in Titlings /\ Outside(NoTitle)
  BY SectionReads, TitleReads
<1>4. /\ Reader(WordReader(Titles), Writings) /\ Unsaid \in Writings
      /\ Unsaid.open = NoOutline.open /\ Unsaid.open = NoTitle.open
  <2>1. /\ Reader(WordReader(Titles), Writings) /\ Unsaid \in Writings /\ Outside(Unsaid)
    BY WordReads
  <2> QED BY <1>3, <2>1 DEF Outside
<1>5. ASSUME NEW R, NEW e, Reader(e, R), NEW r \in R, Unsaid.open = r.open
      PROVE  Word(ls).open = Fed(e, r, ls).open
  <2>1. PICK d : d = WordReader(Titles) /\ Reader(d, Writings)
    BY <1>4
  <2>2. PICK s \in Writings : s = Unsaid /\ s.open = r.open
    BY <1>4, <1>5
  <2>3. Fed(d, s, ls).open = Fed(e, r, ls).open
    BY <1>5, <2>1, <2>2, FedOpen
  <2> QED BY <2>1, <2>2, <2>3 DEF Word
<1>6. Word(ls).open = Outline(ls).open
  BY <1>3, <1>4, <1>5 DEF Outline
<1>7. Word(ls).open = Titling(ls).open
  BY <1>3, <1>4, <1>5 DEF Titling
<1> QED BY <1>2, <1>6, <1>7 DEF Outside

LEMMA KeptWoven ==
  ASSUME NEW ls \in Seq(NoteLine), Kept(ls), NEW chosen
  PROVE  Kept(Splice(ls, chosen)) /\ (Young(ls) => Young(Splice(ls, chosen)))
<1> DEFINE b == Splice(ls, chosen)
<1>1. PlainFences(ls)
  BY DEF Kept
<1>2. PlainFences(b)
  BY <1>1, PlainWoven
<1>3. Mild(WordReader(Titles), Writings) /\ Unsaid \in Writings /\ Outside(Unsaid)
  BY MildReaders, WordReads
<1>4. Mild(SectionReader, Outlines) /\ NoOutline \in Outlines /\ Outside(NoOutline)
  BY MildReaders, SectionReads
<1>5. Mild(TitleReader, Titlings) /\ NoTitle \in Titlings /\ Outside(NoTitle)
  BY MildReaders, TitleReads
<1>6. Word(b) = Word(ls)
  BY <1>1, <1>3, FedSplice DEF Word
<1>7. Outline(b) = Outline(ls)
  BY <1>1, <1>4, FedSplice DEF Outline
<1>8. Titling(b) = Titling(ls)
  BY <1>1, <1>5, FedSplice DEF Titling
<1> HIDE DEF b
<1> QED BY <1>2, <1>6, <1>7, <1>8 DEF Kept, Young, b

LEMMA KeptWritten ==
  ASSUME placed \in Seq(NoteLine), Plainly, NEW b \in Seq(NoteLine), Kept(b),
         held.fm # NoFrontmatter
  PROVE  /\ Kept(Normalise(Candidate(b)))
         /\ Young(b) => Young(Normalise(Candidate(b)))
<1> DEFINE c == Normalise(Candidate(b))
<1>1. PlainFences(b) /\ Outside(Word(b)) /\ Outside(Outline(b)) /\ Outside(Titling(b))
  BY KeptReads
<1>2. PlainFences(c)
  BY <1>1, PlainWritten
<1>3. Mild(WordReader(Titles), Writings) /\ Unsaid \in Writings /\ Outside(Unsaid)
  BY MildReaders, WordReads
<1>4. Mild(SectionReader, Outlines) /\ NoOutline \in Outlines /\ Outside(NoOutline)
  BY MildReaders, SectionReads
<1>5. Mild(TitleReader, Titlings) /\ NoTitle \in Titlings /\ Outside(NoTitle)
  BY MildReaders, TitleReads
<1>6. Word(c) = Word(b)
  BY <1>1, <1>3, FedWritten DEF Word
<1>7. Outline(c) = Outline(b)
  BY <1>1, <1>4, FedWritten DEF Outline
<1>8. Titling(c) = Titling(b)
  BY <1>1, <1>5, FedWritten DEF Titling
<1> HIDE DEF c
<1> QED BY <1>2, <1>6, <1>7, <1>8 DEF Kept, Young, c

LEMMA KeptSaved ==
  ASSUME placed \in Seq(NoteLine), Plainly, NEW ls \in Seq(NoteLine), Kept(ls),
         NEW m \in Range(Mine), m \in Text,
         NEW b \in {ls \o <<Blank, Para(m)>>, <<Para(m), Blank>> \o ls}
  PROVE  Kept(b) /\ (Young(ls) => Young(b))
<1>1. PlainFences(ls) /\ Outside(Word(ls)) /\ Outside(Outline(ls)) /\ Outside(Titling(ls))
  BY KeptReads
<1>2. PlainFences(b)
  BY <1>1, PlainSaved
<1>3. Mild(WordReader(Titles), Writings) /\ Unsaid \in Writings /\ Outside(Unsaid)
  BY MildReaders, WordReads
<1>4. Mild(SectionReader, Outlines) /\ NoOutline \in Outlines /\ Outside(NoOutline)
  BY MildReaders, SectionReads
<1>5. Mild(TitleReader, Titlings) /\ NoTitle \in Titlings /\ Outside(NoTitle)
  BY MildReaders, TitleReads
<1>6. ASSUME NEW S, NEW d, Mild(d, S), NEW s \in S, Outside(s), Outside(Fed(d, s, ls))
      PROVE  Fed(d, s, b) = Fed(d, s, ls)
  <2>1. Adds(b, ls, m)
    BY DEF Adds
  <2> QED BY <1>6, <2>1, FedSaved
<1>7. Word(b) = Word(ls)
  BY <1>1, <1>3, <1>6 DEF Word
<1>8. Outline(b) = Outline(ls)
  BY <1>1, <1>4, <1>6 DEF Outline
<1>9. Titling(b) = Titling(ls)
  BY <1>1, <1>5, <1>6 DEF Titling
<1> QED BY <1>2, <1>7, <1>8, <1>9 DEF Kept, Young

\* The formatter goes by the sections assembly made.
LEMMA KeptFormatted ==
  ASSUME SafeIsSafe, placed \in Seq(NoteLine), Plainly, Titling(placed).first = "prose",
         NEW ls \in Seq(NoteLine), Fit(ls), Untabled(ls), Kept(ls), Young(ls)
  PROVE  Kept(ApplyStructure(ls))
<1>1. PlainFences(ls) /\ PlainFences(placed)
  BY DEF Kept, Plainly
<1>2. Titles = {LinkSafe(t) : t \in Outline(placed).secs}
  <2>1. Outline(placed).secs = {placed[i].text : i \in SectionsOf(placed, HeadsOf(placed))}
    BY SectionsRead DEF Outline
  <2>2. SectionLines(placed) = SectionsOf(placed, HeadsOf(placed))
    <3>1. Prose(placed, Loose) = Prose(placed, Strict)
      BY <1>1, ProseAgree
    <3> QED BY <3>1 DEF SectionLines, Heads, SectionsOf, HeadsOf
  <2> DEFINE I == SectionsOf(placed, HeadsOf(placed))
  <2>3. Titles = {LinkSafe(placed[i].text) : i \in I}
    BY <2>2 DEF Titles
  <2> HIDE DEF I
  <2>4. {LinkSafe(placed[i].text) : i \in I} = {LinkSafe(t) : t \in {placed[i].text : i \in I}}
    OBVIOUS
  <2> QED BY <2>1, <2>3, <2>4 DEF I
<1>3. {LinkSafe(t) : t \in Fed(SectionReader, NoOutline, ls).secs} \subseteq Titles
  BY <1>2 DEF Young, Outline
<1>4. Fed(TitleReader, NoTitle, ls).first = "prose"
  BY DEF Young, Titling
<1>5. Word(ApplyStructure(ls)) = Word(ls)
  BY <1>3, <1>4, FedStructure DEF Word
<1>6. PlainFences(ApplyStructure(ls))
  BY <1>1, PlainFormatted
<1> QED BY <1>5, <1>6 DEF Kept

LEMMA KeptConnected ==
  ASSUME LastIsLast, placed \in Seq(NoteLine), Plainly, NEW ls \in Seq(NoteLine),
         NEW related \in Seq(Text), NEW b, Apart(ls), Kept(ls),
         b = AppendRelated(LinkMentions(StripRelated(ls), Resolved(Entities, Names)), related)
  PROVE  Kept(b)
<1>1. PlainFences(ls) /\ Outside(Word(ls))
  BY KeptReads
<1>2. PlainFences(b) /\ Word(b) = Word(ls)
  BY <1>1, FedConnect DEF Word
<1> QED BY <1>2 DEF Kept

\* A step that leaves what assembly wrote.
LEMMA TextNext ==
  ASSUME placed' = placed, ~bared' => ~bared,
         Plainly /\ ~bared =>
           /\ Titling(placed).first = "prose"
           /\ Kept(note'.body)
           /\ phase' = "hold" => Kept(held'.body)
           /\ phase' = "write" => Kept(made'.body)
           /\ stage' \in {"transitions", "tags", "formatting"} => Young(note'.body)
           /\ stage' \in {"transitions", "formatting"} /\ phase' = "hold" => Young(held'.body)
           /\ stage' = "transitions" /\ phase' = "write" => Young(made'.body)
  PROVE  TextInv'
<1>1. Plainly' = Plainly
  <2>1. Clashes' = Clashes
    BY DEF Clashes
  <2> QED BY <2>1 DEF Plainly
<1>2. Titles' = Titles
  BY DEF Titles
<1>3. Titling(placed)' = Titling(placed)
  BY DEF Titling
<1>4. ASSUME Plainly, ~bared' PROVE Kept(note.body)' /\ (phase' = "hold" => Kept(held.body)')
                                     /\ (phase' = "write" => Kept(made.body)')
  BY <1>2, <1>4 DEF Kept, Word
<1>5. ASSUME Plainly, ~bared'
      PROVE  /\ stage' \in {"transitions", "tags", "formatting"} => Young(note.body)'
             /\ stage' \in {"transitions", "formatting"} /\ phase' = "hold" => Young(held.body)'
             /\ stage' = "transitions" /\ phase' = "write" => Young(made.body)'
  BY <1>5 DEF Young, Outline, Titling
<1> QED BY <1>1, <1>3, <1>4, <1>5 DEF TextInv

LEMMA WorkText ==
  ASSUME Others, TextInv, NEW b, Worked(b), FairText(b)
  PROVE  TextInv'
<1>1. /\ phase = "hold" /\ b \in Seq(NoteLine) /\ placed \in Seq(NoteLine)
      /\ Go(After(stage)) \/ Writes(b)
      /\ placed' = placed /\ note' = note /\ bared' = bared
      /\ stage \in {"transitions", "formatting", "linking"}
  BY DEF Worked, Others, Phases, user
<1>2. SUFFICES ASSUME Plainly, ~bared
               PROVE  /\ Titling(placed).first = "prose"
                      /\ Kept(note.body)
                      /\ phase' = "hold" => Kept(held'.body)
                      /\ phase' = "write" => Kept(made'.body)
                      /\ stage' \in {"transitions", "tags", "formatting"} => Young(note.body)
                      /\ stage' \in {"transitions", "formatting"} /\ phase' = "hold"
                           => Young(held'.body)
                      /\ stage' = "transitions" /\ phase' = "write" => Young(made'.body)
  BY <1>1, TextNext
<1>3. /\ Titling(placed).first = "prose" /\ Kept(note.body)
      /\ stage \in {"transitions", "tags", "formatting"} => Young(note.body)
  BY <1>2 DEF TextInv
<1>4. Kept(b) /\ (stage = "transitions" => Young(b))
  BY <1>2 DEF FairText
<1>5. CASE Go(After(stage))
  BY <1>1, <1>3, <1>5, Afters DEF Go
<1>6. CASE Writes(b)
  <2>1. held.fm # NoFrontmatter
    BY <1>1, <1>2, FmTypes DEF Others, Fielded
  <2>2. /\ Kept(Normalise(Candidate(b)))
        /\ Young(b) => Young(Normalise(Candidate(b)))
    BY <1>1, <1>2, <1>4, <2>1, KeptWritten
  <2>3. stage' = stage /\ phase' = "write" /\ made'.body = Normalise(Candidate(b))
    BY <1>6 DEF Writes
  <2> QED BY <1>1, <1>3, <1>4, <2>2, <2>3
<1> QED BY <1>1, <1>5, <1>6

LEMMA WeaveText ==
  ASSUME Others, TextInv, Weave
  PROVE  TextInv'
<1>1. /\ Phases /\ stage = "transitions" /\ phase = "hold"
      /\ UNCHANGED <<placed, note, user>> /\ linked' = linked /\ linked \subseteq Names
  BY DEF Others, Weave, Phases, TypeOK
<1>2. held.body \in Seq(NoteLine)
  BY <1>1, HeldNote
<1>3. Plainly /\ ~bared => Kept(held.body) /\ Young(held.body)
  BY <1>1 DEF TextInv
<1>4. PICK sections : SpliceAccepted(sections)
  BY DEF Weave
<1>5. CASE sections = {}
  <2>1. Go(After(stage))
    BY <1>1, <1>4, <1>5, Afters DEF SpliceAccepted
  <2>2. Worked(held.body)
    BY <1>1, <1>2, <2>1 DEF Worked
  <2>3. FairText(held.body)
    BY <1>3 DEF FairText
  <2> QED BY <2>2, <2>3, WorkText
<1>6. CASE sections # {}
  <2> DEFINE b == Splice(held.body, sections)
  <2>1. WriteBack(b)
    BY <1>4, <1>6 DEF SpliceAccepted
  <2>2. /\ b \in Seq(NoteLine)
        /\ Kept(held.body) => Kept(b) /\ (Young(held.body) => Young(b))
    BY <1>2, WovenText, KeptWoven
  <2> HIDE DEF b
  <2>3. Worked(b)
    BY <1>1, <2>1, <2>2, WriteBackWrites DEF Worked
  <2>4. FairText(b)
    BY <1>3, <2>2 DEF FairText
  <2> QED BY <2>3, <2>4, WorkText
<1> QED BY <1>5, <1>6

LEMMA FormatText ==
  ASSUME SafeIsSafe, Others, TocInv, TextInv, Format
  PROVE  TextInv'
<1>1. /\ Phases /\ stage = "formatting" /\ phase = "hold" /\ placed \in Seq(NoteLine)
      /\ UNCHANGED <<placed, note, user>> /\ linked' = linked /\ linked \subseteq Names
  BY DEF Others, Format, Phases, TypeOK
<1>2. held.body \in Seq(NoteLine)
  BY <1>1, HeldNote
<1>3. Plainly /\ ~bared =>
        /\ Kept(held.body) /\ Young(held.body) /\ Titling(placed).first = "prose"
        /\ Fit(held.body) /\ Untabled(held.body)
  BY <1>1 DEF TextInv, TocInv, Others, Headed, Plainly
<1> DEFINE b == ApplyStructure(held.body)
<1>4. CASE b = held.body
  <2>1. Go(After(stage))
    BY <1>1, <1>4, Afters DEF Format
  <2>2. Worked(held.body)
    BY <1>1, <1>2, <2>1 DEF Worked
  <2>3. FairText(held.body)
    BY <1>3 DEF FairText
  <2> QED BY <2>2, <2>3, WorkText
<1>5. CASE b # held.body
  <2>1. WriteBack(b)
    BY <1>5 DEF Format
  <2>2. b \in Seq(NoteLine)
    BY <1>2, FormattedText
  <2>3. Plainly /\ ~bared => Kept(b)
    BY <1>1, <1>2, <1>3, KeptFormatted
  <2> HIDE DEF b
  <2>4. Worked(b)
    BY <1>1, <2>1, <2>2, WriteBackWrites DEF Worked
  <2>5. FairText(b)
    BY <1>1, <2>3 DEF FairText
  <2> QED BY <2>4, <2>5, WorkText
<1> QED BY <1>4, <1>5

LEMMA ConnectKeeps ==
  ASSUME LastIsLast, Others, TextInv, Connect
  PROVE  TextInv'
<1> DEFINE bare == StripRelated(held.body)
           body == LinkMentions(bare, Resolved(Entities, Names))
           fresh == {n \in Names : Link(n) \in Range(body) \ Range(bare)}
<1>1. /\ Phases /\ stage = "linking" /\ phase = "hold" /\ placed \in Seq(NoteLine)
      /\ UNCHANGED <<placed, note, user>> /\ linked \subseteq Names
  BY DEF Others, Connect, Phases, TypeOK
<1>2. held.body \in Seq(NoteLine)
  BY <1>1, HeldNote
<1>3. Plainly /\ ~bared => Apart(held.body) /\ Kept(held.body)
  BY <1>1 DEF TextInv, Others, Headed, Plainly
<1>4. PICK related \in Related :
        IF fresh = {} /\ Rendered(related) = <<>>
        THEN Go("done") /\ UNCHANGED linked
        ELSE /\ WriteBack(AppendRelated(body, related))
             /\ linked' = IF phase' = "write" THEN fresh ELSE {}
  BY DEF Connect
<1>5. related \in Seq(Text)
  BY NoteEditsAssumption
<1>6. CASE fresh = {} /\ Rendered(related) = <<>>
  <2>1. Go(After(stage)) /\ linked' = linked
    BY <1>1, <1>4, <1>6, Afters
  <2>2. Worked(held.body)
    BY <1>1, <1>2, <2>1 DEF Worked
  <2>3. FairText(held.body)
    BY <1>1, <1>3 DEF FairText
  <2> QED BY <2>2, <2>3, WorkText
<1>7. CASE ~(fresh = {} /\ Rendered(related) = <<>>)
  <2> DEFINE b == AppendRelated(body, related)
  <2>1. WriteBack(b) /\ linked' = IF phase' = "write" THEN fresh ELSE {}
    BY <1>4, <1>7
  <2>2. linked' \subseteq Names
    BY <2>1
  <2>3. b = AppendRelated(LinkMentions(StripRelated(held.body), Resolved(Entities, Names)), related)
    OBVIOUS
  <2> HIDE DEF b, body, bare, fresh
  <2>4. b \in Seq(NoteLine)
    BY <1>2, <1>5, <2>3, ConnectedText
  <2>5. Plainly /\ ~bared => Kept(b)
    BY <1>1, <1>2, <1>3, <1>5, <2>3, KeptConnected
  <2>6. Worked(b)
    BY <1>1, <2>1, <2>2, <2>4, WriteBackWrites DEF Worked
  <2>7. FairText(b)
    BY <1>1, <2>5 DEF FairText
  <2> QED BY <2>6, <2>7, WorkText
<1> QED BY <1>6, <1>7

LEMMA StepText ==
  ASSUME SafeIsSafe, LastIsLast, IInv, TocInv, TextInv, [Next]_vars
  PROVE  TextInv'
<1>0. Others /\ placed \in Seq(NoteLine)
  BY DEF IInv, Others, Phases
<1>1. Plainly /\ ~bared =>
        /\ Titling(placed).first = "prose"
        /\ Kept(note.body)
        /\ phase = "hold" => Kept(held.body)
        /\ phase = "write" => Kept(made.body)
        /\ stage \in {"transitions", "tags", "formatting"} => Young(note.body)
        /\ stage \in {"transitions", "formatting"} /\ phase = "hold" => Young(held.body)
        /\ stage = "transitions" /\ phase = "write" => Young(made.body)
  BY DEF TextInv
<1>2. CASE Read
  <2>1. /\ stage \in {"transitions", "formatting", "linking"} /\ phase = "read"
        /\ held' = note /\ phase' = "hold"
        /\ UNCHANGED <<placed, note, stage, made, linked, edits, saved, bared>>
    BY <1>2 DEF Read, user
  <2> QED BY <1>1, <2>1, TextNext
<1>3. CASE Weave
  BY <1>0, <1>3, WeaveText
<1>4. CASE WriteTags
  <2>1. PICK tags \in {"[]", "some"} : note' = [note EXCEPT !.fm = Tagged(note.fm, tags)]
    BY <1>4 DEF WriteTags
  <2>2. /\ stage = "tags" /\ stage' = "formatting" /\ phase' = "read"
        /\ UNCHANGED <<placed, bared>>
    BY <1>4 DEF WriteTags, Go, user
  <2>3. note'.body = note.body
    <3>1. \A x : [note EXCEPT !.fm = x].body = note.body
      BY <1>0 DEF Others, Phases, Note
    <3> QED BY <2>1, <3>1
  <2> QED BY <1>1, <2>2, <2>3, TextNext
<1>5. CASE Format
  BY <1>0, <1>5, FormatText
<1>6. CASE Connect
  BY <1>0, <1>6, ConnectKeeps
<1>7. CASE Place
  <2>1. /\ phase = "write" /\ note' = made /\ stage' = After(stage) /\ phase' = "read"
        /\ UNCHANGED <<placed, bared>>
    BY <1>7 DEF Place, Go, user
  <2>2. stage \in {"transitions", "formatting", "linking"}
    BY <1>0, <2>1 DEF Others, Phases
  <2> QED BY <1>1, <2>1, <2>2, Afters, TextNext
<1>8. CASE AddBelow \/ AddAbove
  <2> DEFINE m == Mine[edits + 1]
             below == note.body \o <<Blank, Para(m)>>
             above == <<Para(m), Blank>> \o note.body
  <2>1. PICK b \in {below, above} :
          /\ CanSave /\ note' = [note EXCEPT !.body = b]
          /\ UNCHANGED <<placed, stage, phase, held, made, bared>>
    BY <1>8 DEF AddBelow, AddAbove, Save, run
  <2>2. m \in Text /\ m \in Range(Mine)
    <3>1. edits \in 0 .. MaxEdits /\ edits < MaxEdits
      BY <1>0, <2>1 DEF Others, Phases, TypeOK, CanSave
    <3>2. MaxEdits \in 0 .. Len(Mine) /\ Mine \in Seq(Text) /\ Len(Mine) \in Nat
      BY NoteEditsAssumption
    <3>3. edits + 1 \in 1 .. Len(Mine)
      BY <3>1, <3>2
    <3> QED BY <3>2, <3>3 DEF Range
  <2>3. note \in Note /\ note.body \in Seq(NoteLine)
    BY <1>0, NoteParts DEF Others, Phases
  <2> HIDE DEF m
  <2>4. b \in Seq(NoteLine)
    BY <2>2, <2>3, SavedText
  <2>5. ASSUME Plainly, ~bared PROVE Kept(b) /\ (Young(note.body) => Young(b))
    <3>1. Kept(note.body)
      BY <1>1, <2>5
    <3> QED BY <1>0, <2>2, <2>3, <2>5, <3>1, KeptSaved
  <2> HIDE DEF below, above
  <2>6. note'.body = b
    BY <2>1, <2>3, <2>4, NoteParts
  <2> QED BY <1>1, <2>1, <2>5, <2>6, TextNext
<1>9. CASE AddField \/ DropFrontmatter
  <2>1. UNCHANGED <<placed, stage, phase, held, made>> /\ (~bared' => ~bared)
    BY <1>9 DEF AddField, DropFrontmatter, run
  <2>2. note'.body = note.body
    <3>1. \A x \in Note : \A fm : [x EXCEPT !.fm = fm].body = x.body
      BY DEF Note
    <3>2. \E fm : note' = [note EXCEPT !.fm = fm]
      <4>1. CASE AddField
        <5>1. note' = [note EXCEPT !.fm.own = TRUE]
          BY <4>1 DEF AddField
        <5>2. note' = [note EXCEPT !.fm = [note.fm EXCEPT !.own = TRUE]]
          BY <5>1
        <5> QED BY <5>2
      <4>2. CASE DropFrontmatter
        BY <4>2 DEF DropFrontmatter
      <4> QED BY <1>9, <4>1, <4>2
    <3> QED BY <1>0, <3>1, <3>2 DEF Others, Phases
  <2> QED BY <1>1, <2>1, <2>2, TextNext
<1>10. CASE UNCHANGED vars
  <2>1. UNCHANGED <<placed, note, stage, phase, held, made, bared>>
    BY <1>10 DEF vars, run, user
  <2> QED BY <1>1, <2>1, TextNext
<1> QED BY <1>2, <1>3, <1>4, <1>5, <1>6, <1>7, <1>8, <1>9, <1>10 DEF Next, Stage, User

\* Until the note loses its frontmatter it says what assembly wrote, in its order and
\* code to the letter (TransitionStage, FormatterStage, LinkingStage, _write_back): no
\* stage, whatever the model answers and the user saves meanwhile, loses or moves a
\* line of the text.
THEOREM TextStays ==
  PlainChunks /\ SafeIsSafe /\ LastIsLast => (Spec => [](Closes(placed) => TextKept))
<1> SUFFICES ASSUME PlainChunks, SafeIsSafe, LastIsLast
             PROVE  Spec => [](Closes(placed) => TextKept)
  OBVIOUS
<1>1. Init => TocInv
  BY InitToc
<1>2. Init => TextInv
  <2> SUFFICES ASSUME Init PROVE TextInv
    OBVIOUS
  <2>1. /\ phase = "read"
        /\ note = [fm |-> [tags |-> "[]", own |-> FALSE], body |-> placed]
    BY DEF Init
  <2>2. note.body = placed
    BY <2>1
  <2>3. Titling(placed).first = "prose"
    BY PlacedTitle DEF Init
  <2> QED BY <2>1, <2>2, <2>3 DEF TextInv, Plainly, Kept, Young
<1>3. IInv /\ TocInv /\ [Next]_vars => TocInv'
  BY StepToc
<1>4. IInv /\ TocInv /\ TextInv /\ [Next]_vars => TextInv'
  BY StepText
<1>5. IInv /\ TextInv => (Closes(placed) => TextKept)
  <2> SUFFICES ASSUME IInv, TextInv, Closes(placed), PlainFences(placed), ~Clashes, ~bared
               PROVE  Words(note.body, Titles) = Words(placed, Titles)
    BY DEF TextKept
  <2>1. Word(note.body) = Word(placed)
    BY DEF TextInv, Plainly, Kept
  <2>2. note.body \in Seq(NoteLine) /\ placed \in Seq(NoteLine)
    BY NoteParts DEF IInv, Phases
  <2>3. /\ Words(note.body, Titles) = Word(note.body).out
        /\ Words(placed, Titles) = Word(placed).out
    BY <2>2, WordsRead DEF Word
  <2> QED BY <2>1, <2>3
<1> QED BY <1>1, <1>2, <1>3, <1>4, <1>5, Invariant, PTL DEF Spec

-----------------------------------------------------------------------------
(* Transitions in their place.                                             *)

LEMMA PlaceReads ==
  ASSUME NEW w
  PROVE  /\ Reader(PlaceReader(w), Watches) /\ Unplaced \in Watches
         /\ Outside(Unplaced) /\ ~Stray(Unplaced) /\ Unplaced.at = "away" /\ Unplaced.mark = 0
         /\ \A s \in Watches, l \in NoteLine :
              LET t == PlaceReader(w)[<<s, l>>]
              IN  /\ t \in Watches /\ t.open = Opened(s.open, l, Strict)
                  /\ t.at = Stands(w, s, l) /\ t.mark = Marks(w, s, l)
<1> DEFINE d == PlaceReader(w)
           To(s, l) == [open |-> Opened(s.open, l, Strict),
                        at |-> Stands(w, s, l), mark |-> Marks(w, s, l)]
<1>1. ASSUME NEW s \in Watches, NEW l \in NoteLine
      PROVE  To(s, l) \in Watches /\ d[<<s, l>>] = To(s, l)
  <2>1. s.open \in Text /\ s.mark \in Nat /\ l.num \in Nat
    BY DEF Watches, NoteLine
  <2>2. Opened(s.open, l, Strict) \in Text
    BY <2>1, OpenedType
  <2>3. Marks(w, s, l) \in Nat
    BY <2>1 DEF Marks
  <2>4. Stands(w, s, l) \in {"away", "head", "below", "lost"}
    BY DEF Stands
  <2>5. To(s, l) \in Watches
    BY <2>2, <2>3, <2>4 DEF Watches
  <2>6. d[<<s, l>>] = To(s, l)
    BY DEF PlaceReader
  <2> QED BY <2>5, <2>6
<1>2. d = [p \in Watches \X NoteLine |-> To(p[1], p[2])]
  BY DEF PlaceReader
<1>3. \A s, l : /\ To(s, l).open = Opened(s.open, l, Strict)
                /\ To(s, l).at = Stands(w, s, l) /\ To(s, l).mark = Marks(w, s, l)
  OBVIOUS
<1> HIDE DEF d, To
<1>4. d \in [Watches \X NoteLine -> Watches]
  BY <1>1, <1>2
<1>5. /\ Unplaced \in Watches /\ Outside(Unplaced) /\ ~Stray(Unplaced)
      /\ Unplaced.at = "away" /\ Unplaced.mark = 0
  <2>1. "" \in Text
    BY TextAssumption
  <2>2. Unplaced \in Watches
    BY <2>1 DEF Unplaced, Watches
  <2> QED BY <2>2 DEF Unplaced, Outside, Stray
<1>6. \A s \in Watches : s.open \in Text
  BY DEF Watches
<1>7. ASSUME NEW s \in Watches, NEW l \in NoteLine
      PROVE  /\ d[<<s, l>>] \in Watches /\ d[<<s, l>>].open = Opened(s.open, l, Strict)
             /\ d[<<s, l>>].at = Stands(w, s, l) /\ d[<<s, l>>].mark = Marks(w, s, l)
  <2>1. d[<<s, l>>] = To(s, l) /\ To(s, l) \in Watches
    BY <1>1
  <2> QED BY <1>3, <2>1, Zenon
<1>8. Reader(d, Watches)
  BY <1>4, <1>6, <1>7 DEF Reader
<1> QED BY <1>5, <1>7, <1>8 DEF d

\* Two states of the reader with the same fields.
LEMMA WatchesEqual ==
  ASSUME NEW a \in Watches, NEW b \in Watches, a.open = b.open, a.at = b.at, a.mark = b.mark
  PROVE  a = b
BY DEF Watches

\* A line that is no transition leaves nobody lost; one that is no heading and no
\* fence changes nothing but where the reader stands, and nothing at all away
\* from the headings.
LEMMA PlaceLine ==
  ASSUME NEW w, NEW s \in Watches, NEW l \in NoteLine, l.kind # "trans"
  PROVE  LET t == PlaceReader(w)[<<s, l>>]
         IN  /\ t \in Watches /\ (Stray(t) <=> Stray(s))
             /\ l.kind \notin {"head", "fence"} => /\ t.open = s.open /\ t.mark = s.mark
                                                   /\ s.at = "away" => t = s
<1> DEFINE t == PlaceReader(w)[<<s, l>>]
<1>1. /\ t \in Watches /\ t.open = Opened(s.open, l, Strict)
      /\ t.at = Stands(w, s, l) /\ t.mark = Marks(w, s, l)
  BY PlaceReads
<1>2. Stray(t) <=> Stray(s)
  BY <1>1 DEF Stray, Stands
<1>3. ASSUME l.kind \notin {"head", "fence"}
      PROVE  /\ t.open = s.open /\ t.mark = s.mark
             /\ s.at = "away" => t.at = "away"
  <2>1. l.kind \notin Strict
    BY <1>3 DEF Strict
  <2>2. ~Opens(w, s, l)
    BY <1>3 DEF Opens
  <2>3. s.at = "away" => Stands(w, s, l) = "away"
    BY <2>2 DEF Stands
  <2>4. Opened(s.open, l, Strict) = s.open
    BY <2>1 DEF Opened
  <2> QED BY <1>1, <2>2, <2>3, <2>4 DEF Marks
<1> HIDE DEF t
<1>4. ASSUME l.kind \notin {"head", "fence"}, s.at = "away" PROVE t = s
  BY <1>1, <1>3, <1>4, WatchesEqual
<1> QED BY <1>1, <1>2, <1>3, <1>4 DEF t

LEMMA FedCalm ==
  ASSUME NEW w, NEW s \in Watches, NEW ls \in Seq(NoteLine),
         \A i \in 1 .. Len(ls) : ls[i].kind # "trans"
  PROVE  LET t == Fed(PlaceReader(w), s, ls)
         IN  /\ t \in Watches /\ (Stray(t) <=> Stray(s))
             /\ (\A i \in 1 .. Len(ls) : ls[i].kind \notin {"head", "fence"})
                  => /\ t.open = s.open /\ t.mark = s.mark
                     /\ s.at = "away" => t = s
<1> DEFINE n == Len(ls)
           d == PlaceReader(w)
           calm == \A i \in 1 .. Len(ls) : ls[i].kind \notin {"head", "fence"}
           Ok(t) == /\ t \in Watches /\ (Stray(t) <=> Stray(s))
                    /\ calm => /\ t.open = s.open /\ t.mark = s.mark
                               /\ s.at = "away" => t = s
           T == {i \in 0 .. n : Ok(Seen(d, s, ls, i))}
<1>0. n \in Nat /\ Reader(d, Watches)
  BY Whole, PlaceReads
<1> HIDE DEF d
<1>1. 0 \in T
  <2>1. Seen(d, s, ls, 0) = s
    BY <1>0, SeenStep
  <2> QED BY <1>0, <2>1
<1>2. ASSUME NEW i \in 1 .. n, i - 1 \in T PROVE i \in T
  <2>1. /\ Seen(d, s, ls, i - 1) \in Watches /\ ls[i] \in NoteLine
        /\ Seen(d, s, ls, i) = d[<<Seen(d, s, ls, i - 1), ls[i]>>]
    BY <1>0, SeenStep
  <2> DEFINE p == Seen(d, s, ls, i - 1)
             q == Seen(d, s, ls, i)
  <2>2. Ok(p)
    BY <1>2
  <2>3. ls[i].kind # "trans" /\ (calm => ls[i].kind \notin {"head", "fence"})
    BY <1>0
  <2> HIDE DEF p, q
  <2>4. /\ q \in Watches /\ (Stray(q) <=> Stray(p))
        /\ ls[i].kind \notin {"head", "fence"} => /\ q.open = p.open /\ q.mark = p.mark
                                                  /\ p.at = "away" => q = p
    BY <2>1, <2>3, PlaceLine DEF d, p, q
  <2> HIDE DEF calm
  <2>5. Ok(q)
    BY <2>2, <2>3, <2>4
  <2> QED BY <1>0, <2>5 DEF q
<1> HIDE DEF T
<1>3. n \in T
  <2>1. \A i \in 1 .. n : i - 1 \in T => i \in T
    BY <1>2
  <2> QED BY <1>0, <1>1, <2>1, UpTo, Zenon
<1>4. Seen(d, s, ls, n) = Fed(d, s, ls)
  BY <1>0, SeenStep
<1> QED BY <1>3, <1>4 DEF T, d

\* Lines below the text, of whatever kind but transitions; and lines above it that are
\* neither headings nor fences.
LEMMA PlaceBelow ==
  ASSUME NEW w, NEW a \in Seq(NoteLine), NEW b \in Seq(NoteLine),
         \A i \in 1 .. Len(b) : b[i].kind # "trans"
  PROVE  /\ a \o b \in Seq(NoteLine)
         /\ Stray(Fed(PlaceReader(w), Unplaced, a \o b)) <=> Stray(Fed(PlaceReader(w), Unplaced, a))
<1>1. Reader(PlaceReader(w), Watches) /\ Unplaced \in Watches
  BY PlaceReads
<1>2. /\ a \o b \in Seq(NoteLine) /\ Fed(PlaceReader(w), Unplaced, a) \in Watches
      /\ Fed(PlaceReader(w), Unplaced, a \o b) = Fed(PlaceReader(w), Fed(PlaceReader(w), Unplaced, a), b)
  BY <1>1, FedConcat
<1>3. \A s \in Watches : Stray(Fed(PlaceReader(w), s, b)) <=> Stray(s)
  BY FedCalm
<1> QED BY <1>2, <1>3, Zenon

LEMMA PlaceAbove ==
  ASSUME NEW w, NEW a \in Seq(NoteLine), NEW b \in Seq(NoteLine),
         \A i \in 1 .. Len(b) : b[i].kind \notin {"trans", "head", "fence"}
  PROVE  Fed(PlaceReader(w), Unplaced, b \o a) = Fed(PlaceReader(w), Unplaced, a)
<1>1. Reader(PlaceReader(w), Watches) /\ Unplaced \in Watches /\ Unplaced.at = "away"
  BY PlaceReads
<1>2. Fed(PlaceReader(w), Unplaced, b \o a) = Fed(PlaceReader(w), Fed(PlaceReader(w), Unplaced, b), a)
  BY <1>1, FedConcat
<1>3. /\ \A i \in 1 .. Len(b) : b[i].kind # "trans"
      /\ \A i \in 1 .. Len(b) : b[i].kind \notin {"head", "fence"}
  OBVIOUS
<1>4. Fed(PlaceReader(w), Unplaced, b) = Unplaced
  BY <1>1, <1>3, FedCalm
<1> QED BY <1>2, <1>4, Zenon

LEMMA PlaceTrimEnd ==
  ASSUME NEW w, NEW ls \in Seq(NoteLine)
  PROVE  /\ TrimEnd(ls) \in Seq(NoteLine)
         /\ Stray(Fed(PlaceReader(w), Unplaced, TrimEnd(ls))) <=> Stray(Fed(PlaceReader(w), Unplaced, ls))
<1>1. PICK rest \in Seq(NoteLine) :
        ls = TrimEnd(ls) \o rest /\ \A i \in 1 .. Len(rest) : rest[i] = Blank
  BY TrimEndRest
<1>2. PICK cut \in Seq(NoteLine) : cut = TrimEnd(ls)
  BY TrimEndCount
<1>3. \A i \in 1 .. Len(rest) : rest[i].kind # "trans"
  BY <1>1, LineKinds
<1>4. Stray(Fed(PlaceReader(w), Unplaced, cut \o rest)) <=> Stray(Fed(PlaceReader(w), Unplaced, cut))
  BY <1>3, PlaceBelow
<1>5. ls = cut \o rest
  BY <1>1, <1>2
<1> QED BY <1>2, <1>4, <1>5, Zenon

LEMMA FedGap ==
  ASSUME NEW w, NEW s \in Watches, NEW gap \in Gaps
  PROVE  LET t == Fed(PlaceReader(w), s, gap)
         IN  /\ gap \in Seq(NoteLine) /\ t \in Watches
             /\ (Stray(t) <=> Stray(s)) /\ t.open = s.open /\ t.mark = s.mark
<1>1. \A i \in 1 .. Len(gap) : gap[i] \in {Blank, Rule}
  BY DEF Gaps
<1>2. gap \in Seq(NoteLine)
  <2>1. {Blank, Rule} \subseteq NoteLine
    BY LineTypes
  <2> QED BY <2>1, SeqMonotonic DEF Gaps
<1>3. \A i \in 1 .. Len(gap) : gap[i].kind # "trans" /\ gap[i].kind \notin {"head", "fence"}
  BY <1>1, LineKinds
<1>4. /\ \A i \in 1 .. Len(gap) : gap[i].kind # "trans"
      /\ \A i \in 1 .. Len(gap) : gap[i].kind \notin {"head", "fence"}
  BY <1>3
<1> QED BY <1>2, <1>4, FedCalm

LEMMA UptoGap ==
  ASSUME NEW a \in Reading, NEW l \in NoteLine
  PROVE  /\ \A new \in {UptoFence(a, l), UptoHead(a, l), UptoText(a, l)} :
              \E gap \in Gaps : new = (a.out \o gap) \o <<l>>
         /\ a.headed => UptoText(a, l) = (a.out \o <<Blank>>) \o <<l>>
<1>0. /\ a.out \in Seq(NoteLine) /\ <<Blank>> \in Seq(NoteLine) /\ <<l>> \in Seq(NoteLine)
      /\ <<Blank>> \in Gaps
  BY LineTypes DEF Reading, Gaps
<1>1. \A c : Opt(c, Blank) \in Gaps /\ Opt(c, Rule) \in Gaps
  <2>1. <<Blank>> \in Gaps /\ <<Rule>> \in Gaps /\ <<>> \in Gaps
    BY DEF Gaps
  <2> QED BY <2>1, Zenon DEF Opt
<1>2. \A g \in Gaps : g \in Seq(NoteLine)
  <2>1. {Blank, Rule} \subseteq NoteLine
    BY LineTypes
  <2> QED BY <2>1, SeqMonotonic DEF Gaps
<1>3. ASSUME NEW g \in Gaps, NEW h \in Gaps
      PROVE  g \o h \in Gaps /\ a.out \o (g \o h) = (a.out \o g) \o h
  <2>1. g \o h \in Gaps
    BY ConcatProperties DEF Gaps
  <2>2. g \in Seq(NoteLine) /\ h \in Seq(NoteLine)
    BY <1>2
  <2>3. \A x \in Seq(NoteLine), y \in Seq(NoteLine), z \in Seq(NoteLine) :
          (x \o y) \o z = x \o (y \o z)
    BY ConcatAssociative
  <2>4. a.out \o (g \o h) = (a.out \o g) \o h
    BY <1>0, <2>2, <2>3, Zenon
  <2> QED BY <2>1, <2>4
<1>4. \E gap \in Gaps : UptoFence(a, l) = (a.out \o gap) \o <<l>>
  <2> DEFINE g == Opt(a.pending, Blank)
             h == Opt(a.ruled, Rule)
  <2>1. UptoFence(a, l) = ((a.out \o g) \o h) \o <<l>>
    BY DEF UptoFence
  <2>2. g \in Gaps /\ h \in Gaps
    BY <1>1
  <2> HIDE DEF g, h
  <2>3. g \o h \in Gaps /\ a.out \o (g \o h) = (a.out \o g) \o h
    BY <1>3, <2>2
  <2> QED BY <2>1, <2>3
<1>5. \E gap \in Gaps : UptoHead(a, l) = (a.out \o gap) \o <<l>>
  <2> DEFINE g == Opt(a.ruled /\ ~a.ruledAtHead /\ a.pending, Blank)
             mid == a.out \o g
             h == Opt(mid # <<>> /\ mid[Len(mid)] # Blank, Blank)
  <2>1. UptoHead(a, l) = (mid \o h) \o <<l>>
    BY DEF UptoHead
  <2>2. g \in Gaps /\ h \in Gaps
    BY <1>1
  <2> HIDE DEF g, h
  <2>3. g \o h \in Gaps /\ a.out \o (g \o h) = (a.out \o g) \o h
    BY <1>3, <2>2
  <2> QED BY <2>1, <2>3
<1>6. a.headed => UptoText(a, l) = (a.out \o <<Blank>>) \o <<l>>
  <2>1. <<Blank, l>> = <<Blank>> \o <<l>>
    OBVIOUS
  <2>2. a.out \o (<<Blank>> \o <<l>>) = (a.out \o <<Blank>>) \o <<l>>
    BY <1>0, ConcatAssociative
  <2> QED BY <2>1, <2>2 DEF UptoText
<1>7. \E gap \in Gaps : UptoText(a, l) = (a.out \o gap) \o <<l>>
  <2>1. ~a.headed => UptoText(a, l) = UptoFence(a, l)
    BY DEF UptoText
  <2> QED BY <1>0, <1>4, <1>6, <2>1
<1> QED BY <1>4, <1>5, <1>6, <1>7, Zenon

\* What normalise_markdown knows of the heading above.
LEMMA TakeHeads ==
  ASSUME NEW a \in Reading, NEW l \in NoteLine, NEW b, b = Take(a, l)
  PROVE  /\ b \in Reading
         /\ ~Outside(a) => b.out = Append(a.out, l) /\ b.open = Opened(a.open, l, Strict)
         /\ Outside(a) =>
              /\ l.kind \in Strict => b.out = UptoFence(a, l) /\ b.open = l.text
              /\ l.kind \notin Strict => b.open = a.open
              /\ l \in {Blank, Rule} => b.out = a.out
              /\ l = Blank => b.headed = a.headed
              /\ l.kind = "head" => b.out = UptoHead(a, l) /\ b.headed
              /\ l.kind \notin {"head", "fence"} /\ l \notin {Blank, Rule} => b.out = UptoText(a, l)
<1>0. /\ a.out \in Seq(NoteLine) /\ a.open \in Text /\ l.text \in Text
      /\ a.pending \in BOOLEAN /\ a.ruled \in BOOLEAN /\ a.headed \in BOOLEAN
      /\ a.ruledAtHead \in BOOLEAN
  BY DEF Reading, NoteLine
<1>1. Blank # Rule /\ Blank.kind = "blank" /\ Rule.kind = "rule"
  BY DEF Blank, Rule, Line
<1>2. (l.kind \in Strict <=> l.kind = "fence") /\ (Outside(a) <=> a.open = "")
  BY DEF Strict, Outside
<1>3. l \in {Blank, Rule} => l.kind \notin {"fence", "head"}
  BY <1>1
<1>4. b \in Reading
  BY TakeStep
<1>5. CASE a.open # ""
  <2>1. b = [a EXCEPT !.out = Append(@, l), !.open = Opened(@, l, Strict)]
    BY <1>5 DEF Take
  <2>2. \A x, y : /\ [a EXCEPT !.out = x, !.open = y].out = x
                  /\ [a EXCEPT !.out = x, !.open = y].open = y
    BY DEF Reading
  <2>3. b.out = Append(a.out, l) /\ b.open = Opened(a.open, l, Strict)
    BY <2>1, <2>2
  <2> QED BY <1>2, <1>4, <1>5, <2>3
<1>6. CASE a.open = "" /\ l.kind = "fence"
  <2>1. b = [a EXCEPT !.out = UptoFence(a, l), !.open = l.text,
                      !.pending = FALSE, !.ruled = FALSE, !.headed = FALSE]
    BY <1>2, <1>3, <1>6 DEF Take
  <2>2. b.out = UptoFence(a, l) /\ b.open = l.text
    BY <2>1 DEF Reading
  <2> QED BY <1>2, <1>3, <1>4, <1>6, <2>2
<1>7. CASE a.open = "" /\ l.kind # "fence" /\ l = Blank
  <2>1. b = [a EXCEPT !.pending = TRUE]
    BY <1>1, <1>2, <1>7 DEF Take
  <2>2. b.out = a.out /\ b.open = a.open /\ b.headed = a.headed
    BY <2>1 DEF Reading
  <2> QED BY <1>2, <1>3, <1>4, <1>7, <2>2
<1>8. CASE a.open = "" /\ l.kind # "fence" /\ l # Blank /\ l = Rule
  <2>1. b = [a EXCEPT !.ruledAtHead = IF a.ruled THEN @ ELSE a.headed,
                      !.ruled = TRUE, !.pending = FALSE]
    BY <1>1, <1>2, <1>8 DEF Take
  <2>2. b.out = a.out /\ b.open = a.open
    BY <2>1 DEF Reading
  <2> QED BY <1>2, <1>3, <1>4, <1>8, <2>2
<1>9. CASE a.open = "" /\ l.kind # "fence" /\ l # Blank /\ l # Rule /\ l.kind = "head"
  <2>1. b = [a EXCEPT !.out = UptoHead(a, l), !.headed = TRUE,
                      !.pending = FALSE, !.ruled = FALSE]
    BY <1>2, <1>9 DEF Take
  <2>2. b.out = UptoHead(a, l) /\ b.open = a.open /\ b.headed
    BY <2>1 DEF Reading
  <2> QED BY <1>2, <1>4, <1>9, <2>2
<1>10. CASE a.open = "" /\ l.kind # "fence" /\ l # Blank /\ l # Rule /\ l.kind # "head"
  <2>1. b = [a EXCEPT !.out = UptoText(a, l), !.headed = FALSE,
                      !.pending = FALSE, !.ruled = FALSE]
    BY <1>2, <1>10 DEF Take
  <2>2. b.out = UptoText(a, l) /\ b.open = a.open
    BY <2>1 DEF Reading
  <2> QED BY <1>2, <1>4, <1>10, <2>2
<1> QED BY <1>5, <1>6, <1>7, <1>8, <1>9, <1>10

\* The second goes on beside the first when it stands where the first stands, or the
\* line is no transition.
LEMMA BesideLine ==
  ASSUME NEW w, NEW s \in Watches, NEW t \in Watches, NEW l \in NoteLine, Beside(s, t)
  PROVE  LET u == PlaceReader(w)[<<s, l>>]
             v == PlaceReader(w)[<<t, l>>]
         IN  /\ u \in Watches /\ v \in Watches /\ u.open = v.open
             /\ l.kind # "trans" \/ s.at = t.at \/ ~Suits(w, s, l) => Beside(u, v)
             /\ l.kind = "head" /\ ~Stray(s) => u.at = v.at
<1> DEFINE u == PlaceReader(w)[<<s, l>>]
           v == PlaceReader(w)[<<t, l>>]
<1>1. /\ u \in Watches /\ u.open = Opened(s.open, l, Strict)
      /\ u.at = Stands(w, s, l) /\ u.mark = Marks(w, s, l)
  BY PlaceReads
<1>2. /\ v \in Watches /\ v.open = Opened(t.open, l, Strict)
      /\ v.at = Stands(w, t, l) /\ v.mark = Marks(w, t, l)
  BY PlaceReads
<1>3. u.open = v.open /\ (Outside(s) <=> Outside(t)) /\ (Opens(w, s, l) <=> Opens(w, t, l))
  BY <1>1, <1>2 DEF Beside, Outside, Opens
<1> HIDE DEF u, v
<1>4. ~Stray(u) => ~Stray(s) /\ (l.kind = "trans" => Suits(w, s, l))
  BY <1>1 DEF Stray, Stands
<1>5. ASSUME ~Stray(s) PROVE v.mark = u.mark /\ ~Stray(t)
  BY <1>1, <1>2, <1>3, <1>5 DEF Beside, Marks
<1>6. ASSUME l.kind # "trans" \/ s.at = t.at \/ ~Suits(w, s, l), ~Stray(u)
      PROVE  ~Stray(v)
  <2>1. ~Stray(s) /\ ~Stray(t) /\ t.mark = s.mark
    BY <1>4, <1>5, <1>6 DEF Beside
  <2>2. l.kind = "trans" => Suits(w, t, l)
    BY <1>3, <1>4, <1>6, <2>1 DEF Suits
  <2> QED BY <1>2, <2>1, <2>2 DEF Stray, Stands
<1>7. ASSUME l.kind = "head", ~Stray(s) PROVE u.at = v.at
  <2>1. ~Stray(t) /\ l # Blank
    BY <1>5, <1>7, LineKinds
  <2> QED BY <1>1, <1>2, <1>3, <1>7, <2>1 DEF Stands, Stray
<1> QED BY <1>1, <1>2, <1>3, <1>4, <1>5, <1>6, <1>7 DEF u, v, Beside

LEMMA WrittenUpto ==
  ASSUME NEW w, NEW a \in Reading, NEW l \in NoteLine, NEW s \in Watches, Beneath(w, a, s),
         NEW new \in {UptoFence(a, l), UptoHead(a, l), UptoText(a, l)},
         l.kind = "trans" /\ Suits(w, s, l) => new = UptoText(a, l)
  PROVE  LET u == PlaceReader(w)[<<s, l>>]
             v == Fed(PlaceReader(w), Unplaced, new)
         IN  /\ Beside(u, v)
             /\ l.kind = "head" /\ ~Stray(s) => u.at = v.at
<1> DEFINE d == PlaceReader(w)
           t == Fed(d, Unplaced, a.out)
<1>0. /\ Reader(d, Watches) /\ Unplaced \in Watches /\ a.out \in Seq(NoteLine)
      /\ <<l>> \in Seq(NoteLine) /\ Blank \in NoteLine /\ <<Blank>> \in Seq(NoteLine)
  BY PlaceReads, LineTypes DEF Reading
<1> HIDE DEF d
<1>1. ASSUME NEW gap \in Seq(NoteLine)
      PROVE  /\ t \in Watches /\ Fed(d, t, gap) \in Watches
             /\ Fed(d, Unplaced, (a.out \o gap) \o <<l>>) = d[<<Fed(d, t, gap), l>>]
  <2>1. t \in Watches /\ a.out \o gap \in Seq(NoteLine) /\ Fed(d, Unplaced, a.out \o gap) = Fed(d, t, gap)
    BY <1>0, FedConcat
  <2>0. PICK mid \in Seq(NoteLine) : mid = a.out \o gap
    BY <2>1
  <2>2. /\ Fed(d, Unplaced, mid) \in Watches
        /\ Fed(d, Unplaced, Append(mid, l)) = d[<<Fed(d, Unplaced, mid), l>>]
    BY <1>0, FedLine
  <2>3. Append(mid, l) = mid \o <<l>>
    BY AppendIsConcat
  <2>4. Fed(d, Unplaced, mid) = Fed(d, t, gap)
    BY <2>0, <2>1, Zenon
  <2> QED BY <2>0, <2>1, <2>2, <2>3, <2>4, Zenon
<1>2. Beside(s, t) /\ (~Stray(s) /\ s.at # "away" => Outside(s) /\ a.headed /\ t.at = "head")
  BY DEF Beneath, d
<1>3. CASE l.kind = "trans" /\ Suits(w, s, l) /\ ~Stray(s)
  <2>1. s.at = "below" /\ Outside(s) /\ a.headed /\ t.at = "head" /\ ~Stray(t) /\ Outside(t)
    BY <1>2, <1>3 DEF Suits, Beside, Outside
  <2>2. new = (a.out \o <<Blank>>) \o <<l>>
    BY <1>3, <2>1, UptoGap
  <2> DEFINE q == d[<<t, Blank>>]
  <2>3. t \in Watches /\ Fed(d, t, <<Blank>>) = q
    <3>1. t \in Watches
      BY <1>0, <1>1
    <3> QED BY <1>0, <3>1, FedOne
  <2>4. q \in Watches /\ q.open = t.open /\ q.mark = t.mark /\ ~Stray(q)
    BY <1>0, <2>1, <2>3, LineKinds, PlaceLine DEF d
  <2>5. q.at = "below"
    <3>1. q.at = Stands(w, t, Blank)
      BY <1>0, <2>3, PlaceReads DEF d
    <3>2. ~Opens(w, t, Blank) /\ Blank.kind # "trans"
      BY LineKinds DEF Opens
    <3> QED BY <2>1, <3>1, <3>2 DEF Stands
  <2> HIDE DEF q
  <2>6. Beside(s, q)
    BY <1>2, <1>3, <2>4 DEF Beside
  <2>7. Beside(d[<<s, l>>], d[<<q, l>>])
    BY <2>1, <2>4, <2>5, <2>6, BesideLine DEF d
  <2>8. Fed(d, Unplaced, new) = d[<<q, l>>]
    BY <1>0, <1>1, <2>2, <2>3
  <2> QED BY <1>3, <2>7, <2>8 DEF d
<1>4. CASE ~(l.kind = "trans" /\ Suits(w, s, l) /\ ~Stray(s))
  <2>1. PICK gap \in Gaps : new = (a.out \o gap) \o <<l>>
    BY UptoGap
  <2> DEFINE q == Fed(d, t, gap)
  <2>2. t \in Watches
    BY <1>0, <1>1
  <2>3. /\ gap \in Seq(NoteLine) /\ q \in Watches
        /\ (Stray(q) <=> Stray(t)) /\ q.open = t.open /\ q.mark = t.mark
    BY <2>2, FedGap DEF d
  <2>4. Fed(d, Unplaced, new) = d[<<q, l>>]
    BY <1>1, <2>1, <2>3
  <2> HIDE DEF q
  <2>5. Beside(s, q)
    BY <1>2, <2>3 DEF Beside
  <2> DEFINE u == d[<<s, l>>]
             v == d[<<q, l>>]
  <2>6. /\ u.open = v.open
        /\ l.kind # "trans" \/ ~Suits(w, s, l) => Beside(u, v)
        /\ l.kind = "head" /\ ~Stray(s) => u.at = v.at
    BY <2>3, <2>5, BesideLine DEF d
  <2>7. Stray(s) => Stray(u)
    <3>1. u.at = Stands(w, s, l)
      BY PlaceReads DEF d
    <3> QED BY <3>1 DEF Stray, Stands
  <2> HIDE DEF u, v
  <2>8. Beside(u, v)
    BY <1>4, <2>6, <2>7 DEF Beside
  <2> QED BY <2>4, <2>6, <2>8 DEF u, v, d
<1> QED BY <1>3, <1>4

LEMMA BeneathStep ==
  ASSUME NEW w, NEW a \in Reading, NEW l \in NoteLine, NEW s \in Watches, Beneath(w, a, s)
  PROVE  Take(a, l) \in Reading /\ Beneath(w, Take(a, l), PlaceReader(w)[<<s, l>>])
<1> DEFINE d == PlaceReader(w)
           t == Fed(d, Unplaced, a.out)
           b == Take(a, l)
           u == d[<<s, l>>]
           v == Fed(d, Unplaced, b.out)
<1>0. Reader(d, Watches) /\ Unplaced \in Watches /\ a.out \in Seq(NoteLine) /\ Blank \in NoteLine
  BY PlaceReads, LineTypes DEF Reading
<1>1. /\ u \in Watches /\ u.open = Opened(s.open, l, Strict)
      /\ u.at = Stands(w, s, l) /\ u.mark = Marks(w, s, l)
  BY PlaceReads
<1>2. a.open = s.open /\ (Outside(a) <=> Outside(s))
  BY DEF Beneath, Outside
<1>3. Beside(s, t) /\ (~Stray(s) /\ s.at # "away" => Outside(s) /\ a.headed /\ t.at = "head")
  BY DEF Beneath
<1>4. /\ t \in Watches /\ Fed(d, Unplaced, Append(a.out, l)) = d[<<t, l>>]
  BY <1>0, FedLine
<1>5. /\ b \in Reading
      /\ ~Outside(a) => b.out = Append(a.out, l) /\ b.open = Opened(a.open, l, Strict)
      /\ Outside(a) =>
           /\ l.kind \in Strict => b.out = UptoFence(a, l) /\ b.open = l.text
           /\ l.kind \notin Strict => b.open = a.open
           /\ l \in {Blank, Rule} => b.out = a.out
           /\ l = Blank => b.headed = a.headed
           /\ l.kind = "head" => b.out = UptoHead(a, l) /\ b.headed
           /\ l.kind \notin {"head", "fence"} /\ l \notin {Blank, Rule} => b.out = UptoText(a, l)
  BY TakeHeads
<1> HIDE DEF b, u
<1>6. b.open = u.open
  <2>1. u.open = Opened(a.open, l, Strict)
    BY <1>1, <1>2
  <2>2. CASE ~Outside(a)
    BY <1>5, <2>1, <2>2
  <2>3. CASE Outside(a) /\ l.kind \in Strict
    BY <1>5, <2>1, <2>3, Zenon DEF Opened, Outside
  <2>4. CASE Outside(a) /\ l.kind \notin Strict
    BY <1>5, <2>1, <2>4, Zenon DEF Opened
  <2> QED BY <2>2, <2>3, <2>4
<1>7. \/ u.at = "lost" \/ u.at = "away"
      \/ u.at = "head" /\ Outside(s) /\ l.kind = "head"
      \/ u.at = "below" /\ Outside(s) /\ s.at = "head" /\ l = Blank
  BY <1>1 DEF Stands, Opens
<1>8. ASSUME NEW new \in {UptoFence(a, l), UptoHead(a, l), UptoText(a, l)}, b.out = new,
             l.kind = "trans" /\ Suits(w, s, l) => new = UptoText(a, l)
      PROVE  Beside(u, v) /\ (l.kind = "head" /\ ~Stray(s) => u.at = v.at)
  BY <1>8, WrittenUpto DEF u
<1>9. ASSUME b.out = a.out, l \in {Blank, Rule} PROVE Beside(u, v)
  <2>1. l.kind # "trans" /\ l.kind \notin {"head", "fence"}
    BY <1>9, LineKinds
  <2>2. (Stray(u) <=> Stray(s)) /\ u.open = s.open /\ u.mark = s.mark
    BY <2>1, PlaceLine DEF u
  <2>3. v = t
    BY <1>9
  <2> HIDE DEF v, t
  <2> QED BY <1>3, <2>2, <2>3 DEF Beside
<1>10. Beside(u, v)
  <2>1. CASE ~Outside(a)
    <3>1. ~Suits(w, s, l)
      BY <1>2, <2>1 DEF Suits
    <3>2. Beside(u, d[<<t, l>>])
      <4> HIDE DEF t
      <4> QED BY <1>3, <1>4, <3>1, BesideLine DEF u
    <3>3. v = d[<<t, l>>]
      BY <1>4, <1>5, <2>1
    <3> QED BY <3>2, <3>3, Zenon
  <2>2. CASE Outside(a) /\ l \in {Blank, Rule}
    BY <1>5, <1>9, <2>2
  <2>3. CASE Outside(a) /\ l.kind = "fence"
    <3>1. b.out = UptoFence(a, l)
      BY <1>5, <2>3 DEF Strict
    <3> HIDE DEF v
    <3> QED BY <1>8, <2>3, <3>1
  <2>4. CASE Outside(a) /\ l.kind = "head"
    <3>1. b.out = UptoHead(a, l)
      BY <1>5, <2>4
    <3> HIDE DEF v
    <3> QED BY <1>8, <2>4, <3>1
  <2>5. CASE Outside(a) /\ l.kind \notin {"head", "fence"} /\ l \notin {Blank, Rule}
    <3>1. b.out = UptoText(a, l)
      BY <1>5, <2>5
    <3> HIDE DEF v
    <3> QED BY <1>8, <3>1
  <2> QED BY <2>1, <2>2, <2>3, <2>4, <2>5
<1>11. ASSUME ~Stray(u), u.at # "away" PROVE Outside(u) /\ b.headed /\ v.at = "head"
  <2>1. CASE u.at = "head" /\ Outside(s) /\ l.kind = "head"
    <3>1. b.headed /\ b.out = UptoHead(a, l) /\ Outside(a)
      BY <1>2, <1>5, <2>1
    <3>2. ~Stray(s)
      BY <1>1, <1>11 DEF Stray, Stands
    <3>3. v.at = "head"
      <4> HIDE DEF v
      <4> QED BY <1>8, <2>1, <3>1, <3>2
    <3>4. l.kind \notin Strict
      BY <2>1 DEF Strict
    <3>5. Outside(u)
      BY <1>1, <2>1, <3>4 DEF Outside, Opened
    <3> QED BY <3>1, <3>3, <3>5
  <2>2. CASE u.at = "below" /\ Outside(s) /\ s.at = "head" /\ l = Blank
    <3>1. ~Stray(s)
      BY <2>2 DEF Stray
    <3>2. a.headed /\ t.at = "head"
      BY <1>3, <2>2, <3>1
    <3>3. b.headed /\ b.out = a.out
      BY <1>2, <1>5, <2>2, <3>2
    <3>4. l.kind \notin Strict
      BY <2>2, LineKinds DEF Strict
    <3>5. Outside(u)
      BY <1>1, <2>2, <3>4 DEF Outside, Opened
    <3> QED BY <3>2, <3>3, <3>5
  <2> QED BY <1>7, <1>11, <2>1, <2>2 DEF Stray
<1> QED BY <1>5, <1>6, <1>10, <1>11 DEF Beneath, b, u

\* normalise_markdown leaves no transition stray that was in its place.
LEMMA PlaceNormalise ==
  ASSUME NEW w, NEW ls \in Seq(NoteLine), ~Stray(Fed(PlaceReader(w), Unplaced, ls))
  PROVE  ~Stray(Fed(PlaceReader(w), Unplaced, Normalise(ls)))
<1> DEFINE n == Len(ls)
           d == PlaceReader(w)
<1>0. /\ n \in Nat /\ Reader(d, Watches) /\ Unplaced \in Watches /\ Outside(Unplaced)
      /\ Unplaced.at = "away" /\ Blank \in NoteLine /\ Rule \in NoteLine
  BY Whole, PlaceReads, LineTypes
<1>1. PICK f \in [0 .. n -> Reading] :
        /\ f[0] = Unread /\ \A i \in 1 .. n : f[i] = Take(f[i - 1], ls[i])
        /\ Normalise(ls) = Written(f[n])
  BY TakeStates
<1> HIDE DEF d
<1> DEFINE T == {i \in 0 .. n : Beneath(w, f[i], Seen(d, Unplaced, ls, i))}
<1>2. 0 \in T
  <2>1. Unread.out = <<>> /\ <<>> \in Seq(NoteLine) /\ Unread.open = ""
    BY UnreadType, EmptySeq DEF Unread
  <2>2. Fed(d, Unplaced, <<>>) = Unplaced
    BY <1>0, FedNone
  <2>3. Fed(d, Unplaced, Unread.out) = Unplaced
    BY <2>1, <2>2, Zenon
  <2>4. Seen(d, Unplaced, ls, 0) = Unplaced
    BY <1>0, SeenStep
  <2>5. Beneath(w, Unread, Unplaced)
    BY <1>0, <2>1, <2>3 DEF Beneath, Beside, Outside, d
  <2> QED BY <1>0, <1>1, <2>4, <2>5
<1>3. ASSUME NEW i \in 1 .. n, i - 1 \in T PROVE i \in T
  <2>1. i \in 0 .. n /\ i - 1 \in 0 .. n
    BY <1>0
  <2>2. /\ ls[i] \in NoteLine /\ Seen(d, Unplaced, ls, i - 1) \in Watches
        /\ Seen(d, Unplaced, ls, i) = d[<<Seen(d, Unplaced, ls, i - 1), ls[i]>>]
    BY <1>0, SeenStep
  <2>3. f[i - 1] \in Reading /\ f[i] = Take(f[i - 1], ls[i])
    BY <1>1, <2>1
  <2>4. Beneath(w, f[i - 1], Seen(d, Unplaced, ls, i - 1))
    BY <1>3
  <2>5. Beneath(w, f[i], Seen(d, Unplaced, ls, i))
    BY <2>2, <2>3, <2>4, BeneathStep DEF d
  <2> QED BY <2>1, <2>5
<1> HIDE DEF T
<1>4. n \in T
  <2>1. \A i \in 1 .. n : i - 1 \in T => i \in T
    BY <1>3
  <2> QED BY <1>0, <1>2, <2>1, UpTo, Zenon
<1>5. f[n] \in Reading /\ Beneath(w, f[n], Fed(d, Unplaced, ls))
  <2>1. Seen(d, Unplaced, ls, n) = Fed(d, Unplaced, ls)
    BY <1>0, SeenStep
  <2> QED BY <1>0, <1>1, <1>4, <2>1 DEF T
<1>6. f[n].out \in Seq(NoteLine) /\ ~Stray(Fed(d, Unplaced, f[n].out))
  BY <1>5 DEF Beneath, Beside, Reading, d
<1>7. CASE f[n].ruled /\ ~f[n].headed
  <2>1. PICK gap \in Gaps : Written(f[n]) = f[n].out \o gap
    <3> DEFINE g == Opt(f[n].pending, Blank)
    <3>1. g \in Gaps /\ <<Rule>> \in Gaps
      <4>1. <<Blank>> \in Gaps /\ <<>> \in Gaps /\ <<Rule>> \in Gaps
        BY DEF Gaps
      <4> QED BY <4>1, Zenon DEF Opt
    <3>2. Written(f[n]) = (f[n].out \o g) \o <<Rule>>
      BY <1>7 DEF Written
    <3> HIDE DEF g
    <3>3. g \o <<Rule>> \in Gaps
      BY <3>1, ConcatProperties DEF Gaps
    <3>4. g \in Seq(NoteLine) /\ <<Rule>> \in Seq(NoteLine)
      BY <1>0, <3>1, FedGap
    <3>5. \A x \in Seq(NoteLine), y \in Seq(NoteLine), z \in Seq(NoteLine) :
            (x \o y) \o z = x \o (y \o z)
      BY ConcatAssociative
    <3>6. Written(f[n]) = f[n].out \o (g \o <<Rule>>)
      BY <1>6, <3>2, <3>4, <3>5, Zenon
    <3> QED BY <3>3, <3>6
  <2>2. gap \in Seq(NoteLine) /\ \A i \in 1 .. Len(gap) : gap[i].kind # "trans"
    <3>1. gap \in Seq(NoteLine)
      BY <1>0, FedGap
    <3>2. \A i \in 1 .. Len(gap) : gap[i] \in {Blank, Rule}
      BY DEF Gaps
    <3> QED BY <3>1, <3>2, LineKinds
  <2>3. ~Stray(Fed(d, Unplaced, f[n].out \o gap))
    BY <1>6, <2>2, PlaceBelow DEF d
  <2> QED BY <1>1, <2>1, <2>3, Zenon DEF d
<1>8. CASE ~(f[n].ruled /\ ~f[n].headed)
  <2>1. Written(f[n]) = f[n].out
    BY <1>8 DEF Written
  <2> QED BY <1>1, <1>6, <2>1, Zenon DEF d
<1> QED BY <1>7, <1>8

\* Two readers side by side: what holds of their states before every line, one reading
\* the line and the other what a pass makes of it, holds after the texts.
LEMMA FedTogether ==
  ASSUME NEW S, NEW d, Reader(d, S), NEW s \in S, NEW U, NEW e, Reader(e, U), NEW t \in U,
         NEW ls \in Seq(NoteLine), NEW g \in [1 .. Len(ls) -> Seq(NoteLine)],
         NEW Both, <<s, t>> \in Both,
         \A i \in 1 .. Len(ls), q \in U :
           <<Seen(d, s, ls, i - 1), q>> \in Both => <<Seen(d, s, ls, i), Fed(e, q, g[i])>> \in Both
  PROVE  FlattenSeq(g) \in Seq(NoteLine) /\ <<Fed(d, s, ls), Fed(e, t, FlattenSeq(g))>> \in Both
<1> DEFINE n == Len(ls)
<1>0. n \in Nat
  BY Whole
<1>1. PICK f \in [0 .. n -> Seq(NoteLine)] :
        /\ f[0] = <<>> /\ \A i \in 1 .. n : f[i] = f[i - 1] \o g[i]
        /\ FlattenSeq(g) = f[n]
  BY <1>0, Flattened
<1> DEFINE T == {i \in 0 .. n : <<Seen(d, s, ls, i), Fed(e, t, f[i])>> \in Both}
<1>2. 0 \in T
  <2>2. Fed(e, t, <<>>) = t
    BY FedNone
  <2>3. Seen(d, s, ls, 0) = s
    BY SeenStep
  <2>4. <<Seen(d, s, ls, 0), Fed(e, t, f[0])>> \in Both
    BY <1>1, <2>2, <2>3, Zenon
  <2>5. 0 \in 0 .. n
    BY <1>0
  <2> QED BY <2>4, <2>5
<1>3. ASSUME NEW i \in 1 .. n, i - 1 \in T PROVE i \in T
  <2>1. i \in 0 .. n /\ i - 1 \in 0 .. n
    BY <1>0
  <2>2. f[i - 1] \in Seq(NoteLine) /\ g[i] \in Seq(NoteLine) /\ f[i] = f[i - 1] \o g[i]
    BY <1>1, <2>1
  <2>3. Fed(e, t, f[i - 1]) \in U /\ Fed(e, t, f[i - 1] \o g[i]) = Fed(e, Fed(e, t, f[i - 1]), g[i])
    BY <2>2, FedConcat
  <2>4. <<Seen(d, s, ls, i - 1), Fed(e, t, f[i - 1])>> \in Both
    BY <1>3
  <2>5. <<Seen(d, s, ls, i), Fed(e, Fed(e, t, f[i - 1]), g[i])>> \in Both
    BY <2>3, <2>4
  <2>6. <<Seen(d, s, ls, i), Fed(e, t, f[i])>> \in Both
    BY <2>2, <2>3, <2>5, Zenon
  <2> QED BY <2>1, <2>6
<1> HIDE DEF T
<1>4. n \in T
  <2>1. \A i \in 1 .. n : i - 1 \in T => i \in T
    BY <1>3
  <2> QED BY <1>0, <1>2, <2>1, UpTo, Zenon
<1>5. <<Seen(d, s, ls, n), Fed(e, t, f[n])>> \in Both
  BY <1>4 DEF T
<1>6. f[n] \in Seq(NoteLine) /\ Seen(d, s, ls, n) = Fed(d, s, ls)
  BY <1>0, <1>1, SeenStep
<1> QED BY <1>1, <1>5, <1>6, Zenon

\* By its place, a section is known to the reader as it is to the passes.
LEMMA SectionOpens ==
  ASSUME NEW ls \in Seq(NoteLine), NEW i \in DOMAIN ls
  PROVE  i \in SectionsOf(ls, HeadsOf(ls))
           <=> Opens("order", Seen(PlaceReader("order"), Unplaced, ls, i - 1), ls[i])
<1> DEFINE d == PlaceReader("order")
<1>1. Reader(d, Watches) /\ Unplaced \in Watches /\ Outside(Unplaced)
  BY PlaceReads
<1> HIDE DEF d
<1>2. Prose(ls, Strict) = {k \in DOMAIN ls : /\ ls[k].kind \notin Strict
                                            /\ Outside(Seen(d, Unplaced, ls, k - 1))}
  BY <1>1, SeenProse
<1>3. ls[i].kind = "head" => ls[i].kind \notin Strict
  BY DEF Strict
<1> QED BY <1>2, <1>3 DEF SectionsOf, HeadsOf, Opens, d

LEMMA SectionMark ==
  ASSUME NEW ls \in Seq(NoteLine), NEW k \in 0 .. Len(ls)
  PROVE  Seen(PlaceReader("order"), Unplaced, ls, k).mark
           = Cardinality({j \in SectionsOf(ls, HeadsOf(ls)) : j <= k})
<1> DEFINE n == Len(ls)
           d == PlaceReader("order")
           K == SectionsOf(ls, HeadsOf(ls))
           Upto(i) == {j \in K : j <= i}
           x(i) == Seen(d, Unplaced, ls, i)
           T == {i \in 0 .. n : x(i).mark = Cardinality(Upto(i))}
<1>0. n \in Nat /\ DOMAIN ls = 1 .. n
  BY Whole
<1>1. Reader(d, Watches) /\ Unplaced \in Watches /\ Unplaced.mark = 0
  BY PlaceReads
<1>2. \A j \in K : j \in 1 .. n
  BY HeadsIn DEF SectionsOf
<1> HIDE DEF K
<1>3. 0 \in T
  <2>1. x(0) = Unplaced
    BY <1>1, SeenStep
  <2>2. \A j \in K : ~(j <= 0)
    BY <1>0, <1>2
  <2>3. Upto(0) = {}
    BY <2>2
  <2>4. Cardinality({}) = 0
    BY FS_EmptySet
  <2>5. x(0).mark = Cardinality(Upto(0))
    BY <1>1, <2>1, <2>3, <2>4
  <2>6. 0 \in 0 .. n
    BY <1>0
  <2> QED BY <2>5, <2>6
<1>4. ASSUME NEW i \in 1 .. n, i - 1 \in T PROVE i \in T
  <2>1. /\ x(i - 1) \in Watches /\ ls[i] \in NoteLine /\ x(i) = d[<<x(i - 1), ls[i]>>]
    BY <1>1, SeenStep
  <2>2. x(i).mark = Marks("order", x(i - 1), ls[i])
    BY <2>1, PlaceReads
  <2>3. i \in K <=> Opens("order", x(i - 1), ls[i])
    BY <1>0, SectionOpens DEF K
  <2>4. x(i - 1).mark = Cardinality(Upto(i - 1))
    BY <1>4
  <2>5. IsFiniteSet(Upto(i - 1)) /\ i \notin Upto(i - 1)
    <3>1. IsFiniteSet(1 .. n)
      BY <1>0, FS_Interval
    <3>2. Upto(i - 1) \subseteq 1 .. n
      BY <1>2
    <3>3. i \notin Upto(i - 1)
      BY <1>0
    <3> HIDE DEF Upto
    <3> QED BY <3>1, <3>2, <3>3, FS_Subset
  <2>6. Upto(i) = IF i \in K THEN Upto(i - 1) \cup {i} ELSE Upto(i - 1)
    <3>1. i \in Int /\ i <= i
      BY <1>0
    <3>2. ASSUME NEW j \in K PROVE j <= i <=> j <= i - 1 \/ j = i
      <4>1. j \in Int
        BY <1>0, <1>2
      <4> QED BY <3>1, <4>1
    <3> QED BY <3>1, <3>2
  <2> HIDE DEF Upto, x
  <2>7. x(i).mark = Cardinality(Upto(i))
    <3>1. CASE i \in K
      <4>1. Cardinality(Upto(i - 1) \cup {i}) = Cardinality(Upto(i - 1)) + 1
        BY <2>5, FS_AddElement
      <4>2. x(i).mark = x(i - 1).mark + 1
        BY <2>2, <2>3, <3>1 DEF Marks
      <4> QED BY <2>4, <2>6, <3>1, <4>1, <4>2
    <3>2. CASE i \notin K
      BY <2>2, <2>3, <2>4, <2>6, <3>2 DEF Marks
    <3> QED BY <3>1, <3>2
  <2>8. i \in 0 .. n
    BY <1>0
  <2> QED BY <2>7, <2>8
<1> HIDE DEF T
<1>5. k \in T
  <2>1. \A j \in 1 .. k : j - 1 \in T => j \in T
    BY <1>0, <1>4
  <2> QED BY <1>0, <1>3, <2>1, UpTo
<1> QED BY <1>5 DEF T, K

LEMMA UnwovenOrdered ==
  ASSUME NEW ls \in Seq(NoteLine), Unwoven(ls)
  PROVE  Ordered(ls)
<1>1. \A i \in 1 .. Len(ls) : ls[i].kind # "trans"
  BY Whole DEF Unwoven
<1>2. Unplaced \in Watches /\ ~Stray(Unplaced)
  BY PlaceReads
<1> QED BY <1>1, <1>2, FedCalm DEF Ordered

LEMMA FourLines ==
  ASSUME NEW S, NEW a \in S, NEW b \in S, NEW c \in S, NEW e \in S
  PROVE  Append(Append(Append(<<a>>, b), c), e) = <<a, b, c, e>>
<1>0. ASSUME NEW q \in Seq(S), NEW x \in S
      PROVE  /\ Append(q, x) \in Seq(S) /\ Len(Append(q, x)) = Len(q) + 1
             /\ \A i \in 1 .. Len(q) : Append(q, x)[i] = q[i]
             /\ Append(q, x)[Len(q) + 1] = x
  BY AppendProperties
<1>1. PICK one \in Seq(S) : one = <<a>> /\ Len(one) = 1 /\ one[1] = a
  <2>1. <<a>> \in Seq(S) /\ Len(<<a>>) = 1 /\ <<a>>[1] = a
    OBVIOUS
  <2> QED BY <2>1, Zenon
<1>2. PICK two \in Seq(S) : two = Append(one, b) /\ Len(two) = 2 /\ two[1] = a /\ two[2] = b
  <2>1. /\ Append(one, b) \in Seq(S) /\ Len(Append(one, b)) = 2
        /\ Append(one, b)[1] = a /\ Append(one, b)[2] = b
    BY <1>0, <1>1
  <2> QED BY <2>1, Zenon
<1>3. PICK three \in Seq(S) : /\ three = Append(two, c) /\ Len(three) = 3
                              /\ three[1] = a /\ three[2] = b /\ three[3] = c
  <2>1. /\ Append(two, c) \in Seq(S) /\ Len(Append(two, c)) = 3
        /\ Append(two, c)[1] = a /\ Append(two, c)[2] = b /\ Append(two, c)[3] = c
    BY <1>0, <1>2
  <2> QED BY <2>1, Zenon
<1>4. PICK four \in Seq(S) : /\ four = Append(three, e) /\ Len(four) = 4
                             /\ four[1] = a /\ four[2] = b /\ four[3] = c /\ four[4] = e
  <2>1. /\ Append(three, e) \in Seq(S) /\ Len(Append(three, e)) = 4
        /\ Append(three, e)[1] = a /\ Append(three, e)[2] = b
        /\ Append(three, e)[3] = c /\ Append(three, e)[4] = e
    BY <1>0, <1>3
  <2> QED BY <2>1, Zenon
<1>5. four = <<a, b, c, e>>
  <2>1. <<a, b, c, e>> \in Seq(S) /\ Len(<<a, b, c, e>>) = 4
    OBVIOUS
  <2>2. \A i \in 1 .. 4 : four[i] = <<a, b, c, e>>[i]
    BY <1>4
  <2> QED BY <1>4, <2>1, <2>2, SeqEqual
<1> QED BY <1>1, <1>2, <1>3, <1>4, <1>5, Zenon

\* A heading with its blank line, its transition and another blank line.
LEMMA PlaceGiven ==
  ASSUME NEW w, NEW p \in Watches, NEW q \in Watches, NEW l \in NoteLine, Beside(p, q), ~Stray(p),
         Opens(w, p, l), NEW k \in Nat, k = PlaceReader(w)[<<p, l>>].mark
  PROVE  LET u == PlaceReader(w)[<<p, l>>]
             four == <<l, Blank, Trans(k), Blank>>
         IN  four \in Seq(NoteLine) /\ Beside(u, Fed(PlaceReader(w), q, four))
<1> DEFINE d == PlaceReader(w)
           u == d[<<p, l>>]
           v1 == d[<<q, l>>]
           v2 == d[<<v1, Blank>>]
           v3 == d[<<v2, Trans(k)>>]
           v4 == d[<<v3, Blank>>]
<1>0. /\ Reader(d, Watches) /\ Blank \in NoteLine /\ Trans(k) \in NoteLine
      /\ Blank.kind = "blank" /\ Trans(k).kind = "trans" /\ Trans(k).num = k /\ l.kind = "head"
  BY PlaceReads, LineTypes, LineKinds DEF Opens, Trans, Line
<1>1. /\ u \in Watches /\ u.open = Opened(p.open, l, Strict)
      /\ u.at = Stands(w, p, l) /\ u.mark = Marks(w, p, l)
  BY PlaceReads
<1>2. /\ u.at = "head" /\ Outside(u)
  <2>1. l.kind # "trans" /\ l.kind \notin Strict
    BY <1>0 DEF Strict
  <2>2. u.at = "head"
    BY <1>1, <2>1 DEF Stands, Stray
  <2>3. Outside(u)
    BY <1>1, <2>1 DEF Opens, Outside, Opened
  <2> QED BY <2>2, <2>3
<1>3. v1 \in Watches /\ Beside(u, v1) /\ v1.at = "head"
  <2>1. l.kind # "trans"
    BY <1>0
  <2> QED BY <1>0, <1>2, <2>1, BesideLine
<1> HIDE DEF d, u, v1
<1>4. ~Stray(u)
  BY <1>2 DEF Stray
<1>5. v1.open = u.open /\ v1.mark = u.mark /\ ~Stray(v1) /\ Outside(v1)
  BY <1>2, <1>3, <1>4 DEF Beside, Outside
<1>6. v2 \in Watches /\ v2.open = u.open /\ v2.mark = u.mark /\ v2.at = "below" /\ ~Stray(v2)
  <2>1. v2 \in Watches /\ (Stray(v2) <=> Stray(v1)) /\ v2.open = v1.open /\ v2.mark = v1.mark
    BY <1>0, <1>3, PlaceLine DEF d
  <2>2. v2.at = Stands(w, v1, Blank)
    BY <1>0, <1>3, PlaceReads DEF d
  <2>3. ~Opens(w, v1, Blank)
    BY <1>0 DEF Opens
  <2>4. v2.at = "below"
    BY <1>0, <1>3, <1>5, <2>2, <2>3 DEF Stands
  <2> HIDE DEF v2
  <2> QED BY <1>5, <2>1, <2>4
<1> HIDE DEF v2
<1>7. v3 \in Watches /\ v3.open = u.open /\ v3.mark = u.mark /\ ~Stray(v3)
  <2>1. /\ v3 \in Watches /\ v3.open = Opened(v2.open, Trans(k), Strict)
        /\ v3.at = Stands(w, v2, Trans(k)) /\ v3.mark = Marks(w, v2, Trans(k))
    BY <1>0, <1>6, PlaceReads DEF d
  <2>2. ~Opens(w, v2, Trans(k)) /\ Trans(k).kind \notin Strict
    BY <1>0 DEF Opens, Strict
  <2>3. Suits(w, v2, Trans(k))
    <3>1. k = u.mark
      BY DEF u, d
    <3>2. Outside(v2)
      BY <1>2, <1>6 DEF Outside
    <3> QED BY <1>0, <1>6, <3>1, <3>2 DEF Suits
  <2>4. v3.at = "away"
    <3>1. v2.at # "lost" /\ ~(v2.at = "head")
      BY <1>6
    <3> QED BY <2>1, <2>2, <2>3, <3>1 DEF Stands
  <2>5. v3.open = v2.open /\ v3.mark = v2.mark
    BY <2>1, <2>2 DEF Opened, Marks
  <2> HIDE DEF v3
  <2> QED BY <1>6, <2>1, <2>4, <2>5 DEF Stray
<1> HIDE DEF v3
<1>8. v4 \in Watches /\ Beside(u, v4)
  <2>1. v4 \in Watches /\ (Stray(v4) <=> Stray(v3)) /\ v4.open = v3.open /\ v4.mark = v3.mark
    BY <1>0, <1>7, PlaceLine DEF d
  <2> HIDE DEF v4
  <2> QED BY <1>7, <2>1 DEF Beside
<1>9. PICK one \in Seq(NoteLine) : one = <<l>> /\ Fed(d, q, one) = v1
  <2>1. <<l>> \in Seq(NoteLine) /\ Fed(d, q, <<l>>) = d[<<q, l>>]
    BY <1>0, FedOne
  <2> QED BY <2>1, Zenon DEF v1
<1>10. PICK two \in Seq(NoteLine) : two = Append(one, Blank) /\ Fed(d, q, two) = v2
  <2>1. /\ Append(one, Blank) \in Seq(NoteLine)
        /\ Fed(d, q, Append(one, Blank)) = d[<<Fed(d, q, one), Blank>>]
    BY <1>0, FedLine
  <2> QED BY <1>9, <2>1, Zenon DEF v2
<1>11. PICK x \in NoteLine : x = Trans(k)
  BY <1>0
<1>12. PICK three \in Seq(NoteLine) : three = Append(two, x) /\ Fed(d, q, three) = v3
  <2>1. /\ Append(two, x) \in Seq(NoteLine)
        /\ Fed(d, q, Append(two, x)) = d[<<Fed(d, q, two), x>>]
    BY <1>0, FedLine
  <2> QED BY <1>10, <1>11, <2>1, Zenon DEF v3
<1>13. PICK four \in Seq(NoteLine) : four = Append(three, Blank) /\ Fed(d, q, four) = v4
  <2>1. /\ Append(three, Blank) \in Seq(NoteLine)
        /\ Fed(d, q, Append(three, Blank)) = d[<<Fed(d, q, three), Blank>>]
    BY <1>0, FedLine
  <2> QED BY <1>12, <2>1, Zenon DEF v4
<1>14. four = <<l, Blank, Trans(k), Blank>>
  <2>1. four = Append(Append(Append(<<l>>, Blank), x), Blank)
    BY <1>9, <1>10, <1>12, <1>13
  <2>2. Append(Append(Append(<<l>>, Blank), x), Blank) = <<l, Blank, x, Blank>>
    BY <1>0, FourLines
  <2> QED BY <1>11, <2>1, <2>2
<1> QED BY <1>8, <1>13, <1>14, Zenon DEF u, d

\* splice_transitions puts every transition in its place.
LEMMA PlaceSpliced ==
  ASSUME NEW ls \in Seq(NoteLine), Unwoven(ls), PlainFences(ls), NEW chosen
  PROVE  Ordered(Splice(ls, chosen))
<1> DEFINE starts == SectionLines(ls)
           Nth(i) == Cardinality({j \in starts : j <= i})
           Gets(i) == i \in starts /\ Nth(i) \in chosen
           Spliced(i) == CASE Gets(i) -> <<ls[i], Blank, Trans(Nth(i)), Blank>>
                           [] ls[i] = Blank /\ i > 1 /\ Gets(i - 1) -> <<>>
                           [] OTHER -> <<ls[i]>>
           g == [i \in DOMAIN ls |-> Spliced(i)]
           d == PlaceReader("order")
           x(i) == Seen(d, Unplaced, ls, i)
<1>0. /\ Len(ls) \in Nat /\ DOMAIN ls = 1 .. Len(ls) /\ Reader(d, Watches) /\ Unplaced \in Watches
      /\ ~Stray(Unplaced)
  BY Whole, PlaceReads
<1>1. Splice(ls, chosen) = FlattenSeq(g)
  BY DEF Splice
<1>2. starts = SectionsOf(ls, HeadsOf(ls))
  BY ProseAgree DEF SectionLines, Heads, SectionsOf, HeadsOf
<1>3. starts \subseteq 1 .. Len(ls) /\ \A i \in starts : ls[i].kind = "head"
  <2>1. starts \subseteq HeadsOf(ls)
    BY <1>2 DEF SectionsOf
  <2> HIDE DEF starts
  <2> QED BY <2>1, HeadsIn
<1> HIDE DEF starts, d
<1>4. ASSUME NEW i \in DOMAIN ls
      PROVE  /\ Nth(i) \in Nat /\ Nth(i) = x(i).mark
             /\ i \in starts => Opens("order", x(i - 1), ls[i])
             /\ x(i - 1) \in Watches /\ ls[i] \in NoteLine /\ x(i) = d[<<x(i - 1), ls[i]>>]
             /\ ls[i].kind # "trans"
  <2>1. Nth(i) \in Nat
    BY <1>0, <1>3, NthType
  <2>2. i \in 0 .. Len(ls)
    BY <1>0
  <2>3. Nth(i) = x(i).mark
    BY <1>2, <2>2, SectionMark DEF d
  <2>4. i \in starts => Opens("order", x(i - 1), ls[i])
    BY <1>2, SectionOpens DEF d
  <2>5. x(i - 1) \in Watches /\ ls[i] \in NoteLine /\ x(i) = d[<<x(i - 1), ls[i]>>]
    BY <1>0, SeenStep
  <2> HIDE DEF Nth, x
  <2> QED BY <2>1, <2>3, <2>4, <2>5 DEF Unwoven
<1>5. \A i : Gets(i) => i \in starts
  OBVIOUS
<1> HIDE DEF Nth
<1>6. ASSUME NEW i \in DOMAIN ls
      PROVE  \/ Gets(i) /\ g[i] = <<ls[i], Blank, Trans(Nth(i)), Blank>>
             \/ ls[i] = Blank /\ i > 1 /\ Gets(i - 1) /\ g[i] = <<>>
             \/ g[i] = <<ls[i]>>
  <2>1. g[i] = Spliced(i)
    OBVIOUS
  <2> HIDE DEF g, Gets
  <2>2. CASE Gets(i)
    BY <1>3, <1>5, <2>1, <2>2, LineKinds
  <2>3. CASE ~Gets(i) /\ ls[i] = Blank /\ i > 1 /\ Gets(i - 1)
    BY <2>1, <2>3
  <2>4. CASE ~Gets(i) /\ ~(ls[i] = Blank /\ i > 1 /\ Gets(i - 1))
    BY <2>1, <2>4
  <2> QED BY <2>2, <2>3, <2>4
<1>7. DOMAIN g = DOMAIN ls /\ g = [i \in DOMAIN ls |-> g[i]]
  OBVIOUS
<1> HIDE DEF Gets, Spliced, g, x
<1>8. ASSUME NEW i \in DOMAIN ls, NEW q \in Watches
      PROVE  /\ g[i] \in Seq(NoteLine)
             /\ ~Stray(x(i - 1)) /\ Beside(x(i - 1), q)
                  => ~Stray(x(i)) /\ Beside(x(i), Fed(d, q, g[i]))
  <2>0. PICK p \in Watches, l \in NoteLine :
          /\ p = x(i - 1) /\ l = ls[i] /\ x(i) = d[<<p, l>>] /\ l.kind # "trans"
          /\ i \in starts => Opens("order", p, l)
    BY <1>4
  <2>1. Stray(x(i)) <=> Stray(p)
    BY <2>0, PlaceLine DEF d
  <2>2. CASE Gets(i) /\ g[i] = <<ls[i], Blank, Trans(Nth(i)), Blank>>
    <3>1. PICK k \in Nat : k = Nth(i) /\ k = d[<<p, l>>].mark
      BY <1>4, <2>0
    <3>2. g[i] = <<l, Blank, Trans(k), Blank>>
      BY <2>0, <2>2, <3>1
    <3>3. Opens("order", p, l)
      BY <1>5, <2>0, <2>2
    <3>4. Beside(p, q) /\ ~Stray(p) =>
            /\ <<l, Blank, Trans(k), Blank>> \in Seq(NoteLine)
            /\ Beside(d[<<p, l>>], Fed(d, q, <<l, Blank, Trans(k), Blank>>))
      BY <3>1, <3>3, PlaceGiven DEF d
    <3>5. <<l, Blank, Trans(k), Blank>> \in Seq(NoteLine)
      <4>1. Blank \in NoteLine /\ Trans(k) \in NoteLine
        BY LineTypes
      <4> QED BY <4>1
    <3>6. g[i] \in Seq(NoteLine)
      BY <3>2, <3>5, Zenon
    <3> QED BY <2>0, <2>1, <3>2, <3>4, <3>6, Zenon
  <2>3. CASE ls[i] = Blank /\ i > 1 /\ Gets(i - 1) /\ g[i] = <<>>
    <3>1. <<>> \in Seq(NoteLine) /\ Blank \in NoteLine
      BY EmptySeq, LineTypes
    <3>2. Fed(d, q, <<>>) = q
      BY <1>0, FedNone
    <3>3. l.kind \notin {"head", "fence"}
      BY <2>0, <2>3, LineKinds
    <3>4. x(i).open = p.open /\ x(i).mark = p.mark
      BY <2>0, <3>3, PlaceLine DEF d
    <3>5. Beside(p, q) => Beside(x(i), q)
      BY <2>1, <3>4 DEF Beside
    <3> QED BY <2>0, <2>1, <2>3, <3>1, <3>2, <3>5, Zenon
  <2>4. CASE g[i] = <<ls[i]>>
    <3>1. <<l>> \in Seq(NoteLine) /\ Fed(d, q, <<l>>) = d[<<q, l>>]
      BY <1>0, FedOne
    <3>2. Beside(p, q) => Beside(d[<<p, l>>], d[<<q, l>>])
      BY <2>0, BesideLine DEF d
    <3> QED BY <2>0, <2>1, <2>4, <3>1, <3>2, Zenon
  <2> QED BY <1>6, <2>2, <2>3, <2>4
<1>9. g \in [1 .. Len(ls) -> Seq(NoteLine)]
  <2>1. Unplaced \in Watches
    BY <1>0
  <2> QED BY <1>0, <1>7, <1>8, <2>1
<1> DEFINE Both == {p \in Watches \X Watches : ~Stray(p[1]) /\ Beside(p[1], p[2])}
<1>10. <<Unplaced, Unplaced>> \in Both
  BY <1>0 DEF Beside
<1>11. ASSUME NEW i \in 1 .. Len(ls), NEW q \in Watches, <<x(i - 1), q>> \in Both
       PROVE  <<x(i), Fed(d, q, g[i])>> \in Both
  <2>1. i \in DOMAIN ls /\ x(i) \in Watches
    BY <1>0, SeenStep DEF x
  <2>2. g[i] \in Seq(NoteLine) /\ ~Stray(x(i)) /\ Beside(x(i), Fed(d, q, g[i]))
    BY <1>8, <1>11, <2>1
  <2>3. Fed(d, q, g[i]) \in Watches
    <3>1. Blank \in NoteLine
      BY LineTypes
    <3> QED BY <1>0, <2>2, <3>1, FedLine
  <2> QED BY <2>1, <2>2, <2>3
<1> HIDE DEF Both
<1>12. <<Fed(d, Unplaced, ls), Fed(d, Unplaced, FlattenSeq(g))>> \in Both
  <2>1. \A i \in 1 .. Len(ls), q \in Watches :
          <<Seen(d, Unplaced, ls, i - 1), q>> \in Both
            => <<Seen(d, Unplaced, ls, i), Fed(d, q, g[i])>> \in Both
    BY <1>11 DEF x
  <2> QED BY <1>0, <1>9, <1>10, <2>1, FedTogether
<1>13. ~Stray(Fed(d, Unplaced, FlattenSeq(g)))
  BY <1>12 DEF Both, Beside
<1> QED BY <1>1, <1>13, Zenon DEF Ordered, d

LEMMA FollowsLine ==
  ASSUME NEW w, NEW s \in Watches, NEW t \in Watches, NEW l \in NoteLine, Follows(s, t)
  PROVE  /\ Follows(PlaceReader(w)[<<s, l>>], PlaceReader(w)[<<t, l>>])
         /\ l.kind = "para" => Follows(PlaceReader(w)[<<s, l>>], t)
<1> DEFINE u == PlaceReader(w)[<<s, l>>]
           v == PlaceReader(w)[<<t, l>>]
<1>1. /\ u \in Watches /\ u.open = Opened(s.open, l, Strict)
      /\ u.at = Stands(w, s, l) /\ u.mark = Marks(w, s, l)
  BY PlaceReads
<1>2. v \in Watches /\ v.at = Stands(w, t, l)
  BY PlaceReads
<1>3. /\ u.open = v.open
      /\ l.kind # "trans" \/ s.at = t.at \/ ~Suits(w, s, l) => Beside(u, v)
      /\ l.kind = "head" /\ ~Stray(s) => u.at = v.at
  BY BesideLine DEF Follows
<1> HIDE DEF u, v
<1>4. Beside(s, t) /\ (~Stray(s) /\ s.at # "away" => t.at = s.at)
  BY DEF Follows
<1>5. ~Stray(u) => ~Stray(s) /\ (l.kind = "trans" => Suits(w, s, l))
  BY <1>1 DEF Stray, Stands
<1>6. Beside(u, v)
  <2>1. CASE Stray(u)
    BY <1>3, <2>1 DEF Beside
  <2>2. CASE ~Stray(u) /\ l.kind = "trans"
    <3>1. s.at = "below" /\ ~Stray(s)
      BY <1>5, <2>2 DEF Suits
    <3>2. t.at = s.at
      BY <1>4, <3>1
    <3> QED BY <1>3, <3>2
  <2>3. CASE l.kind # "trans"
    BY <1>3, <2>3
  <2> QED BY <2>1, <2>2, <2>3
<1>7. ASSUME ~Stray(u), u.at # "away" PROVE v.at = u.at
  <2>1. CASE Opens(w, s, l)
    BY <1>3, <1>5, <1>7, <2>1 DEF Opens
  <2>2. CASE ~Opens(w, s, l)
    <3>1. Outside(s) /\ s.at = "head" /\ l = Blank /\ u.at = "below"
      BY <1>1, <1>7, <2>2 DEF Stands, Stray
    <3>2. t.at = "head" /\ Outside(t) /\ ~Stray(t)
      BY <1>4, <1>5, <1>7, <3>1 DEF Beside, Outside
    <3>3. l.kind = "blank"
      BY <3>1, LineKinds
    <3>4. ~Opens(w, t, l) /\ l.kind # "trans"
      BY <3>3 DEF Opens
    <3> QED BY <1>2, <3>1, <3>2, <3>4 DEF Stands
  <2> QED BY <2>1, <2>2
<1>8. ASSUME l.kind = "para" PROVE Follows(u, t)
  <2>1. l.kind \notin {"head", "fence"} /\ l.kind # "trans" /\ l # Blank
    BY <1>8, LineKinds
  <2>2. (Stray(u) <=> Stray(s)) /\ u.open = s.open /\ u.mark = s.mark
    BY <2>1, PlaceLine DEF u
  <2>3. ~Stray(u) => u.at = "away"
    BY <1>1, <1>8, <2>1 DEF Stands, Stray, Opens
  <2> QED BY <1>4, <2>2, <2>3 DEF Follows, Beside
<1> QED BY <1>6, <1>7, <1>8 DEF Follows, u, v

\* A pass that leaves out lines of text.
LEMMA PlaceLines ==
  ASSUME NEW w, NEW ls \in Seq(NoteLine), NEW K,
         \A i \in 1 .. Len(ls) : i \notin K => ls[i].kind = "para",
         ~Stray(Fed(PlaceReader(w), Unplaced, ls))
  PROVE  Lines(ls, K) \in Seq(NoteLine) /\ ~Stray(Fed(PlaceReader(w), Unplaced, Lines(ls, K)))
<1> DEFINE g == [i \in DOMAIN ls |-> IF i \in K THEN <<ls[i]>> ELSE <<>>]
           d == PlaceReader(w)
           Both == {p \in Watches \X Watches : Follows(p[1], p[2])}
<1>0. /\ Len(ls) \in Nat /\ DOMAIN ls = 1 .. Len(ls) /\ Reader(d, Watches) /\ Unplaced \in Watches
      /\ <<>> \in Seq(NoteLine)
  BY Whole, PlaceReads, EmptySeq
<1>1. Lines(ls, K) = FlattenSeq(g)
  BY DEF Lines
<1>2. \A i \in 1 .. Len(ls) : g[i] = IF i \in K THEN <<ls[i]>> ELSE <<>>
  BY <1>0
<1>3. g = [i \in 1 .. Len(ls) |-> g[i]]
  BY <1>0
<1> HIDE DEF g, d
<1>4. ASSUME NEW i \in 1 .. Len(ls), NEW q \in Watches
      PROVE  /\ g[i] \in Seq(NoteLine)
             /\ Follows(Seen(d, Unplaced, ls, i - 1), q)
                  => Follows(Seen(d, Unplaced, ls, i), Fed(d, q, g[i]))
  <2>1. PICK p \in Watches, l \in NoteLine :
          /\ p = Seen(d, Unplaced, ls, i - 1) /\ l = ls[i]
          /\ Seen(d, Unplaced, ls, i) = d[<<p, l>>]
    <3>1. /\ Seen(d, Unplaced, ls, i - 1) \in Watches /\ ls[i] \in NoteLine
          /\ Seen(d, Unplaced, ls, i) = d[<<Seen(d, Unplaced, ls, i - 1), ls[i]>>]
      BY <1>0, SeenStep
    <3> QED BY <3>1, Zenon
  <2>2. CASE i \in K
    <3>1. <<l>> \in Seq(NoteLine) /\ Fed(d, q, <<l>>) = d[<<q, l>>]
      BY <1>0, FedOne
    <3>2. Follows(p, q) => Follows(d[<<p, l>>], d[<<q, l>>])
      BY FollowsLine DEF d
    <3> QED BY <1>2, <2>1, <2>2, <3>1, <3>2, Zenon
  <2>3. CASE i \notin K
    <3>1. Fed(d, q, <<>>) = q
      BY <1>0, FedNone
    <3>2. l.kind = "para"
      BY <2>1, <2>3
    <3>3. Follows(p, q) => Follows(d[<<p, l>>], q)
      BY <3>2, FollowsLine DEF d
    <3> QED BY <1>0, <1>2, <2>1, <2>3, <3>1, <3>3, Zenon
  <2> QED BY <2>2, <2>3
<1>5. g \in [1 .. Len(ls) -> Seq(NoteLine)]
  <2>1. \A i \in 1 .. Len(ls) : g[i] \in Seq(NoteLine)
    BY <1>0, <1>4
  <2> QED BY <1>3, <2>1
<1>6. <<Unplaced, Unplaced>> \in Both
  BY <1>0 DEF Follows, Beside
<1>7. ASSUME NEW i \in 1 .. Len(ls), NEW q \in Watches, <<Seen(d, Unplaced, ls, i - 1), q>> \in Both
      PROVE  <<Seen(d, Unplaced, ls, i), Fed(d, q, g[i])>> \in Both
  <2>1. Seen(d, Unplaced, ls, i) \in Watches
    BY <1>0, SeenStep
  <2>2. g[i] \in Seq(NoteLine) /\ Follows(Seen(d, Unplaced, ls, i), Fed(d, q, g[i]))
    BY <1>4, <1>7
  <2>3. Fed(d, q, g[i]) \in Watches
    <3>1. Blank \in NoteLine
      BY LineTypes
    <3> QED BY <1>0, <2>2, <3>1, FedLine
  <2> QED BY <2>1, <2>2, <2>3
<1> HIDE DEF Both
<1>8. FlattenSeq(g) \in Seq(NoteLine) /\ <<Fed(d, Unplaced, ls), Fed(d, Unplaced, FlattenSeq(g))>> \in Both
  BY <1>0, <1>5, <1>6, <1>7, FedTogether
<1>9. ~Stray(Fed(d, Unplaced, FlattenSeq(g)))
  BY <1>8 DEF Both, Follows, Beside, d
<1> QED BY <1>1, <1>8, <1>9, Zenon DEF d

LEMMA RenumberedLine ==
  ASSUME NEW s \in Watches, NEW t \in Watches, NEW l \in NoteLine, NEW m \in NoteLine,
         Renumbered(s, t), m.kind = l.kind, l.kind # "head" => m = l,
         Opens("order", s, l)
           => m.level # 1 /\ m.num \in {0, PlaceReader("order")[<<s, l>>].mark}
  PROVE  Renumbered(PlaceReader("order")[<<s, l>>], PlaceReader("number")[<<t, m>>])
<1> DEFINE u == PlaceReader("order")[<<s, l>>]
           v == PlaceReader("number")[<<t, m>>]
<1>1. /\ u \in Watches /\ u.open = Opened(s.open, l, Strict)
      /\ u.at = Stands("order", s, l) /\ u.mark = Marks("order", s, l)
  BY PlaceReads
<1>2. /\ v \in Watches /\ v.open = Opened(t.open, m, Strict)
      /\ v.at = Stands("number", t, m) /\ v.mark = Marks("number", t, m)
  BY PlaceReads
<1>3. Opens("order", s, l) => m.level # 1 /\ m.num \in {0, u.mark}
  OBVIOUS
<1> HIDE DEF u, v
<1>4. t.open = s.open /\ (Outside(s) <=> Outside(t))
  BY DEF Renumbered, Outside
<1>5. v.open = u.open
  <2>1. CASE l.kind = "head"
    <3>1. l.kind \notin Strict /\ m.kind \notin Strict
      BY <2>1 DEF Strict
    <3> QED BY <1>1, <1>2, <1>4, <3>1 DEF Opened
  <2>2. CASE l.kind # "head"
    BY <1>1, <1>2, <1>4, <2>2
  <2> QED BY <2>1, <2>2
<1>6. ASSUME ~Stray(u) PROVE ~Stray(v) /\ (u.at # "away" => v.at = u.at /\ v.mark \in {0, u.mark})
  <2>1. ~Stray(s) /\ (l.kind = "trans" => Suits("order", s, l))
    BY <1>1, <1>6 DEF Stray, Stands
  <2>2. ~Stray(t) /\ (s.at # "away" => t.at = s.at /\ t.mark \in {0, s.mark})
    BY <2>1 DEF Renumbered
  <2>3. l.kind = "trans" => Suits("number", t, m)
    <3> SUFFICES ASSUME l.kind = "trans" PROVE Suits("number", t, m)
      OBVIOUS
    <3>1. m = l /\ Outside(s) /\ s.at = "below" /\ s.mark = l.num
      BY <2>1 DEF Suits
    <3>2. t.at = "below" /\ t.mark \in {0, l.num}
      BY <2>2, <3>1
    <3> QED BY <1>4, <3>1, <3>2 DEF Suits
  <2>4. ~Stray(v)
    BY <1>2, <2>2, <2>3 DEF Stray, Stands
  <2>5. CASE Opens("order", s, l)
    <3>1. Opens("number", t, m)
      BY <1>3, <1>4, <2>5 DEF Opens
    <3>2. l.kind = "head" /\ l.kind # "trans" /\ m.kind # "trans"
      BY <2>5 DEF Opens
    <3>3. v.at = "head" /\ v.mark = m.num
      BY <1>2, <2>2, <3>1, <3>2 DEF Stands, Marks, Stray
    <3>4. u.at = "head"
      BY <1>1, <2>1, <2>5, <3>2 DEF Stands, Stray
    <3> QED BY <1>3, <2>4, <2>5, <3>3, <3>4
  <2>6. CASE ~Opens("order", s, l) /\ Outside(s) /\ s.at = "head" /\ l = Blank
    <3>1. m = l /\ l.kind = "blank"
      BY <2>6, LineKinds
    <3>2. ~Opens("number", t, m) /\ m.kind # "trans"
      BY <3>1 DEF Opens
    <3>3. t.at = "head" /\ t.mark \in {0, s.mark} /\ Outside(t)
      BY <1>4, <2>2, <2>6
    <3>4. v.at = "below" /\ v.mark = t.mark
      BY <1>2, <2>2, <2>6, <3>1, <3>2, <3>3 DEF Stands, Marks, Stray
    <3>5. u.at = "below" /\ u.mark = s.mark
      BY <1>1, <2>1, <2>6, <3>1, <3>2 DEF Stands, Marks, Stray
    <3> QED BY <2>4, <3>3, <3>4, <3>5
  <2>7. CASE ~Opens("order", s, l) /\ ~(Outside(s) /\ s.at = "head" /\ l = Blank)
    <3>1. u.at = "away"
      BY <1>1, <1>6, <2>7 DEF Stands, Stray
    <3> QED BY <2>4, <3>1
  <2> QED BY <2>5, <2>6, <2>7
<1> QED BY <1>5, <1>6 DEF Renumbered, u, v

LEMMA PlaceRenumbered ==
  ASSUME NEW a \in Seq(NoteLine), NEW b \in Seq(NoteLine), Len(b) = Len(a),
         \A i \in 1 .. Len(a) :
           /\ b[i].kind = a[i].kind /\ (a[i].kind # "head" => b[i] = a[i])
           /\ Opens("order", Seen(PlaceReader("order"), Unplaced, a, i - 1), a[i])
                => b[i].level # 1 /\ b[i].num \in {0, Seen(PlaceReader("order"), Unplaced, a, i).mark},
         Ordered(a)
  PROVE  Laid(b)
<1> DEFINE n == Len(a)
           d == PlaceReader("order")
           e == PlaceReader("number")
           T == {i \in 0 .. n : Renumbered(Seen(d, Unplaced, a, i), Seen(e, Unplaced, b, i))}
<1>0. /\ n \in Nat /\ Reader(d, Watches) /\ Reader(e, Watches) /\ Unplaced \in Watches
      /\ Unplaced.at = "away"
  BY Whole, PlaceReads
<1> HIDE DEF d, e
<1>1. 0 \in T
  <2>1. Seen(d, Unplaced, a, 0) = Unplaced
    BY <1>0, SeenStep
  <2>2. Seen(e, Unplaced, b, 0) = Unplaced
    BY <1>0, SeenStep
  <2>3. Renumbered(Unplaced, Unplaced)
    BY <1>0 DEF Renumbered
  <2> QED BY <1>0, <2>1, <2>2, <2>3
<1>2. ASSUME NEW i \in 1 .. n, i - 1 \in T PROVE i \in T
  <2>1. PICK s \in Watches, l \in NoteLine :
          /\ s = Seen(d, Unplaced, a, i - 1) /\ l = a[i] /\ Seen(d, Unplaced, a, i) = d[<<s, l>>]
    <3>1. /\ Seen(d, Unplaced, a, i - 1) \in Watches /\ a[i] \in NoteLine
          /\ Seen(d, Unplaced, a, i) = d[<<Seen(d, Unplaced, a, i - 1), a[i]>>]
      BY <1>0, SeenStep
    <3> QED BY <3>1, Zenon
  <2>2. PICK t \in Watches, m \in NoteLine :
          /\ t = Seen(e, Unplaced, b, i - 1) /\ m = b[i] /\ Seen(e, Unplaced, b, i) = e[<<t, m>>]
    <3>1. i \in 1 .. Len(b)
      OBVIOUS
    <3>2. /\ Seen(e, Unplaced, b, i - 1) \in Watches /\ b[i] \in NoteLine
          /\ Seen(e, Unplaced, b, i) = e[<<Seen(e, Unplaced, b, i - 1), b[i]>>]
      BY <1>0, <3>1, SeenStep
    <3> QED BY <3>2, Zenon
  <2>3. Renumbered(s, t)
    BY <1>2, <2>1, <2>2
  <2>4. /\ m.kind = l.kind /\ (l.kind # "head" => m = l)
        /\ Opens("order", s, l) => m.level # 1 /\ m.num \in {0, d[<<s, l>>].mark}
    BY <2>1, <2>2 DEF d
  <2>5. Renumbered(d[<<s, l>>], e[<<t, m>>])
    BY <2>3, <2>4, RenumberedLine DEF d, e
  <2> QED BY <1>0, <2>1, <2>2, <2>5
<1> HIDE DEF T
<1>3. n \in T
  <2>1. \A i \in 1 .. n : i - 1 \in T => i \in T
    BY <1>2
  <2> QED BY <1>0, <1>1, <2>1, UpTo, Zenon
<1>4. Renumbered(Fed(d, Unplaced, a), Fed(e, Unplaced, b))
  <2>1. Seen(d, Unplaced, a, n) = Fed(d, Unplaced, a)
    BY <1>0, SeenStep
  <2>2. Seen(e, Unplaced, b, n) = Fed(e, Unplaced, b)
    BY <1>0, SeenStep
  <2> QED BY <1>3, <2>1, <2>2 DEF T
<1> QED BY <1>4 DEF Renumbered, Ordered, Laid, d, e

\* Who is lost stays lost.
LEMMA StrayStays ==
  ASSUME NEW w, NEW s \in Watches, NEW ls \in Seq(NoteLine), Stray(s)
  PROVE  Stray(Fed(PlaceReader(w), s, ls))
<1> DEFINE n == Len(ls)
           d == PlaceReader(w)
           T == {i \in 0 .. n : Stray(Seen(d, s, ls, i))}
<1>0. n \in Nat /\ Reader(d, Watches)
  BY Whole, PlaceReads
<1> HIDE DEF d
<1>1. 0 \in T
  BY <1>0, SeenStep
<1>2. ASSUME NEW i \in 1 .. n, i - 1 \in T PROVE i \in T
  <2>1. /\ Seen(d, s, ls, i - 1) \in Watches /\ ls[i] \in NoteLine
        /\ Seen(d, s, ls, i) = d[<<Seen(d, s, ls, i - 1), ls[i]>>]
    BY <1>0, SeenStep
  <2>2. Stray(Seen(d, s, ls, i - 1))
    BY <1>2
  <2>3. Seen(d, s, ls, i).at = Stands(w, Seen(d, s, ls, i - 1), ls[i])
    BY <2>1, PlaceReads DEF d
  <2>4. Stray(Seen(d, s, ls, i))
    BY <2>2, <2>3 DEF Stray, Stands
  <2> QED BY <1>0, <2>4
<1> HIDE DEF T
<1>3. n \in T
  <2>1. \A i \in 1 .. n : i - 1 \in T => i \in T
    BY <1>2
  <2> QED BY <1>0, <1>1, <2>1, UpTo, Zenon
<1>4. Seen(d, s, ls, n) = Fed(d, s, ls)
  BY <1>0, SeenStep
<1> QED BY <1>3, <1>4 DEF T, d

\* Before the formatter has been at a note, both readers are lost in the same notes.
LEMMA OrderLaid ==
  ASSUME NEW ls \in Seq(NoteLine), Untabled(ls), Ordered(ls)
  PROVE  Laid(ls)
<1>1. ASSUME NEW i \in 1 .. Len(ls)
      PROVE  /\ ls[i].kind = ls[i].kind /\ (ls[i].kind # "head" => ls[i] = ls[i])
             /\ Opens("order", Seen(PlaceReader("order"), Unplaced, ls, i - 1), ls[i])
                  => /\ ls[i].level # 1
                     /\ ls[i].num \in {0, Seen(PlaceReader("order"), Unplaced, ls, i).mark}
  <2> SUFFICES ASSUME Opens("order", Seen(PlaceReader("order"), Unplaced, ls, i - 1), ls[i])
               PROVE  ls[i].level # 1 /\ ls[i].num = 0
    OBVIOUS
  <2>1. ls[i].kind = "head" /\ ls[i].level = 2
    BY DEF Opens
  <2>2. ls[i] \in Range(ls)
    BY Whole DEF Range
  <2> QED BY <2>1, <2>2 DEF Untabled
<1> QED BY <1>1, PlaceRenumbered

\* The number the formatter gives a section is its place.
LEMMA SectionLine ==
  ASSUME NEW ls \in Seq(NoteLine), NEW i \in SectionsOf(ls, HeadsOf(ls))
  PROVE  /\ Restructured(ls, HeadsOf(ls), i).level = 3
         /\ Restructured(ls, HeadsOf(ls), i).num
              = Cardinality({j \in SectionsOf(ls, HeadsOf(ls)) : j <= i})
<1> DEFINE H == HeadsOf(ls)
           titles == {j \in H : ls[j].level = 1}
           n == Cardinality({j \in SectionsOf(ls, H) : j <= i})
<1>1. /\ Len(ls) \in Nat /\ H \subseteq 1 .. Len(ls) /\ i \in H /\ ls[i].level = 2
  BY HeadsIn DEF SectionsOf
<1>2. i # TitleOf(ls, H)
  <2>1. TitleOf(ls, H) = IF titles = {} THEN 0 ELSE Min(titles)
    BY DEF TitleOf
  <2>2. CASE titles = {}
    BY <1>1, <2>1, <2>2
  <2>3. CASE titles # {}
    <3>1. titles \subseteq 1 .. Len(ls)
      BY <1>1
    <3>2. \A j \in titles : ls[j].level = 1
      OBVIOUS
    <3> HIDE DEF titles
    <3>3. Min(titles) \in titles
      BY <1>1, <2>3, <3>1, MinIn
    <3>4. ls[Min(titles)].level = 1
      BY <3>2, <3>3
    <3> QED BY <1>1, <2>1, <2>3, <3>4
  <2> QED BY <2>2, <2>3
<1>3. Restructured(ls, H, i) = Heading(3, n, LinkSafe(ls[i].text))
  <2> HIDE DEF H
  <2>1. Restructured(ls, H, i)
          = Heading(3, Cardinality({j \in SectionsOf(ls, H) : j <= i}), LinkSafe(ls[i].text))
    BY <1>1, <1>2 DEF Restructured, H
  <2> QED BY <2>1
<1> HIDE DEF n, H
<1>4. Restructured(ls, H, i).level = 3 /\ Restructured(ls, H, i).num = n
  BY <1>3, LineKinds
<1> QED BY <1>4 DEF H, n

LEMMA PlaceRestructured ==
  ASSUME NEW ls \in Seq(NoteLine), Ordered(ls)
  PROVE  LET new == [i \in DOMAIN ls |-> Restructured(ls, HeadsOf(ls), i)]
         IN  new \in Seq(NoteLine) /\ Len(new) = Len(ls) /\ Laid(new)
<1> DEFINE n == Len(ls)
           d == PlaceReader("order")
           new == [i \in DOMAIN ls |-> Restructured(ls, HeadsOf(ls), i)]
<1>0. n \in Nat /\ DOMAIN ls = 1 .. n
  BY Whole
<1>1. new = [i \in 1 .. n |-> new[i]] /\ \A i \in 1 .. n : new[i] = Restructured(ls, HeadsOf(ls), i)
  BY <1>0
<1> HIDE DEF new, d
<1>2. \A i \in 1 .. n :
        /\ new[i] \in NoteLine /\ (ls[i].kind # "head" => new[i] = ls[i])
        /\ new[i].kind = ls[i].kind
  BY <1>0, <1>1, RestructuredLine
<1>3. new \in Seq(NoteLine) /\ Len(new) = n
  BY <1>0, <1>1, <1>2
<1>4. ASSUME NEW i \in 1 .. n, Opens("order", Seen(d, Unplaced, ls, i - 1), ls[i])
      PROVE  new[i].level # 1 /\ new[i].num \in {0, Seen(d, Unplaced, ls, i).mark}
  <2>1. i \in SectionsOf(ls, HeadsOf(ls))
    BY <1>0, <1>4, SectionOpens DEF d
  <2>2. i \in 0 .. Len(ls)
    BY <1>0
  <2>3. Seen(d, Unplaced, ls, i).mark = Cardinality({j \in SectionsOf(ls, HeadsOf(ls)) : j <= i})
    BY <2>2, SectionMark DEF d
  <2>4. new[i].level = 3 /\ new[i].num = Cardinality({j \in SectionsOf(ls, HeadsOf(ls)) : j <= i})
    BY <1>1, <2>1, SectionLine
  <2> QED BY <2>3, <2>4
<1>5. Laid(new)
  BY <1>2, <1>3, <1>4, PlaceRenumbered DEF d
<1> QED BY <1>3, <1>5 DEF new

\* Where the table of contents goes: below the first title, be it in a code block, and the
\* blank lines that follow it; at the top when there is none.
LEMMA TocPut ==
  ASSUME NEW ls \in Seq(NoteLine), \A i \in DOMAIN ls : ls[i].kind # "entry"
  PROVE  \E at \in 0 .. Len(ls), put \in Seq(NoteLine) :
           /\ GenerateToc(ls) \in {ls, (SubSeq(ls, 1, at) \o put) \o SubSeq(ls, at + 1, Len(ls))}
           /\ \A i \in 1 .. Len(put) : put[i].kind \in {"callout", "entry", "blank"}
           /\ \/ at = 0
              \/ \E m \in 1 .. at : /\ ls[m].kind = "head" /\ ls[m].level = 1
                                    /\ \A i \in (m + 1) .. at : ls[i] = Blank
<1> DEFINE K == {i \in DOMAIN ls : ls[i].kind = "head" /\ ls[i].level = 1}
           text == {i \in DOMAIN ls : i > Min(K) /\ ls[i] # Blank}
           at == IF K = {} THEN 0 ELSE IF text = {} THEN Len(ls) ELSE Min(text) - 1
           heads == TocHeads(ls)
           entries == [n \in DOMAIN heads |-> Entry(heads[n])]
           above == SubSeq(ls, 1, at)
           below == SubSeq(ls, at + 1, Len(ls))
           put == (<<Callout>> \o entries) \o <<Blank>>
           new == above \o <<Callout>> \o entries \o <<Blank>> \o below
<1>0. Len(ls) \in Nat /\ DOMAIN ls = 1 .. Len(ls)
  BY Whole
<1>1. GenerateToc(ls) = IF Len(heads) < 2 THEN ls ELSE new
  <2> DEFINE rest == Lines(ls, DOMAIN ls \ TocRange(ls))
             text2 == {i \in DOMAIN rest : i > Min(K) /\ rest[i] # Blank}
             at2 == IF K = {} THEN 0 ELSE IF text2 = {} THEN Len(rest) ELSE Min(text2) - 1
  <2>1. GenerateToc(ls) = IF Len(heads) < 2 THEN ls
                          ELSE SubSeq(rest, 1, at2) \o <<Callout>> \o entries
                                 \o <<Blank>> \o SubSeq(rest, at2 + 1, Len(rest))
    BY DEF GenerateToc
  <2>2. rest = ls
    <3>1. DOMAIN ls \ TocRange(ls) = DOMAIN ls
      BY NoTocRange
    <3>2. Lines(ls, DOMAIN ls) = ls
      BY LinesAll
    <3> QED BY <3>1, <3>2, Zenon
  <2> HIDE DEF rest, entries, heads, K
  <2> QED BY <2>1, <2>2
<1>2. /\ at \in 0 .. Len(ls)
      /\ \/ at = 0
         \/ \E m \in 1 .. at : /\ ls[m].kind = "head" /\ ls[m].level = 1
                               /\ \A i \in (m + 1) .. at : ls[i] = Blank
  <2>1. CASE K = {}
    BY <1>0, <2>1
  <2>2. CASE K # {}
    <3>1. PICK m \in 1 .. Len(ls) : m = Min(K) /\ ls[m].kind = "head" /\ ls[m].level = 1
      <4>1. K \subseteq 1 .. Len(ls) /\ \A m \in K : ls[m].kind = "head" /\ ls[m].level = 1
        BY <1>0
      <4> HIDE DEF K
      <4>2. Min(K) \in K
        BY <1>0, <2>2, <4>1, MinIn
      <4> QED BY <4>1, <4>2
    <3>2. at \in m .. Len(ls) /\ \A i \in (m + 1) .. at : ls[i] = Blank
      <4> HIDE DEF K
      <4>1. CASE text = {}
        <5>1. at = Len(ls)
          BY <2>2, <4>1
        <5>2. ASSUME NEW i \in (m + 1) .. Len(ls) PROVE ls[i] = Blank
          <6>1. i \in DOMAIN ls /\ i > Min(K)
            BY <1>0, <3>1
          <6>2. i \notin text
            BY <4>1
          <6> QED BY <6>1, <6>2
        <5> HIDE DEF at
        <5> QED BY <1>0, <5>1, <5>2
      <4>2. CASE text # {}
        <5>1. at = Min(text) - 1
          BY <2>2, <4>2
        <5>2. text \subseteq 1 .. Len(ls) /\ \A i \in text : i > m
          BY <1>0, <3>1
        <5>3. ASSUME NEW i \in 1 .. Len(ls), i > m, i \notin text PROVE ls[i] = Blank
          BY <1>0, <3>1, <5>3
        <5> HIDE DEF text
        <5>4. Min(text) \in text /\ \A i \in text : Min(text) <= i
          BY <1>0, <4>2, <5>2, MinIn
        <5>5. Min(text) \in 1 .. Len(ls) /\ Min(text) > m
          BY <5>2, <5>4
        <5> HIDE DEF at
        <5>6. ASSUME NEW i \in (m + 1) .. at PROVE ls[i] = Blank
          <6>1. i \in 1 .. Len(ls) /\ i > m /\ i < Min(text)
            BY <1>0, <5>1, <5>5
          <6>2. i \notin text
            <7> SUFFICES ASSUME i \in text PROVE FALSE
              OBVIOUS
            <7>1. Min(text) <= i
              BY <5>4
            <7> QED BY <1>0, <5>5, <6>1, <7>1
          <6> QED BY <5>3, <6>1, <6>2
        <5> QED BY <1>0, <5>1, <5>5, <5>6
      <4> QED BY <4>1, <4>2
    <3> HIDE DEF at
    <3>3. m \in 1 .. at
      BY <1>0, <3>2
    <3> QED BY <1>0, <3>1, <3>2, <3>3
  <2> QED BY <2>1, <2>2
<1> HIDE DEF at
<1>3. /\ above \in Seq(NoteLine) /\ below \in Seq(NoteLine)
  BY <1>2, CountCut
<1>4. entries \in Seq(NoteLine) /\ \A i \in 1 .. Len(entries) : entries[i].kind = "entry"
  <2>1. heads \in Seq(NoteLine)
    BY LinesCount DEF TocHeads
  <2>2. Len(heads) \in Nat /\ DOMAIN heads = 1 .. Len(heads) /\ \A i \in DOMAIN heads : heads[i] \in NoteLine
    BY <2>1
  <2>3. ASSUME NEW i \in 1 .. Len(heads) PROVE entries[i] \in NoteLine /\ entries[i].kind = "entry"
    <3>1. entries[i] = Entry(heads[i])
      BY <2>2
    <3> HIDE DEF heads, entries
    <3> QED BY <2>2, <3>1, LineTypes, LineKinds
  <2>4. entries = [n \in 1 .. Len(heads) |-> entries[n]]
    BY <2>2
  <2> HIDE DEF heads, entries
  <2> QED BY <2>2, <2>3, <2>4
<1> DEFINE S == {l \in NoteLine : l.kind \in {"callout", "entry", "blank"}}
<1>5. /\ <<Callout>> \in Seq(S) /\ <<Blank>> \in Seq(S) /\ entries \in Seq(S) /\ S \subseteq NoteLine
  <2>1. Callout \in S /\ Blank \in S
    BY LineTypes, LineKinds
  <2>2. \A i \in 1 .. Len(entries) : entries[i] \in S
    <3>1. \A i \in 1 .. Len(entries) : entries[i] \in NoteLine
      BY <1>4, Whole
    <3> QED BY <1>4, <3>1
  <2> HIDE DEF entries
  <2>3. entries \in Seq(S)
    <3>1. Len(entries) \in Nat /\ DOMAIN entries = 1 .. Len(entries)
      BY <1>4, Whole
    <3>2. entries = [i \in 1 .. Len(entries) |-> entries[i]]
      BY <1>4
    <3> HIDE DEF S
    <3> QED BY <2>2, <3>1, <3>2
  <2> QED BY <2>1, <2>3
<1>6. \A l \in S : l.kind \in {"callout", "entry", "blank"}
  OBVIOUS
<1> HIDE DEF entries, heads, above, below, S
<1>7. put \in Seq(S) /\ put \in Seq(NoteLine)
  <2>1. \A x \in Seq(S), y \in Seq(S) : x \o y \in Seq(S)
    BY ConcatProperties
  <2>2. put \in Seq(S)
    BY <1>5, <2>1, Zenon
  <2> HIDE DEF put
  <2>3. put \in Seq(NoteLine)
    BY <1>5, <2>2, SeqMonotonic
  <2> QED BY <2>2, <2>3
<1>8. \A i \in 1 .. Len(put) : put[i].kind \in {"callout", "entry", "blank"}
  <2> HIDE DEF put
  <2> QED BY <1>6, <1>7
<1>9. new = (above \o put) \o below
  <2>0. \A x \in Seq(NoteLine), y \in Seq(NoteLine), z \in Seq(NoteLine) :
          x \o y \in Seq(NoteLine) /\ (x \o y) \o z = x \o (y \o z)
    BY ConcatAssociative, ConcatProperties
  <2>1. PICK c \in Seq(NoteLine), b \in Seq(NoteLine) : c = <<Callout>> /\ b = <<Blank>>
    <3>1. <<Callout>> \in Seq(NoteLine) /\ <<Blank>> \in Seq(NoteLine)
      BY LineTypes
    <3> QED BY <3>1, Zenon
  <2>2. above \o (c \o entries) = (above \o c) \o entries /\ c \o entries \in Seq(NoteLine)
    <3>1. above \in Seq(NoteLine) /\ entries \in Seq(NoteLine)
      BY <1>3, <1>4, Zenon
    <3>2. PICK p \in Seq(NoteLine), e \in Seq(NoteLine) : p = above /\ e = entries
      BY <3>1, Zenon
    <3>3. (p \o c) \o e = p \o (c \o e)
      BY ConcatAssociative
    <3>4. c \o e \in Seq(NoteLine)
      BY <2>0, Zenon
    <3> QED BY <3>2, <3>3, <3>4, Zenon
  <2>3. above \o ((c \o entries) \o b) = (above \o (c \o entries)) \o b
    <3>1. above \in Seq(NoteLine)
      BY <1>3
    <3>2. PICK p \in Seq(NoteLine) : p = c \o entries
      BY <2>2
    <3>3. above \o (p \o b) = (above \o p) \o b
      BY <2>0, <3>1
    <3> QED BY <3>2, <3>3
  <2>4. put = (c \o entries) \o b /\ new = (((above \o c) \o entries) \o b) \o below
    BY <2>1
  <2> HIDE DEF put, new
  <2>5. above \o put = ((above \o c) \o entries) \o b
    BY <2>2, <2>3, <2>4, Zenon
  <2> QED BY <2>4, <2>5
<1>10. GenerateToc(ls) \in {ls, (above \o put) \o below}
  <2> HIDE DEF new, put
  <2> QED BY <1>1, <1>9
<1> HIDE DEF put
<1> QED BY <1>2, <1>7, <1>8, <1>10 DEF above, below

\* No transition can be meant for that place: the reader is away from the sections there,
\* and the table leaves it away.
LEMMA PlaceToc ==
  ASSUME NEW ls \in Seq(NoteLine), \A i \in DOMAIN ls : ls[i].kind # "entry", Laid(ls)
  PROVE  Laid(GenerateToc(ls))
<1> DEFINE d == PlaceReader("number")
<1>0. /\ Reader(d, Watches) /\ Unplaced \in Watches /\ Unplaced.at = "away"
      /\ Len(ls) \in Nat
  BY PlaceReads, Whole
<1>1. PICK at \in 0 .. Len(ls), put \in Seq(NoteLine) :
           /\ GenerateToc(ls) \in {ls, (SubSeq(ls, 1, at) \o put) \o SubSeq(ls, at + 1, Len(ls))}
           /\ \A i \in 1 .. Len(put) : put[i].kind \in {"callout", "entry", "blank"}
           /\ \/ at = 0
              \/ \E m \in 1 .. at : /\ ls[m].kind = "head" /\ ls[m].level = 1
                                    /\ \A i \in (m + 1) .. at : ls[i] = Blank
  BY TocPut
<1> HIDE DEF d
<1>2. Seen(d, Unplaced, ls, at).at \in {"away", "lost"}
  <2>1. CASE at = 0
    BY <1>0, <2>1, SeenStep
  <2>2. CASE at # 0
    <3>1. PICK m \in 1 .. at : /\ ls[m].kind = "head" /\ ls[m].level = 1
                               /\ \A i \in (m + 1) .. at : ls[i] = Blank
      BY <1>1, <2>2
    <3> DEFINE T == {i \in 0 .. (at - m) : Seen(d, Unplaced, ls, m + i).at \in {"away", "lost"}}
    <3>2. at - m \in Nat /\ m + 0 = m /\ m + (at - m) = at /\ m \in 1 .. Len(ls)
      BY <1>0
    <3>3. ASSUME NEW k \in 1 .. Len(ls)
          PROVE  /\ Seen(d, Unplaced, ls, k - 1) \in Watches /\ ls[k] \in NoteLine
                 /\ Seen(d, Unplaced, ls, k).at = Stands("number", Seen(d, Unplaced, ls, k - 1), ls[k])
      <4>1. /\ Seen(d, Unplaced, ls, k - 1) \in Watches /\ ls[k] \in NoteLine
            /\ Seen(d, Unplaced, ls, k) = d[<<Seen(d, Unplaced, ls, k - 1), ls[k]>>]
        BY <1>0, SeenStep
      <4> QED BY <4>1, PlaceReads DEF d
    <3>4. 0 \in T
      <4>1. ~Opens("number", Seen(d, Unplaced, ls, m - 1), ls[m]) /\ ls[m] # Blank
        BY <3>1, LineKinds DEF Opens
      <4>2. Seen(d, Unplaced, ls, m).at \in {"away", "lost"}
        BY <3>2, <3>3, <4>1 DEF Stands
      <4> QED BY <3>2, <4>2
    <3>5. ASSUME NEW i \in 1 .. (at - m), i - 1 \in T PROVE i \in T
      <4>1. PICK k \in 1 .. Len(ls) : k = m + i /\ k - 1 = m + (i - 1) /\ k \in (m + 1) .. at
        BY <1>0, <3>2
      <4>2. Seen(d, Unplaced, ls, k - 1).at \in {"away", "lost"}
        BY <3>5, <4>1
      <4>3. ls[k] = Blank /\ ls[k].kind = "blank"
        BY <3>1, <4>1, LineKinds
      <4>4. ~Opens("number", Seen(d, Unplaced, ls, k - 1), ls[k])
        BY <4>3 DEF Opens
      <4>5. Seen(d, Unplaced, ls, k).at \in {"away", "lost"}
        BY <3>3, <4>2, <4>3, <4>4 DEF Stands
      <4> QED BY <3>2, <4>1, <4>5
    <3> HIDE DEF T
    <3>6. at - m \in T
      <4>1. \A i \in 1 .. (at - m) : i - 1 \in T => i \in T
        BY <3>5
      <4> QED BY <3>2, <3>4, <4>1, UpTo
    <3> QED BY <3>2, <3>6 DEF T
  <2> QED BY <2>1, <2>2
<1> DEFINE above == SubSeq(ls, 1, at)
           below == SubSeq(ls, at + 1, Len(ls))
<1>3. above \in Seq(NoteLine) /\ below \in Seq(NoteLine) /\ ls = above \o below
  BY CountCut
<1>4. PICK s \in Watches : s = Fed(d, Unplaced, above) /\ s.at \in {"away", "lost"}
  <2>1. Fed(d, Unplaced, above) \in Watches
    BY <1>0, <1>3, FedConcat
  <2> QED BY <1>2, <2>1 DEF Seen
<1> HIDE DEF above, below
<1>5. Fed(d, s, put) = s \/ (Stray(s) /\ Stray(Fed(d, s, put)))
  <2>1. /\ \A i \in 1 .. Len(put) : put[i].kind # "trans"
        /\ \A i \in 1 .. Len(put) : put[i].kind \notin {"head", "fence"}
    BY <1>1
  <2>2. /\ Stray(Fed(d, s, put)) <=> Stray(s)
        /\ s.at = "away" => Fed(d, s, put) = s
    BY <2>1, FedCalm DEF d
  <2> QED BY <1>4, <2>2 DEF Stray
<1>6. ~Stray(s) /\ Fed(d, Unplaced, above \o below) = Fed(d, s, below)
  <2>1. Fed(d, Unplaced, above \o below) = Fed(d, Fed(d, Unplaced, above), below)
    BY <1>0, <1>3, FedConcat
  <2>2. Fed(d, Unplaced, above \o below) = Fed(d, s, below)
    BY <1>4, <2>1, Zenon
  <2>3. ~Stray(Fed(d, s, below))
    BY <1>3, <2>2, Zenon DEF Laid, d
  <2>4. ~Stray(s)
    BY <1>3, <2>3, StrayStays DEF d
  <2> QED BY <2>2, <2>4
<1>7. Fed(d, Unplaced, (above \o put) \o below) = Fed(d, s, below)
  <2>1. PICK x \in Seq(NoteLine) : x = above \o put /\ Fed(d, Unplaced, x) = Fed(d, Fed(d, Unplaced, above), put)
    <3>1. /\ above \o put \in Seq(NoteLine)
          /\ Fed(d, Unplaced, above \o put) = Fed(d, Fed(d, Unplaced, above), put)
      BY <1>0, <1>3, FedConcat
    <3> QED BY <3>1, Zenon
  <2>2. Fed(d, Unplaced, x) = s
    BY <1>4, <1>5, <1>6, <2>1
  <2>3. Fed(d, Unplaced, x \o below) = Fed(d, Fed(d, Unplaced, x), below)
    BY <1>0, <1>3, FedConcat
  <2> QED BY <2>1, <2>2, <2>3, Zenon
<1>8. GenerateToc(ls) \in {ls, (above \o put) \o below}
  BY <1>1 DEF above, below
<1>9. ~Stray(Fed(d, Unplaced, (above \o put) \o below))
  BY <1>3, <1>6, <1>7, Zenon DEF Laid, d
<1> QED BY <1>8, <1>9, Zenon DEF Laid, d

\* The formatter: from the order of the sections to their numbers.
LEMMA PlaceStructure ==
  ASSUME NEW ls \in Seq(NoteLine), Untabled(ls), Ordered(ls)
  PROVE  Laid(ApplyStructure(ls))
<1> DEFINE prose == Prose(ls, Strict)
           H == HeadsOf(ls)
           new == [i \in DOMAIN ls |-> Restructured(ls, H, i)]
           K == {i \in DOMAIN ls : ~Restates(ls, prose, H, i)}
           kept == Lines(new, K)
<1>1. ApplyStructure(ls) = IF H = {} THEN ls ELSE GenerateToc(kept)
  BY DEF ApplyStructure, HeadsOf
<1>2. Len(ls) \in Nat /\ DOMAIN ls = 1 .. Len(ls) /\ Laid(ls)
  BY Whole, OrderLaid
<1>3. new \in Seq(NoteLine) /\ Len(new) = Len(ls) /\ Laid(new)
  BY PlaceRestructured
<1>4. ASSUME NEW i \in 1 .. Len(ls), i \notin K
      PROVE  new[i].kind = "para"
  <2>1. Restates(ls, prose, H, i)
    BY <1>2, <1>4
  <2>2. ls[i] = Para(LinkSafe(ls[Within(ls, H, i)].text))
    <3> HIDE DEF prose, H
    <3> QED BY <2>1 DEF Restates
  <2>3. ls[i].kind = "para"
    BY <2>2, LineKinds
  <2>4. new[i] = ls[i]
    BY <1>2, <2>3, RestructuredLine
  <2> HIDE DEF new
  <2> QED BY <2>3, <2>4
<1> HIDE DEF new, K, prose, H
<1>5. kept \in Seq(NoteLine) /\ Laid(kept)
  <2>1. \A i \in 1 .. Len(new) : i \notin K => new[i].kind = "para"
    BY <1>3, <1>4
  <2>2. ~Stray(Fed(PlaceReader("number"), Unplaced, new))
    BY <1>3 DEF Laid
  <2>3. kept \in Seq(NoteLine) /\ ~Stray(Fed(PlaceReader("number"), Unplaced, kept))
    BY <1>3, <2>1, <2>2, PlaceLines
  <2> QED BY <2>3 DEF Laid
<1>6. \A i \in DOMAIN kept : kept[i].kind # "entry"
  <2> DEFINE S == {l \in NoteLine : l.kind # "entry"}
  <2>1. ASSUME NEW i \in 1 .. Len(new) PROVE new[i] \in S
    <3>1. ls[i].kind # "entry" /\ i \in DOMAIN ls
      BY <1>2, <1>3 DEF Untabled, Range
    <3>2. new[i] = Restructured(ls, HeadsOf(ls), i)
      BY <3>1 DEF new, H
    <3>3. new[i].kind # "entry"
      <4>1. CASE ls[i].kind = "head"
        BY <3>1, <3>2, <4>1, RestructuredLine
      <4>2. CASE ls[i].kind # "head"
        BY <3>1, <3>2, <4>2, RestructuredLine
      <4> QED BY <4>1, <4>2
    <3> QED BY <1>3, <3>3
  <2>2. Len(new) \in Nat /\ DOMAIN new = 1 .. Len(new)
    BY <1>3, Whole
  <2>3. \A i \in 1 .. Len(new) : i \in K => new[i] \in S
    BY <2>1
  <2>4. \A l \in S : l.kind # "entry"
    OBVIOUS
  <2> HIDE DEF S
  <2>5. kept \in Seq(S)
    BY <2>2, <2>3, LinesType
  <2> HIDE DEF kept
  <2> QED BY <2>4, <2>5
<1> HIDE DEF kept
<1>7. Laid(GenerateToc(kept))
  BY <1>5, <1>6, PlaceToc
<1> QED BY <1>1, <1>2, <1>7, Zenon

\* A link stands in the place of a word.
LEMMA PlaceLink ==
  ASSUME NEW w, NEW ls \in Seq(NoteLine), NEW t \in Linked
  PROVE  /\ LinkFirst(ls, t) \in Seq(NoteLine)
         /\ Fed(PlaceReader(w), Unplaced, LinkFirst(ls, t)) = Fed(PlaceReader(w), Unplaced, ls)
<1> DEFINE d == PlaceReader(w)
           x == Link(t.name)
<1>1. CASE LinkFirst(ls, t) = ls
  BY <1>1
<1>2. CASE LinkFirst(ls, t) # ls
  <2>1. PICK at \in DOMAIN ls :
          LinkFirst(ls, t) = [ls EXCEPT ![at] = x] /\ ls[at].kind = "para"
    BY <1>2, LinkFirstStep
  <2> DEFINE new == [ls EXCEPT ![at] = x]
  <2>2. Len(ls) \in Nat /\ DOMAIN ls = 1 .. Len(ls) /\ ls[at] \in NoteLine
    BY Whole
  <2>3. x \in NoteLine /\ x.kind = "link"
    BY LineTypes, LineKinds DEF Linked
  <2>4. /\ new \in Seq(NoteLine) /\ Len(new) = Len(ls)
        /\ new[at] = x /\ \A i \in 1 .. Len(ls) : i # at => new[i] = ls[i]
    <3>1. \A i \in 1 .. Len(ls) : new[i] \in NoteLine
      BY <2>2, <2>3
    <3>2. new \in [1 .. Len(ls) -> NoteLine]
      BY <2>2, <3>1
    <3> QED BY <2>1, <2>2, <3>2
  <2> HIDE DEF new, x, d
  <2>5. Reader(d, Watches) /\ Unplaced \in Watches
    BY PlaceReads DEF d
  <2>6. ASSUME NEW s \in Watches, NEW l \in NoteLine, l.kind = "para"
        PROVE  d[<<s, x>>] = d[<<s, l>>]
    <3>1. /\ d[<<s, x>>] \in Watches /\ d[<<s, x>>].open = Opened(s.open, x, Strict)
          /\ d[<<s, x>>].at = Stands(w, s, x) /\ d[<<s, x>>].mark = Marks(w, s, x)
      BY <2>3, PlaceReads DEF d
    <3>2. /\ d[<<s, l>>] \in Watches /\ d[<<s, l>>].open = Opened(s.open, l, Strict)
          /\ d[<<s, l>>].at = Stands(w, s, l) /\ d[<<s, l>>].mark = Marks(w, s, l)
      BY PlaceReads DEF d
    <3>3. /\ x.kind \notin Strict /\ l.kind \notin Strict /\ x # Blank /\ l # Blank
          /\ ~Opens(w, s, x) /\ ~Opens(w, s, l)
      BY <2>3, <2>6, LineKinds DEF Strict, Opens
    <3>4. Opened(s.open, x, Strict) = Opened(s.open, l, Strict)
      BY <3>3 DEF Opened
    <3>5. Stands(w, s, x) = Stands(w, s, l)
      BY <2>3, <2>6, <3>3 DEF Stands
    <3>6. Marks(w, s, x) = Marks(w, s, l)
      BY <3>3 DEF Marks
    <3> QED BY <3>1, <3>2, <3>4, <3>5, <3>6, WatchesEqual
  <2>7. ASSUME NEW i \in 1 .. Len(ls)
        PROVE  d[<<Seen(d, Unplaced, ls, i - 1), new[i]>>] = d[<<Seen(d, Unplaced, ls, i - 1), ls[i]>>]
    <3>1. Seen(d, Unplaced, ls, i - 1) \in Watches
      BY <2>5, SeenStep
    <3>2. d[<<Seen(d, Unplaced, ls, i - 1), x>>] = d[<<Seen(d, Unplaced, ls, i - 1), ls[at]>>]
      BY <2>1, <2>2, <2>6, <3>1
    <3> QED BY <2>4, <3>2
  <2>8. Fed(d, Unplaced, new) = Fed(d, Unplaced, ls)
    BY <2>4, <2>5, <2>7, FedSame
  <2> QED BY <2>1, <2>4, <2>8 DEF new, d
<1> QED BY <1>1, <1>2

LEMMA PlaceMentions ==
  ASSUME NEW w, NEW ls \in Seq(NoteLine), NEW body,
         body = LinkMentions(ls, Resolved(Entities, Names))
  PROVE  /\ body \in Seq(NoteLine)
         /\ Fed(PlaceReader(w), Unplaced, body) = Fed(PlaceReader(w), Unplaced, ls)
<1> DEFINE d == PlaceReader(w)
           S == {s \in Seq(NoteLine) : Fed(d, Unplaced, s) = Fed(d, Unplaced, ls)}
<1>1. ls \in S
  OBVIOUS
<1>2. ASSUME NEW s \in S, NEW t \in Linked PROVE LinkFirst(s, t) \in S
  <2>1. s \in Seq(NoteLine) /\ Fed(d, Unplaced, s) = Fed(d, Unplaced, ls)
    OBVIOUS
  <2> HIDE DEF d
  <2>2. LinkFirst(s, t) \in Seq(NoteLine) /\ Fed(d, Unplaced, LinkFirst(s, t)) = Fed(d, Unplaced, s)
    BY <2>1, PlaceLink DEF d
  <2> QED BY <2>1, <2>2
<1>3. Resolved(Entities, Names) \in Seq(Linked)
  BY ResolvedType, NoteEditsAssumption DEF Linked
<1> HIDE DEF S
<1>4. body \in S
  BY <1>1, <1>2, <1>3, MentionsIn
<1> QED BY <1>4 DEF S

\* The linker's section is below the text.
LEMMA PlaceAppend ==
  ASSUME NEW w, NEW ls \in Seq(NoteLine), NEW related \in Seq(Text)
  PROVE  Stray(Fed(PlaceReader(w), Unplaced, AppendRelated(ls, related)))
           <=> Stray(Fed(PlaceReader(w), Unplaced, ls))
<1> DEFINE K == {n \in DOMAIN related : related[n] \notin Unlinkable}
           names == Rendered(related)
           items == [n \in DOMAIN names |-> Item(names[n])]
           title == <<Blank, Heading(2, 0, RelatedNotes), Blank>>
           cut == TrimEnd(ls)
           new == cut \o title \o items
<1>1. AppendRelated(ls, related) = IF names = <<>> THEN ls ELSE new
  BY DEF AppendRelated
<1>2. names \in Seq(Text)
  <2>1. /\ Len(related) \in Nat /\ DOMAIN related = 1 .. Len(related)
        /\ \A i \in 1 .. Len(related) : i \in K => related[i] \in Text
    BY Whole
  <2> HIDE DEF K
  <2>2. Lines(related, K) \in Seq(Text)
    BY <2>1, LinesType
  <2> QED BY <2>2 DEF K, Rendered
<1> HIDE DEF names
<1>3. Len(names) \in Nat /\ DOMAIN names = 1 .. Len(names) /\ DOMAIN items = 1 .. Len(names)
  BY <1>2, Whole
<1>4. \A n \in 1 .. Len(names) : items[n] \in NoteLine /\ items[n].kind # "trans"
  <2> SUFFICES ASSUME NEW n \in 1 .. Len(names) PROVE items[n] \in NoteLine /\ items[n].kind # "trans"
    OBVIOUS
  <2>1. items[n] = Item(names[n]) /\ names[n] \in Text
    BY <1>2, <1>3
  <2> HIDE DEF items
  <2>2. items[n] \in NoteLine /\ items[n].kind = "item"
    BY <2>1, LineTypes, LineKinds
  <2> QED BY <2>2
<1>5. PICK its \in Seq(NoteLine) : its = items /\ \A n \in 1 .. Len(its) : its[n].kind # "trans"
  <2>1. items = [n \in 1 .. Len(names) |-> items[n]]
    BY <1>3
  <2> HIDE DEF items
  <2>2. items \in [1 .. Len(names) -> NoteLine]
    BY <1>4, <2>1
  <2>3. items \in Seq(NoteLine) /\ Len(items) = Len(names)
    BY <1>3, <2>2
  <2> QED BY <1>4, <2>3
<1>6. PICK t \in Seq(NoteLine) : t = title /\ \A n \in 1 .. Len(t) : t[n].kind # "trans"
  <2>0. RelatedNotes \in Text
    BY TextAssumption
  <2>1. /\ Heading(2, 0, RelatedNotes) \in NoteLine /\ Blank \in NoteLine
        /\ Blank.kind = "blank" /\ Heading(2, 0, RelatedNotes).kind = "head"
    BY <2>0, LineTypes, LineKinds
  <2>2. title \in Seq(NoteLine)
    BY <2>1
  <2>3. PICK t \in Seq(NoteLine) : t = title
    BY <2>2
  <2>4. Len(t) = 3 /\ t[1] = Blank /\ t[2] = Heading(2, 0, RelatedNotes) /\ t[3] = Blank
    BY <2>3
  <2>5. \A n \in 1 .. Len(t) : t[n].kind # "trans"
    BY <2>1, <2>4
  <2> QED BY <2>3, <2>5
<1> DEFINE Lost(s) == Stray(Fed(PlaceReader(w), Unplaced, s))
<1>7. cut \in Seq(NoteLine) /\ (Lost(cut) <=> Lost(ls))
  BY PlaceTrimEnd
<1> HIDE DEF cut, items, title, Lost
<1>8. cut \o t \in Seq(NoteLine) /\ (Lost(cut \o t) <=> Lost(cut))
  BY <1>6, <1>7, PlaceBelow DEF Lost
<1>9. PICK c \in Seq(NoteLine) : c = cut \o t
  BY <1>8, Zenon
<1>10. Lost(c \o its) <=> Lost(c)
  BY <1>5, PlaceBelow DEF Lost
<1>11. new = c \o its
  BY <1>5, <1>6, <1>9
<1> HIDE DEF new
<1>12. Lost(new) <=> Lost(ls)
  BY <1>7, <1>8, <1>9, <1>10, <1>11, Zenon
<1> QED BY <1>1, <1>12, Zenon DEF Lost

\* The linker.
LEMMA PlaceConnected ==
  ASSUME NEW ls \in Seq(NoteLine), NEW related \in Seq(Text), NEW b, Apart(ls), Laid(ls),
         b = AppendRelated(LinkMentions(StripRelated(ls), Resolved(Entities, Names)), related)
  PROVE  Laid(b)
<1> DEFINE body == LinkMentions(ls, Resolved(Entities, Names))
<1>1. StripRelated(ls) = ls
  <2>1. \A i \in DOMAIN ls : ls[i].kind = "head" => ls[i].text # RelatedNotes
    BY DEF Apart, Range
  <2> QED BY <2>1, StripCount
<1>2. b = AppendRelated(body, related)
  BY <1>1
<1>3. /\ body \in Seq(NoteLine)
      /\ \A w : Fed(PlaceReader(w), Unplaced, body) = Fed(PlaceReader(w), Unplaced, ls)
  BY PlaceMentions
<1> HIDE DEF body
<1>4. Stray(Fed(PlaceReader("number"), Unplaced, b)) <=> Stray(Fed(PlaceReader("number"), Unplaced, body))
  BY <1>2, <1>3, PlaceAppend
<1>5. Fed(PlaceReader("number"), Unplaced, body) = Fed(PlaceReader("number"), Unplaced, ls)
  BY <1>3
<1> QED BY <1>4, <1>5, Zenon DEF Laid

-----------------------------------------------------------------------------
(* That the transitions stay in their place.                               *)

LEMMA UnwovenFrom ==
  ASSUME NEW a \in Seq(NoteLine), NEW b \in Seq(NoteLine), Unwoven(a),
         \A l : l.kind = "trans" => Count(l, b) <= Count(l, a)
  PROVE  Unwoven(b)
<1> SUFFICES ASSUME NEW i \in DOMAIN b, b[i].kind = "trans" PROVE FALSE
  BY DEF Unwoven
<1> DEFINE l == b[i]
<1>1. l \in Range(b)
  BY DEF Range
<1>2. Count(l, b) > 0 /\ Count(l, b) <= Count(l, a)
  BY <1>1, CountMember
<1>3. Count(l, a) \in Nat /\ Count(l, b) \in Nat
  BY AtType
<1>4. l \in Range(a)
  BY <1>2, <1>3, CountMember
<1> QED BY <1>4 DEF Unwoven, Range

\* What a stage writes, as long as the note it held had its frontmatter.
LEMMA PlaceWritten ==
  ASSUME NEW b \in Seq(NoteLine), held.fm # NoFrontmatter
  PROVE  /\ Ordered(b) => Ordered(Normalise(Candidate(b)))
         /\ Laid(b) => Laid(Normalise(Candidate(b)))
<1>1. Candidate(b) = TrimEnd(b)
  BY DEF Candidate
<1>2. PICK cut \in Seq(NoteLine) : cut = TrimEnd(b)
  BY TrimEndCount
<1>3. ASSUME NEW w, ~Stray(Fed(PlaceReader(w), Unplaced, b))
      PROVE  ~Stray(Fed(PlaceReader(w), Unplaced, Normalise(cut)))
  <2>1. ~Stray(Fed(PlaceReader(w), Unplaced, cut))
    BY <1>2, <1>3, PlaceTrimEnd
  <2> QED BY <2>1, PlaceNormalise
<1>4. Ordered(b) => Ordered(Normalise(cut))
  BY <1>3 DEF Ordered
<1>5. Laid(b) => Laid(Normalise(cut))
  BY <1>3 DEF Laid
<1> QED BY <1>1, <1>2, <1>4, <1>5

\* What the user saves.
LEMMA PlaceSaved ==
  ASSUME NEW ls \in Seq(NoteLine), NEW m \in Text,
         NEW b \in {ls \o <<Blank, Para(m)>>, <<Para(m), Blank>> \o ls}
  PROVE  /\ Fresh(ls) => Fresh(b)
         /\ Ordered(ls) => Ordered(b)
         /\ Laid(ls) => Laid(b)
<1>1. b \in Seq(NoteLine) /\ \A l : l.kind \notin {"blank", "para"} => Count(l, b) = Count(l, ls)
  BY SavedText
<1>2. Fresh(ls) => Fresh(b)
  <2> SUFFICES ASSUME Unwoven(ls), PlainFences(ls) PROVE Unwoven(b) /\ PlainFences(b)
    BY DEF Fresh
  <2>1. PlainFences(b)
    BY PlainSaved
  <2>2. \A l : Count(l, ls) \in Nat
    BY AtType
  <2>3. \A l : l.kind = "trans" => Count(l, b) <= Count(l, ls)
    BY <1>1, <2>2
  <2>4. Unwoven(b)
    BY <1>1, <2>3, UnwovenFrom
  <2> QED BY <2>1, <2>4
<1>3. PICK p \in Seq(NoteLine) :
        p = <<Blank, Para(m)>> /\ \A i \in 1 .. Len(p) : p[i].kind \notin {"trans", "head", "fence"}
  <2>1. Blank \in NoteLine /\ Para(m) \in NoteLine /\ Blank.kind = "blank" /\ Para(m).kind = "para"
    BY LineTypes, LineKinds
  <2>2. \A x \in NoteLine, y \in NoteLine :
          /\ <<x, y>> \in Seq(NoteLine)
          /\ \A i \in 1 .. Len(<<x, y>>) : <<x, y>>[i] \in {x, y}
    OBVIOUS
  <2> QED BY <2>1, <2>2
<1>4. PICK q \in Seq(NoteLine) :
        q = <<Para(m), Blank>> /\ \A i \in 1 .. Len(q) : q[i].kind \notin {"trans", "head", "fence"}
  <2>1. Blank \in NoteLine /\ Para(m) \in NoteLine /\ Blank.kind = "blank" /\ Para(m).kind = "para"
    BY LineTypes, LineKinds
  <2>2. \A x \in NoteLine, y \in NoteLine :
          /\ <<x, y>> \in Seq(NoteLine)
          /\ \A i \in 1 .. Len(<<x, y>>) : <<x, y>>[i] \in {x, y}
    OBVIOUS
  <2> QED BY <2>1, <2>2
<1>5. b = ls \o p \/ b = q \o ls
  BY <1>3, <1>4
<1>6. ASSUME NEW w
      PROVE  Stray(Fed(PlaceReader(w), Unplaced, b)) <=> Stray(Fed(PlaceReader(w), Unplaced, ls))
  <2>1. Stray(Fed(PlaceReader(w), Unplaced, ls \o p)) <=> Stray(Fed(PlaceReader(w), Unplaced, ls))
    <3>1. \A i \in 1 .. Len(p) : p[i].kind # "trans"
      BY <1>3
    <3> QED BY <3>1, PlaceBelow
  <2>2. Fed(PlaceReader(w), Unplaced, q \o ls) = Fed(PlaceReader(w), Unplaced, ls)
    BY <1>4, PlaceAbove
  <2> QED BY <1>5, <2>1, <2>2, Zenon
<1> QED BY <1>2, <1>6 DEF Ordered, Laid

\* Who is not lost at the end never was.
LEMMA NeverStray ==
  ASSUME NEW w, NEW ls \in Seq(NoteLine), ~Stray(Fed(PlaceReader(w), Unplaced, ls)),
         NEW i \in 0 .. Len(ls)
  PROVE  ~Stray(Seen(PlaceReader(w), Unplaced, ls, i))
<1>1. Reader(PlaceReader(w), Watches) /\ Unplaced \in Watches
  BY PlaceReads
<1>2. PICK a \in Seq(NoteLine), b \in Seq(NoteLine) : a = SubSeq(ls, 1, i) /\ ls = a \o b
  <2>1. /\ SubSeq(ls, 1, i) \in Seq(NoteLine) /\ SubSeq(ls, i + 1, Len(ls)) \in Seq(NoteLine)
        /\ ls = SubSeq(ls, 1, i) \o SubSeq(ls, i + 1, Len(ls))
    BY CountCut
  <2> QED BY <2>1, Zenon
<1>3. PICK s \in Watches : s = Fed(PlaceReader(w), Unplaced, a)
  BY <1>1, FedConcat
<1>4. Fed(PlaceReader(w), Unplaced, a \o b) = Fed(PlaceReader(w), Fed(PlaceReader(w), Unplaced, a), b)
  BY <1>1, FedConcat
<1>5. ~Stray(Fed(PlaceReader(w), s, b))
  BY <1>2, <1>3, <1>4, Zenon
<1>6. ~Stray(s)
  BY <1>5, StrayStays
<1> QED BY <1>2, <1>3, <1>6 DEF Seen

\* Where the reader by number is not lost, every transition is below its heading.
LEMMA LaidPlaces ==
  ASSUME NEW ls \in Seq(NoteLine), Laid(ls), NEW i \in DOMAIN ls, ls[i].kind = "trans"
  PROVE  i - 2 \in Heads(ls, Strict) /\ ls[i - 2].num \in {0, ls[i].num}
<1> DEFINE d == PlaceReader("number")
           x(k) == Seen(d, Unplaced, ls, k)
<1>0. /\ Len(ls) \in Nat /\ DOMAIN ls = 1 .. Len(ls) /\ i \in 1 .. Len(ls)
      /\ Reader(d, Watches) /\ Unplaced \in Watches /\ Unplaced.at = "away" /\ Outside(Unplaced)
  BY Whole, PlaceReads
<1>1. \A k \in 0 .. Len(ls) : x(k).at # "lost"
  <2>1. ~Stray(Fed(d, Unplaced, ls))
    BY DEF Laid
  <2> QED BY <2>1, NeverStray DEF Stray
<1>2. ASSUME NEW k \in 1 .. Len(ls)
      PROVE  /\ ls[k] \in NoteLine
             /\ x(k).at = Stands("number", x(k - 1), ls[k])
             /\ x(k).mark = Marks("number", x(k - 1), ls[k])
  <2> HIDE DEF d
  <2>1. x(k - 1) \in Watches /\ ls[k] \in NoteLine /\ x(k) = d[<<x(k - 1), ls[k]>>]
    BY <1>0, SeenStep
  <2> HIDE DEF x
  <2> QED BY <2>1, PlaceReads DEF d
<1>3. x(0).at = "away"
  BY <1>0, SeenStep
<1>4. Prose(ls, Strict) = {k \in DOMAIN ls : ls[k].kind \notin Strict /\ Outside(x(k - 1))}
  <2> HIDE DEF d
  <2> QED BY <1>0, SeenProse
<1> HIDE DEF d, x
<1>5. Suits("number", x(i - 1), ls[i])
  <2>1. i \in 0 .. Len(ls)
    BY <1>0
  <2> QED BY <1>0, <1>1, <1>2, <2>1 DEF Stands
<1>6. /\ i - 1 \in 1 .. Len(ls) /\ x((i - 1) - 1).at = "head"
      /\ x((i - 1) - 1).mark \in {0, ls[i].num}
  <2>1. x(i - 1).at = "below" /\ x(i - 1).mark \in {0, ls[i].num}
    BY <1>5 DEF Suits
  <2>2. i - 1 # 0
    BY <1>3, <2>1
  <2>3. i - 1 \in 1 .. Len(ls)
    BY <1>0, <2>2
  <2>4. /\ ~Opens("number", x((i - 1) - 1), ls[i - 1]) /\ x((i - 1) - 1).at = "head"
    BY <1>2, <2>1, <2>3 DEF Stands
  <2>5. x((i - 1) - 1).mark = x(i - 1).mark
    BY <1>2, <2>3, <2>4 DEF Marks
  <2> QED BY <2>1, <2>3, <2>4, <2>5
<1>7. PICK k : k = i - 2 /\ k = (i - 1) - 1 /\ k \in 0 .. Len(ls)
  BY <1>0, <1>6
<1>8. k \in 1 .. Len(ls) /\ x(k).at = "head" /\ x(k).mark \in {0, ls[i].num}
  <2>1. k # 0
    BY <1>3, <1>6, <1>7
  <2> QED BY <1>0, <1>6, <1>7, <2>1
<1>9. Opens("number", x(k - 1), ls[k])
  BY <1>2, <1>8 DEF Stands
<1>10. ls[k].num \in {0, ls[i].num}
  BY <1>2, <1>8, <1>9 DEF Marks
<1>11. k \in Heads(ls, Strict)
  <2>1. ls[k].kind = "head" /\ Outside(x(k - 1))
    BY <1>9 DEF Opens
  <2>2. ls[k].kind \notin Strict
    BY <2>1 DEF Strict
  <2> QED BY <1>0, <1>4, <1>8, <2>1, <2>2 DEF Heads
<1> QED BY <1>7, <1>10, <1>11

\* Assembly makes a note without transitions.
LEMMA PlacedUnwoven ==
  ASSUME UnwovenChunks, NEW plan \in Plan, NEW chunks \in [DOMAIN plan -> Chunk]
  PROVE  Unwoven(Placed(plan, chunks))
<1> DEFINE S == {l \in NoteLine : l.kind # "trans"}
           all == Assembled(Topic, plan, chunks)
           cut == TrimEnd(all)
           safe == Unwrapped(cut, Names)
           full == Append(safe, Blank)
<1>1. plan \in Seq(Text) /\ Chunk \subseteq Seq(NoteLine)
  BY NoteEditsAssumption
<1>2. /\ S \subseteq NoteLine
      /\ \A ls : ls \in Seq(S) <=> ls \in Seq(NoteLine) /\ Unwoven(ls)
  <2>1. ASSUME NEW ls \in Seq(S) PROVE ls \in Seq(NoteLine) /\ Unwoven(ls)
    BY DEF Unwoven
  <2>2. ASSUME NEW ls \in Seq(NoteLine), Unwoven(ls) PROVE ls \in Seq(S)
    <3>1. \A i \in 1 .. Len(ls) : ls[i] \in S
      BY <2>2 DEF Unwoven
    <3> HIDE DEF S
    <3> QED BY <3>1
  <2> QED BY <2>1, <2>2
<1>3. Blank \in S /\ \A m \in {1, 2}, t \in Text : Heading(m, 0, t) \in S
  BY LineTypes, LineKinds
<1>4. \A l \in S : l.kind = "link" => Para(l.text) \in S
  <2>1. \A l \in NoteLine : l.text \in Text
    BY DEF NoteLine
  <2> QED BY <2>1, LineTypes, LineKinds
<1> HIDE DEF S
<1>5. ASSUME NEW i \in DOMAIN plan PROVE Trim(chunks[i]) \in Seq(S)
  <2>1. chunks[i] \in Seq(NoteLine) /\ Unwoven(chunks[i])
    BY <1>1 DEF UnwovenChunks
  <2>2. /\ Trim(chunks[i]) \in Seq(NoteLine)
        /\ \A l : Count(l, Trim(chunks[i])) <= Count(l, chunks[i])
    BY <2>1, TrimCount
  <2>3. Unwoven(Trim(chunks[i]))
    BY <2>1, <2>2, UnwovenFrom
  <2> QED BY <1>2, <2>2, <2>3
<1>6. all \in Seq(S)
  BY <1>1, <1>3, <1>5, AssembledIn
<1> HIDE DEF all
<1>7. cut \in Seq(S)
  <2>1. all \in Seq(NoteLine) /\ Unwoven(all)
    BY <1>2, <1>6
  <2>2. cut \in Seq(NoteLine) /\ \A l : Count(l, cut) <= Count(l, all)
    BY <2>1, TrimEndCount
  <2> HIDE DEF cut
  <2>3. Unwoven(cut)
    BY <2>1, <2>2, UnwovenFrom
  <2> QED BY <1>2, <2>2, <2>3
<1> HIDE DEF cut
<1>8. safe \in Seq(S)
  BY <1>4, <1>7, UnwrappedIn
<1> HIDE DEF safe
<1>9. full \in Seq(S)
  BY <1>3, <1>8
<1>10. full \in Seq(NoteLine) /\ Unwoven(full)
  BY <1>2, <1>9
<1>11. Placed(plan, chunks) = Normalise(full)
  BY DEF Placed, full, safe, cut, all
<1> HIDE DEF full
<1>12. /\ Normalise(full) \in Seq(NoteLine)
       /\ \A l : l # Blank /\ l # Rule => Count(l, Normalise(full)) = Count(l, full)
  BY <1>10, NormaliseCount
<1>13. \A l : l.kind = "trans" => l # Blank /\ l # Rule
  BY LineKinds
<1>14. \A l : Count(l, full) \in Nat
  BY <1>10, AtType
<1>15. \A l : l.kind = "trans" => Count(l, Normalise(full)) <= Count(l, full)
  BY <1>12, <1>13, <1>14
<1>16. Unwoven(Normalise(full))
  BY <1>10, <1>12, <1>15, UnwovenFrom
<1> QED BY <1>11, <1>16

LEMMA WorkPlace ==
  ASSUME Others, TocInv, PlaceInv, NEW b, Worked(b), FairPlace(b)
  PROVE  PlaceInv'
<1>1. /\ phase = "hold" /\ b \in Seq(NoteLine)
      /\ Go(After(stage)) \/ Writes(b)
      /\ placed' = placed /\ note' = note /\ bared' = bared
      /\ stage \in {"transitions", "formatting", "linking"}
      /\ note.body \in Seq(NoteLine)
  BY NoteParts DEF Worked, Others, Phases, user
<1>2. SUFFICES ASSUME PlainFences(placed), ~Clashes, ~bared
               PROVE  /\ stage' = "transitions" => Fresh(note.body)
                      /\ stage' = "transitions" /\ phase' = "hold" => Fresh(held'.body)
                      /\ stage' = "transitions" /\ phase' = "write" => Ordered(made'.body)
                      /\ stage' \in {"tags", "formatting"} => Ordered(note.body)
                      /\ stage' = "formatting" /\ phase' = "hold" => Ordered(held'.body)
                      /\ stage' = "formatting" /\ phase' = "write" => Laid(made'.body)
                      /\ stage' \in {"linking", "done"} => Laid(note.body)
                      /\ stage' = "linking" /\ phase' = "hold" => Laid(held'.body)
                      /\ stage' = "linking" /\ phase' = "write" => Laid(made'.body)
  <2>1. Clashes' = Clashes
    BY <1>1 DEF Clashes
  <2> QED BY <1>1, <2>1 DEF PlaceInv
<1>3. /\ stage = "transitions" => Fresh(note.body)
      /\ stage = "formatting" => Ordered(note.body) /\ Untabled(note.body)
      /\ stage = "linking" => Laid(note.body)
  BY <1>2 DEF PlaceInv, TocInv
<1>4. /\ stage = "transitions" => Ordered(b)
      /\ stage # "transitions" => Laid(b)
  BY <1>2 DEF FairPlace
<1>5. CASE Go(After(stage))
  <2>1. /\ stage = "transitions" => Ordered(note.body)
        /\ stage = "formatting" => Laid(note.body)
    BY <1>1, <1>3, UnwovenOrdered, OrderLaid DEF Fresh
  <2> QED BY <1>1, <1>3, <1>5, <2>1, Afters DEF Go
<1>6. CASE Writes(b)
  <2>1. held.fm # NoFrontmatter
    BY <1>1, <1>2, FmTypes DEF Others, Fielded
  <2>2. /\ Ordered(b) => Ordered(Normalise(Candidate(b)))
        /\ Laid(b) => Laid(Normalise(Candidate(b)))
    BY <1>1, <2>1, PlaceWritten
  <2>3. stage' = stage /\ phase' = "write" /\ made'.body = Normalise(Candidate(b))
    BY <1>6 DEF Writes
  <2> QED BY <1>1, <1>3, <1>4, <2>2, <2>3
<1> QED BY <1>1, <1>5, <1>6

LEMMA WeavePlaces ==
  ASSUME Others, TocInv, PlaceInv, Weave
  PROVE  PlaceInv'
<1>1. /\ Phases /\ stage = "transitions" /\ phase = "hold"
      /\ UNCHANGED <<placed, note, user>> /\ linked' = linked /\ linked \subseteq Names
  BY DEF Others, Weave, Phases, TypeOK
<1>2. held.body \in Seq(NoteLine)
  BY <1>1, HeldNote
<1>3. PlainFences(placed) /\ ~Clashes /\ ~bared => Fresh(held.body)
  BY <1>1 DEF PlaceInv
<1>4. PICK sections : SpliceAccepted(sections)
  BY DEF Weave
<1>5. CASE sections = {}
  <2>1. Go(After(stage))
    BY <1>1, <1>4, <1>5, Afters DEF SpliceAccepted
  <2>2. Worked(held.body)
    BY <1>1, <1>2, <2>1 DEF Worked
  <2>3. FairPlace(held.body)
    BY <1>1, <1>2, <1>3, UnwovenOrdered DEF FairPlace, Fresh
  <2> QED BY <2>2, <2>3, WorkPlace
<1>6. CASE sections # {}
  <2> DEFINE b == Splice(held.body, sections)
  <2>1. WriteBack(b)
    BY <1>4, <1>6 DEF SpliceAccepted
  <2>2. b \in Seq(NoteLine) /\ (Fresh(held.body) => Ordered(b))
    BY <1>2, WovenText, PlaceSpliced DEF Fresh
  <2> HIDE DEF b
  <2>3. Worked(b)
    BY <1>1, <2>1, <2>2, WriteBackWrites DEF Worked
  <2>4. FairPlace(b)
    BY <1>1, <1>3, <2>2 DEF FairPlace
  <2> QED BY <2>3, <2>4, WorkPlace
<1> QED BY <1>5, <1>6

LEMMA FormatPlaces ==
  ASSUME Others, TocInv, PlaceInv, Format
  PROVE  PlaceInv'
<1>1. /\ Phases /\ stage = "formatting" /\ phase = "hold"
      /\ UNCHANGED <<placed, note, user>> /\ linked' = linked /\ linked \subseteq Names
  BY DEF Others, Format, Phases, TypeOK
<1>2. held.body \in Seq(NoteLine)
  BY <1>1, HeldNote
<1>3. PlainFences(placed) /\ ~Clashes /\ ~bared => Ordered(held.body) /\ Untabled(held.body)
  BY <1>1 DEF PlaceInv, TocInv
<1> DEFINE b == ApplyStructure(held.body)
<1>4. CASE b = held.body
  <2>1. Go(After(stage))
    BY <1>1, <1>4, Afters DEF Format
  <2>2. Worked(held.body)
    BY <1>1, <1>2, <2>1 DEF Worked
  <2>3. FairPlace(held.body)
    BY <1>1, <1>2, <1>3, OrderLaid DEF FairPlace
  <2> QED BY <2>2, <2>3, WorkPlace
<1>5. CASE b # held.body
  <2>1. WriteBack(b)
    BY <1>5 DEF Format
  <2>2. b \in Seq(NoteLine)
    BY <1>2, FormattedText
  <2>3. PlainFences(placed) /\ ~Clashes /\ ~bared => Laid(b)
    BY <1>2, <1>3, PlaceStructure
  <2> HIDE DEF b
  <2>4. Worked(b)
    BY <1>1, <2>1, <2>2, WriteBackWrites DEF Worked
  <2>5. FairPlace(b)
    BY <1>1, <2>3 DEF FairPlace
  <2> QED BY <2>4, <2>5, WorkPlace
<1> QED BY <1>4, <1>5

LEMMA ConnectPlaces ==
  ASSUME Others, TocInv, PlaceInv, Connect
  PROVE  PlaceInv'
<1> DEFINE bare == StripRelated(held.body)
           body == LinkMentions(bare, Resolved(Entities, Names))
           fresh == {n \in Names : Link(n) \in Range(body) \ Range(bare)}
<1>1. /\ Phases /\ stage = "linking" /\ phase = "hold"
      /\ UNCHANGED <<placed, note, user>> /\ linked \subseteq Names
  BY DEF Others, Connect, Phases, TypeOK
<1>2. held.body \in Seq(NoteLine)
  BY <1>1, HeldNote
<1>3. PlainFences(placed) /\ ~Clashes /\ ~bared => Apart(held.body) /\ Laid(held.body)
  BY <1>1 DEF PlaceInv, Others, Headed
<1>4. PICK related \in Related :
        IF fresh = {} /\ Rendered(related) = <<>>
        THEN Go("done") /\ UNCHANGED linked
        ELSE /\ WriteBack(AppendRelated(body, related))
             /\ linked' = IF phase' = "write" THEN fresh ELSE {}
  BY DEF Connect
<1>5. related \in Seq(Text)
  BY NoteEditsAssumption
<1>6. CASE fresh = {} /\ Rendered(related) = <<>>
  <2>1. Go(After(stage)) /\ linked' = linked
    BY <1>1, <1>4, <1>6, Afters
  <2>2. Worked(held.body)
    BY <1>1, <1>2, <2>1 DEF Worked
  <2>3. FairPlace(held.body)
    BY <1>1, <1>3 DEF FairPlace
  <2> QED BY <2>2, <2>3, WorkPlace
<1>7. CASE ~(fresh = {} /\ Rendered(related) = <<>>)
  <2> DEFINE b == AppendRelated(body, related)
  <2>1. WriteBack(b) /\ linked' = IF phase' = "write" THEN fresh ELSE {}
    BY <1>4, <1>7
  <2>2. linked' \subseteq Names
    BY <2>1
  <2>3. b = AppendRelated(LinkMentions(StripRelated(held.body), Resolved(Entities, Names)), related)
    OBVIOUS
  <2> HIDE DEF b, body, bare, fresh
  <2>4. b \in Seq(NoteLine)
    BY <1>2, <1>5, <2>3, ConnectedText
  <2>5. PlainFences(placed) /\ ~Clashes /\ ~bared => Laid(b)
    BY <1>2, <1>3, <1>5, <2>3, PlaceConnected
  <2>6. Worked(b)
    BY <1>1, <2>1, <2>2, <2>4, WriteBackWrites DEF Worked
  <2>7. FairPlace(b)
    BY <1>1, <2>5 DEF FairPlace
  <2> QED BY <2>6, <2>7, WorkPlace
<1> QED BY <1>6, <1>7

LEMMA StepPlaces ==
  ASSUME IInv, TocInv, PlaceInv, [Next]_vars
  PROVE  PlaceInv'
<1>0. Others /\ placed \in Seq(NoteLine)
  BY DEF IInv, Others, Phases
<1>1. ASSUME UNCHANGED placed PROVE Clashes' = Clashes
  BY <1>1 DEF Clashes
<1>2. CASE Read
  <2>1. /\ stage \in {"transitions", "formatting", "linking"} /\ phase = "read"
        /\ held' = note /\ phase' = "hold"
        /\ UNCHANGED <<placed, note, stage, made, linked, edits, saved, bared>>
    BY <1>2 DEF Read, user
  <2> QED BY <1>1, <2>1 DEF PlaceInv
<1>3. CASE Weave
  BY <1>0, <1>3, WeavePlaces
<1>4. CASE WriteTags
  <2>1. PICK tags \in {"[]", "some"} : note' = [note EXCEPT !.fm = Tagged(note.fm, tags)]
    BY <1>4 DEF WriteTags
  <2>2. /\ stage = "tags" /\ stage' = "formatting" /\ phase' = "read"
        /\ UNCHANGED <<placed, bared>>
    BY <1>4 DEF WriteTags, Go, user
  <2>3. note'.body = note.body
    <3>1. \A x : [note EXCEPT !.fm = x].body = note.body
      BY <1>0 DEF Others, Phases, Note
    <3> QED BY <2>1, <3>1
  <2> QED BY <1>1, <2>2, <2>3 DEF PlaceInv
<1>5. CASE Format
  BY <1>0, <1>5, FormatPlaces
<1>6. CASE Connect
  BY <1>0, <1>6, ConnectPlaces
<1>7. CASE Place
  <2>1. /\ phase = "write" /\ note' = made /\ stage' = After(stage) /\ phase' = "read"
        /\ UNCHANGED <<placed, bared>>
    BY <1>7 DEF Place, Go, user
  <2>2. stage \in {"transitions", "formatting", "linking"}
    BY <1>0, <2>1 DEF Others, Phases
  <2> QED BY <1>1, <2>1, <2>2, Afters DEF PlaceInv
<1>8. CASE AddBelow \/ AddAbove
  <2> DEFINE m == Mine[edits + 1]
             below == note.body \o <<Blank, Para(m)>>
             above == <<Para(m), Blank>> \o note.body
  <2>1. PICK b \in {below, above} :
          /\ CanSave /\ note' = [note EXCEPT !.body = b]
          /\ UNCHANGED <<placed, stage, phase, held, made, bared>>
    BY <1>8 DEF AddBelow, AddAbove, Save, run
  <2>2. m \in Text
    <3>1. edits \in 0 .. MaxEdits /\ edits < MaxEdits
      BY <1>0, <2>1 DEF Others, Phases, TypeOK, CanSave
    <3>2. MaxEdits \in 0 .. Len(Mine) /\ Mine \in Seq(Text) /\ Len(Mine) \in Nat
      BY NoteEditsAssumption
    <3>3. edits + 1 \in 1 .. Len(Mine)
      BY <3>1, <3>2
    <3> QED BY <3>2, <3>3
  <2>3. note \in Note /\ note.body \in Seq(NoteLine)
    BY <1>0, NoteParts DEF Others, Phases
  <2> HIDE DEF m
  <2>4. b \in Seq(NoteLine)
    BY <2>2, <2>3, SavedText
  <2>5. /\ Fresh(note.body) => Fresh(b)
        /\ Ordered(note.body) => Ordered(b)
        /\ Laid(note.body) => Laid(b)
    BY <2>2, <2>3, PlaceSaved
  <2> HIDE DEF below, above
  <2>6. note'.body = b
    BY <2>1, <2>3, <2>4, NoteParts
  <2> QED BY <1>1, <2>1, <2>5, <2>6 DEF PlaceInv
<1>9. CASE AddField \/ DropFrontmatter
  <2>1. UNCHANGED <<placed, stage, phase, held, made>> /\ (~bared' => ~bared)
    BY <1>9 DEF AddField, DropFrontmatter, run
  <2>2. note'.body = note.body
    <3>1. \A x \in Note : \A fm : [x EXCEPT !.fm = fm].body = x.body
      BY DEF Note
    <3>2. \E fm : note' = [note EXCEPT !.fm = fm]
      <4>1. CASE AddField
        <5>1. note' = [note EXCEPT !.fm.own = TRUE]
          BY <4>1 DEF AddField
        <5>2. note' = [note EXCEPT !.fm = [note.fm EXCEPT !.own = TRUE]]
          BY <5>1
        <5> QED BY <5>2
      <4>2. CASE DropFrontmatter
        BY <4>2 DEF DropFrontmatter
      <4> QED BY <1>9, <4>1, <4>2
    <3> QED BY <1>0, <3>1, <3>2 DEF Others, Phases
  <2> QED BY <1>1, <2>1, <2>2 DEF PlaceInv
<1>10. CASE UNCHANGED vars
  <2>1. UNCHANGED <<placed, note, stage, phase, held, made, bared>>
    BY <1>10 DEF vars, run, user
  <2> QED BY <1>1, <2>1 DEF PlaceInv
<1> QED BY <1>2, <1>3, <1>4, <1>5, <1>6, <1>7, <1>8, <1>9, <1>10 DEF Next, Stage, User

\* Until the note loses its frontmatter, the transition of section n stands right below
\* the heading of section n and outside code (splice_transitions, apply_structure,
\* normalise_markdown, _write_back): the weaver counts the sections as the formatter
\* will number them, and no later stage and no save of the user comes between.
THEOREM TransitionsStay ==
  PlainChunks /\ SafeIsSafe /\ UnwovenChunks => (Spec => []TransitionsInPlace)
<1> SUFFICES ASSUME PlainChunks, SafeIsSafe, UnwovenChunks PROVE Spec => []TransitionsInPlace
  OBVIOUS
<1>1. Init => TocInv
  BY InitToc
<1>2. Init => PlaceInv
  <2> SUFFICES ASSUME Init PROVE PlaceInv
    OBVIOUS
  <2>1. /\ stage = "transitions" /\ phase = "read"
        /\ note = [fm |-> [tags |-> "[]", own |-> FALSE], body |-> placed]
    BY DEF Init
  <2>2. note.body = placed
    BY <2>1
  <2>3. Unwoven(placed)
    BY PlacedUnwoven DEF Init
  <2> QED BY <2>1, <2>2, <2>3 DEF PlaceInv, Fresh
<1>3. IInv /\ TocInv /\ [Next]_vars => TocInv'
  BY StepToc
<1>4. IInv /\ TocInv /\ PlaceInv /\ [Next]_vars => PlaceInv'
  BY StepPlaces
<1>5. IInv /\ TocInv /\ PlaceInv => TransitionsInPlace
  <2> SUFFICES ASSUME IInv, TocInv, PlaceInv, PlainFences(placed), ~Clashes, ~bared,
                      NEW i \in DOMAIN note.body, note.body[i].kind = "trans"
               PROVE  /\ i - 2 \in Heads(note.body, Strict)
                      /\ note.body[i - 2].num \in {0, note.body[i].num}
    BY DEF TransitionsInPlace
  <2>1. /\ note.body \in Seq(NoteLine)
        /\ stage \in {"transitions", "tags", "formatting", "linking", "done"}
    BY NoteParts DEF IInv, Phases, TypeOK
  <2>2. Laid(note.body)
    <3>1. CASE stage = "transitions"
      <4>1. Fresh(note.body)
        BY <3>1 DEF PlaceInv
      <4> QED BY <4>1 DEF Fresh, Unwoven
    <3>2. CASE stage \in {"tags", "formatting"}
      <4>1. Ordered(note.body) /\ Untabled(note.body)
        BY <3>2 DEF PlaceInv, TocInv
      <4> QED BY <2>1, <4>1, OrderLaid
    <3>3. CASE stage \in {"linking", "done"}
      BY <3>3 DEF PlaceInv
    <3> QED BY <2>1, <3>1, <3>2, <3>3
  <2> QED BY <2>1, <2>2, LaidPlaces
<1> QED BY <1>1, <1>2, <1>3, <1>4, <1>5, Invariant, PTL DEF Spec
=============================================================================
