--------------------------- MODULE EventBus_proofs ---------------------------
(***************************************************************************)
(* No blocking event is lost and every emitter is heard in order, for any  *)
(* emitters, subscribers and capacity, with waits, wake-ups and            *)
(* cancellations in every order.                                           *)
(***************************************************************************)
EXTENDS EventBus, SequenceTheorems, NaturalsInduction, WellFoundedInduction, TLAPS

Distinct(s) == \A i, j \in DOMAIN s : s[i] = s[j] => i = j
Waits(q, t) == \E i \in DOMAIN q : q[i] = t
Waiting(t) == pc[t] \in {"parked", "woken"}

\* A queue is subscribed once, and nothing is put in one that is not subscribed.
SubsInv ==
  /\ Distinct(subs)
  /\ \A s \in Sub : log[s] # <<>> => Waits(subs, s)

\* The putters ps of a queue are the tasks p parks at it, each once.
Queues(p, ps, a) ==
  /\ p \in [Task -> {"idle", "parked", "woken", "closed"}]
  /\ ps \in [Sub -> Seq(Task)]
  /\ \A s \in Sub : Distinct(ps[s])
  /\ \A s \in Sub, t \in Task : Waits(ps[s], t) <=> p[t] = "parked" /\ subs[a[t]] = s

\* A task that waits has an event of its own in hand, and one that may not be skipped.
ItemInv ==
  \A t \in Task : Waiting(t) =>
    /\ at[t] > 0
    /\ item[t].by = t /\ item[t].seq <= seq /\ item[t].kind \notin LogMessage
    /\ item[t].audience <= Len(subs)

\* What a task has put where it has yet to go is older than what it holds.
OrderInv ==
  /\ EmitterOrder
  /\ \A s \in Sub : \A i \in DOMAIN log[s] : log[s][i].seq <= seq
  /\ \A t \in Task : Waiting(t) =>
       \A m \in at[t] .. Len(subs) : \A i \in DOMAIN log[subs[m]] :
         log[subs[m]][i].by = t => log[subs[m]][i].seq < item[t].seq
  /\ pc[Closer] = "idle" => \A s \in Sub : \A i \in DOMAIN log[s] : log[s][i].by # Closer

\* What a task holds it has put in every queue it has passed.
DeliveredInv ==
  /\ \A t \in Task : Waiting(t) =>
       \A m \in 1 .. at[t] - 1 : m <= item[t].audience => Waits(log[subs[m]], item[t])
  /\ \A x \in sent : x.kind \notin LogMessage =>
       x.audience <= Len(subs) /\ \A m \in 1 .. x.audience : Waits(log[subs[m]], x)

IInv ==
  TypeOK /\ SubsInv /\ Queues(pc, putters, at) /\ ItemInv /\ OrderInv /\ DeliveredInv
-----------------------------------------------------------------------------
\* Facts about queues.
LEMMA AppendAt ==
  ASSUME NEW S, NEW q \in Seq(S), NEW e \in S
  PROVE  /\ Append(q, e) \in Seq(S)
         /\ Len(Append(q, e)) = Len(q) + 1 /\ Len(q) \in Nat
         /\ DOMAIN q = 1 .. Len(q) /\ DOMAIN Append(q, e) = 1 .. Len(q) + 1
         /\ Append(q, e)[Len(q) + 1] = e
         /\ \A i \in 1 .. Len(q) : Append(q, e)[i] = q[i]
OBVIOUS

LEMMA WaitsAppend ==
  ASSUME NEW S, NEW q \in Seq(S), NEW e \in S
  PROVE  \A u : Waits(Append(q, e), u) <=> Waits(q, u) \/ u = e
<1>1. \A i \in 1 .. Len(q) + 1 : i \in 1 .. Len(q) \/ i = Len(q) + 1
  BY AppendAt
<1>2. Len(q) + 1 \in 1 .. Len(q) + 1 /\ \A i \in 1 .. Len(q) : i \in 1 .. Len(q) + 1
  BY AppendAt
<1> QED BY <1>1, <1>2, AppendAt DEF Waits

LEMMA QueueGrows ==
  ASSUME NEW S, NEW q \in Seq(S), NEW e \in S, Distinct(q), ~Waits(q, e)
  PROVE  Distinct(Append(q, e))
<1>1. \A i \in 1 .. Len(q) + 1 : i \in 1 .. Len(q) \/ i = Len(q) + 1
  BY AppendAt
<1>2. \A i \in 1 .. Len(q) : q[i] # e
  BY AppendAt DEF Waits
<1> QED BY <1>1, <1>2, AppendAt DEF Distinct

LEMMA QueueMoves ==
  ASSUME NEW S, NEW q \in Seq(S), Distinct(q), q # <<>>
  PROVE  /\ Tail(q) \in Seq(S) /\ Distinct(Tail(q)) /\ Waits(q, Head(q)) /\ Head(q) \in S
         /\ \A u : Waits(Tail(q), u) <=> Waits(q, u) /\ u # Head(q)
<1>1. /\ DOMAIN q = 1 .. Len(q) /\ DOMAIN Tail(q) = 1 .. Len(q) - 1 /\ Len(q) \in Nat \ {0}
      /\ Tail(q) \in Seq(S) /\ \A i \in 1 .. Len(q) - 1 : Tail(q)[i] = q[i + 1]
      /\ Head(q) = q[1] /\ Head(q) \in S
  OBVIOUS
<1>2. /\ \A i \in 1 .. Len(q) - 1 : i + 1 \in 1 .. Len(q) /\ i + 1 # 1 /\ i \in Int
      /\ \A i \in 1 .. Len(q) : i # 1 => i - 1 \in 1 .. Len(q) - 1 /\ (i - 1) + 1 = i
      /\ 1 \in 1 .. Len(q)
  BY <1>1
<1>3. Distinct(Tail(q))
  BY <1>1, <1>2 DEF Distinct
<1>4. ASSUME NEW u, Waits(Tail(q), u) PROVE Waits(q, u) /\ u # Head(q)
  BY <1>1, <1>2, <1>4 DEF Waits, Distinct
<1>5. ASSUME NEW u, Waits(q, u), u # Head(q) PROVE Waits(Tail(q), u)
  <2>1. PICK i \in 1 .. Len(q) : q[i] = u
    BY <1>1, <1>5 DEF Waits
  <2>2. i - 1 \in 1 .. Len(q) - 1 /\ Tail(q)[i - 1] = u
    BY <1>1, <1>2, <1>5, <2>1
  <2> QED BY <1>1, <2>2 DEF Waits
<1>6. Waits(q, Head(q))
  BY <1>1, <1>2 DEF Waits
<1> QED BY <1>1, <1>3, <1>4, <1>5, <1>6

\* A cancelled putter leaves the queue, wherever it stood.
LEMMA QueueLeft ==
  ASSUME NEW S, NEW q \in Seq(S), NEW t, Distinct(q)
  PROVE  /\ RemoveFirst(q, t) \in Seq(S) /\ Distinct(RemoveFirst(q, t))
         /\ \A u : Waits(RemoveFirst(q, t), u) <=> Waits(q, u) /\ u # t
<1>1. DOMAIN q = 1 .. Len(q) /\ Len(q) \in Nat
  OBVIOUS
<1>2. CASE ~Waits(q, t)
  <2>1. RemoveFirst(q, t) = q
    BY <1>1, <1>2 DEF RemoveFirst, Waits
  <2> QED BY <1>2, <2>1
<1>3. CASE Waits(q, t)
  <2>1. PICK n \in 1 .. Len(q) : q[n] = t
    BY <1>1, <1>3 DEF Waits
  <2>2. \A i \in 1 .. Len(q) : q[i] = t <=> i = n
    BY <1>1, <2>1 DEF Distinct
  <2>3. SelectInSeq(q, LAMBDA v : v = t) = n
    <3>1. {i \in 1 .. Len(q) : q[i] = t} = {n}
      BY <2>2
    <3>2. Min({n}) = n
      BY <1>1 DEF Min
    <3> QED BY <3>1, <3>2 DEF SelectInSeq
  <2>4. RemoveFirst(q, t) = SubSeq(q, 1, n - 1) \o SubSeq(q, n + 1, Len(q))
    BY <2>1, <2>3 DEF RemoveFirst, RemoveAt
  <2> DEFINE r == SubSeq(q, 1, n - 1) \o SubSeq(q, n + 1, Len(q))
  <2>5. /\ r \in Seq(S) /\ Len(r) = Len(q) - 1 /\ DOMAIN r = 1 .. Len(q) - 1
        /\ \A i \in 1 .. Len(q) - 1 : r[i] = q[IF i < n THEN i ELSE i + 1]
    <3> DEFINE front == SubSeq(q, 1, n - 1)
               rest == SubSeq(q, n + 1, Len(q))
    <3>1. /\ front \in Seq(S) /\ Len(front) = n - 1
          /\ \A i \in 1 .. n - 1 : front[i] = q[i]
      BY <1>1, <2>1
    <3>2. /\ rest \in Seq(S) /\ Len(rest) = Len(q) - n
          /\ \A i \in 1 .. Len(q) - n : rest[i] = q[n + i]
      <4>1. \A i \in n + 1 .. Len(q) : q[i] \in S
        BY <1>1, <2>1
      <4>2. n + 1 \in Int /\ Len(q) \in Int /\ n \in Int
        BY <1>1, <2>1
      <4> HIDE DEF rest
      <4>3. /\ rest \in Seq(S)
            /\ Len(rest) = IF n + 1 <= Len(q) THEN Len(q) - (n + 1) + 1 ELSE 0
            /\ \A i \in 1 .. Len(q) - (n + 1) + 1 : rest[i] = q[n + 1 + i - 1]
        BY <4>1, <4>2, SubSeqProperties DEF rest
      <4>4. \A i \in 1 .. Len(q) - n : i \in 1 .. Len(q) - (n + 1) + 1 /\ n + 1 + i - 1 = n + i
        BY <4>2
      <4>5. Len(rest) = Len(q) - n
        <5>1. n <= Len(q)
          BY <1>1, <2>1
        <5>2. CASE n + 1 <= Len(q)
          BY <4>2, <4>3, <5>2
        <5>3. CASE ~(n + 1 <= Len(q))
          <6>1. Len(rest) = 0 /\ Len(q) - n = 0
            BY <4>2, <4>3, <5>1, <5>3
          <6> QED BY <6>1
        <5> QED BY <5>2, <5>3
      <4>6. \A i \in 1 .. Len(q) - n : rest[i] = q[n + i]
        BY <4>3, <4>4
      <4> QED BY <4>3, <4>5, <4>6
    <3> HIDE DEF r, front, rest
    <3>3. /\ r \in Seq(S) /\ Len(r) = Len(q) - 1
          /\ \A i \in 1 .. Len(q) - 1 : r[i] = IF i <= n - 1 THEN front[i] ELSE rest[i - (n - 1)]
      <4>1. r = front \o rest
        BY DEF r, front, rest
      <4>2. Len(front) + Len(rest) = Len(q) - 1
        BY <1>1, <2>1, <3>1, <3>2
      <4>3. /\ front \o rest \in Seq(S) /\ Len(front \o rest) = Len(front) + Len(rest)
            /\ \A i \in 1 .. Len(front) + Len(rest) :
                 (front \o rest)[i] = IF i <= Len(front) THEN front[i] ELSE rest[i - Len(front)]
        BY <3>1, <3>2, ConcatProperties
      <4> QED BY <3>1, <4>1, <4>2, <4>3
    <3>4. ASSUME NEW i \in 1 .. Len(q) - 1 PROVE r[i] = q[IF i < n THEN i ELSE i + 1]
      <4>1. CASE i < n
        BY <1>1, <3>1, <3>3, <4>1
      <4>2. CASE i >= n
        <5>1. i - (n - 1) \in 1 .. Len(q) - n /\ n + (i - (n - 1)) = i + 1
          BY <1>1, <4>2
        <5>2. ~(i <= n - 1) /\ ~(i < n)
          BY <1>1, <4>2
        <5> QED BY <3>2, <3>3, <5>1, <5>2
      <4> QED BY <1>1, <4>1, <4>2
    <3> QED BY <1>1, <3>3, <3>4
  <2> HIDE DEF r
  <2> DEFINE back(i) == IF i < n THEN i ELSE i + 1
  <2>6. \A i \in 1 .. Len(q) - 1 : back(i) \in 1 .. Len(q) /\ back(i) # n
    BY <1>1
  <2>7. \A i, k \in 1 .. Len(q) - 1 : back(i) = back(k) => i = k
    BY <1>1
  <2>8. \A k \in 1 .. Len(q) : k # n => \E i \in 1 .. Len(q) - 1 : back(i) = k
    <3> TAKE k \in 1 .. Len(q)
    <3> HAVE k # n
    <3>1. CASE k < n
      <4>1. k \in 1 .. Len(q) - 1 /\ back(k) = k
        BY <1>1, <3>1
      <4> QED BY <4>1
    <3>2. CASE k > n
      <4>1. k - 1 \in 1 .. Len(q) - 1 /\ back(k - 1) = k
        BY <1>1, <3>2
      <4> QED BY <4>1
    <3> QED BY <1>1, <3>1, <3>2
  <2>9. \A i \in 1 .. Len(q) - 1 : r[i] = q[back(i)]
    BY <2>5
  <2> HIDE DEF back
  <2>10. Distinct(r)
    BY <1>1, <2>5, <2>6, <2>7, <2>9 DEF Distinct
  <2>11. ASSUME NEW u, Waits(r, u) PROVE Waits(q, u) /\ u # t
    BY <1>1, <2>2, <2>5, <2>6, <2>9, <2>11 DEF Waits
  <2>12. ASSUME NEW u, Waits(q, u), u # t PROVE Waits(r, u)
    <3>1. PICK k \in 1 .. Len(q) : q[k] = u
      BY <1>1, <2>12 DEF Waits
    <3>2. PICK i \in 1 .. Len(q) - 1 : back(i) = k
      BY <2>2, <2>8, <2>12, <3>1
    <3> QED BY <2>5, <2>9, <3>1, <3>2 DEF Waits
  <2> QED BY <2>4, <2>5, <2>10, <2>11, <2>12 DEF r
<1> QED BY <1>2, <1>3
-----------------------------------------------------------------------------
\* The for loop of emit() and close(): where it stops, and what it has put by then.
LEMMA LeastNat ==
  ASSUME NEW T, T \subseteq Nat, T # {}
  PROVE  \E n \in T : \A m \in T : n <= m
<1>1. PICK n \in T : \A m \in T : ~(<<m, n>> \in OpToRel(<, Nat))
  BY NatLessThanWellFounded, WFMin
<1>2. \A m \in T : ~(m < n)
  BY <1>1 DEF OpToRel
<1> QED BY <1>2

LEMMA WalkStops ==
  ASSUME TypeOK, NEW x, NEW i \in 1 .. Len(subs) + 1
  PROVE  /\ StopsAt(x, i) \in i .. Len(subs) + 1
         /\ Blocks(x, StopsAt(x, i))
         /\ \A k \in i .. StopsAt(x, i) - 1 : ~Blocks(x, k)
<1> DEFINE T == {j \in i .. Len(subs) + 1 : Blocks(x, j)}
<1>0. Len(subs) \in Nat /\ i \in Nat /\ i <= Len(subs) + 1
  BY DEF TypeOK
<1>1. T \subseteq Nat
  <2>1. \A j \in i .. Len(subs) + 1 : j \in Nat
    BY <1>0
  <2> QED BY <2>1
<1>2. Len(subs) + 1 \in T
  BY <1>0 DEF Blocks
<1> HIDE DEF T
<1>3. PICK n \in T : \A m \in T : n <= m
  BY <1>1, <1>2, LeastNat
<1>4. n \in i .. Len(subs) + 1 /\ Blocks(x, n) /\ n \in Int
  BY <1>1, <1>3 DEF T
<1>5. ASSUME NEW k \in i .. n - 1 PROVE ~Blocks(x, k)
  <2>1. k \in i .. Len(subs) + 1 /\ ~(n <= k)
    BY <1>0, <1>4
  <2> QED BY <1>3, <2>1 DEF T
<1>6. \E j \in i .. Len(subs) + 1 : Blocks(x, j) /\ \A k \in i .. j - 1 : ~Blocks(x, k)
  BY <1>4, <1>5
<1> QED BY <1>6 DEF StopsAt

LEMMA WalkFacts ==
  ASSUME TypeOK, SubsInv, NEW t \in Task, NEW x \in Item, NEW i \in 1 .. Len(subs) + 1,
         NEW j, j = StopsAt(x, i), Walk(t, x, i)
  PROVE  /\ j \in i .. Len(subs) + 1
         /\ log' \in [Sub -> Seq(Item)]
         /\ \A s \in Sub : \/ log'[s] = log[s]
                           \/ /\ log'[s] = Append(log[s], x) /\ ~Full(s)
                              /\ \E m \in i .. j - 1 : s = subs[m]
         /\ \A m \in j .. Len(subs) : log'[subs[m]] = log[subs[m]]
         /\ x.kind \notin LogMessage => \A m \in i .. j - 1 : log'[subs[m]] = Append(log[subs[m]], x)
         /\ j <= Len(subs) => x.kind \notin LogMessage
<1> DEFINE reached == {subs[k] : k \in i .. j - 1}
<1>0. /\ Len(subs) \in Nat /\ DOMAIN subs = 1 .. Len(subs) /\ i \in Nat
      /\ \A m \in 1 .. Len(subs) : subs[m] \in Sub
  BY DEF TypeOK
<1>1. j \in i .. Len(subs) + 1 /\ Blocks(x, j) /\ \A k \in i .. j - 1 : ~Blocks(x, k)
  BY WalkStops
<1>2. \A s \in Sub : log'[s] = IF s \in reached /\ ~Full(s) THEN Append(log[s], x) ELSE log[s]
  BY DEF Walk
<1>3. log' \in [Sub -> Seq(Item)]
  <2>1. \A s \in Sub : log[s] \in Seq(Item) /\ Append(log[s], x) \in Seq(Item)
    BY DEF TypeOK
  <2>2. log' = [s \in Sub |-> IF s \in reached /\ ~Full(s) THEN Append(log[s], x) ELSE log[s]]
    BY DEF Walk
  <2> HIDE DEF reached
  <2> QED BY <2>1, <2>2
<1>4. ASSUME NEW m \in j .. Len(subs) PROVE log'[subs[m]] = log[subs[m]]
  <2>1. m \in 1 .. Len(subs) /\ subs[m] \in Sub
    BY <1>0, <1>1
  <2>2. \A k \in i .. j - 1 : k \in 1 .. Len(subs) /\ k # m
    BY <1>0, <1>1
  <2>3. \A k \in i .. j - 1 : subs[k] # subs[m]
    BY <1>0, <2>1, <2>2 DEF SubsInv, Distinct
  <2> QED BY <1>2, <2>1, <2>3
<1>5. ASSUME x.kind \notin LogMessage, NEW m \in i .. j - 1
      PROVE  log'[subs[m]] = Append(log[subs[m]], x)
  <2>1. m \in 1 .. Len(subs) /\ subs[m] \in Sub /\ ~Blocks(x, m) /\ subs[m] \in reached
    BY <1>0, <1>1
  <2>2. ~Full(subs[m])
    BY <1>5, <2>1 DEF Blocks, Droppable
  <2> QED BY <1>2, <2>1, <2>2
<1>6. j <= Len(subs) => x.kind \notin LogMessage
  BY <1>0, <1>1 DEF Blocks, Droppable
<1> QED BY <1>1, <1>2, <1>3, <1>4, <1>5, <1>6

\* A log only grows, by one item at most.
LEMMA WalkGrows ==
  ASSUME TypeOK, SubsInv, NEW t \in Task, NEW x \in Item, NEW i \in 1 .. Len(subs) + 1, Walk(t, x, i)
  PROVE  \A s \in Sub :
           /\ \A u : Waits(log[s], u) => Waits(log'[s], u)
           /\ \A n \in DOMAIN log'[s] :
                \/ n \in DOMAIN log[s] /\ log'[s][n] = log[s][n]
                \/ /\ log'[s] = Append(log[s], x) /\ n = Len(log[s]) + 1 /\ log'[s][n] = x
                   /\ \E m \in i .. Len(subs) : s = subs[m]
<1> SUFFICES ASSUME NEW s \in Sub
             PROVE  /\ \A u : Waits(log[s], u) => Waits(log'[s], u)
                    /\ \A n \in DOMAIN log'[s] :
                         \/ n \in DOMAIN log[s] /\ log'[s][n] = log[s][n]
                         \/ /\ log'[s] = Append(log[s], x) /\ n = Len(log[s]) + 1 /\ log'[s][n] = x
                            /\ \E m \in i .. Len(subs) : s = subs[m]
  OBVIOUS
<1>1. log[s] \in Seq(Item) /\ Len(subs) \in Nat /\ i \in Nat
  BY DEF TypeOK
<1>2. CASE log'[s] = log[s]
  BY <1>2
<1>3. ASSUME log'[s] = Append(log[s], x), \E m \in i .. StopsAt(x, i) - 1 : s = subs[m]
      PROVE  /\ \A u : Waits(log[s], u) => Waits(log'[s], u)
             /\ \A n \in DOMAIN log'[s] :
                  \/ n \in DOMAIN log[s] /\ log'[s][n] = log[s][n]
                  \/ /\ log'[s] = Append(log[s], x) /\ n = Len(log[s]) + 1 /\ log'[s][n] = x
                     /\ \E m \in i .. Len(subs) : s = subs[m]
  <2>1. StopsAt(x, i) \in i .. Len(subs) + 1
    BY WalkStops
  <2>2. \E m \in i .. Len(subs) : s = subs[m]
    BY <1>1, <1>3, <2>1
  <2>3. \A u : Waits(log[s], u) => Waits(log'[s], u)
    BY <1>1, <1>3, WaitsAppend
  <2>4. \A n \in DOMAIN log'[s] : \/ n \in DOMAIN log[s] /\ log'[s][n] = log[s][n]
                                  \/ n = Len(log[s]) + 1 /\ log'[s][n] = x
    BY <1>1, <1>3, AppendAt
  <2> QED BY <1>3, <2>2, <2>3, <2>4
<1> QED BY <1>2, <1>3, WalkFacts

\* Where the walking task is afterwards, and who waits for whom.
LEMMA WalkTask ==
  ASSUME IInv, NEW t \in Task, pc[t] \in {"idle", "woken"}, NEW x \in Item,
         NEW i \in 1 .. Len(subs) + 1, NEW j, j = StopsAt(x, i), Walk(t, x, i), subs' = subs
  PROVE  /\ j \in i .. Len(subs) + 1
         /\ Queues(pc, putters, at)'
         /\ at' \in [Task -> 0 .. Len(subs)] /\ item' \in [Task -> Item] /\ item'[t] = x
         /\ \A u \in Task \ {t} : pc'[u] = pc[u] /\ at'[u] = at[u] /\ item'[u] = item[u]
         /\ \/ pc'[t] = "parked" /\ at'[t] = j /\ j <= Len(subs) /\ sent' = sent
            \/ /\ pc'[t] = IF t = Closer THEN "closed" ELSE "idle"
               /\ j = Len(subs) + 1 /\ sent' = sent \cup {x}
<1>0. /\ j \in i .. Len(subs) + 1 /\ Len(subs) \in Nat /\ i \in Nat /\ i > 0
      /\ \A m \in 1 .. Len(subs) : subs[m] \in Sub
      /\ Queues(pc, putters, at)
  BY WalkStops DEF IInv, TypeOK
<1>1. item' \in [Task -> Item] /\ item'[t] = x /\ \A u \in Task \ {t} : item'[u] = item[u]
  BY DEF Walk, IInv, TypeOK
<1>2. CASE /\ j <= Len(subs)
           /\ pc' = [pc EXCEPT ![t] = "parked"] /\ at' = [at EXCEPT ![t] = j]
           /\ putters' = [putters EXCEPT ![subs[j]] = Append(@, t)] /\ UNCHANGED sent
  <2>1. j \in 1 .. Len(subs) /\ subs[j] \in Sub
    BY <1>0, <1>2
  <2>2. at' \in [Task -> 0 .. Len(subs)] /\ at'[t] = j /\ \A u \in Task \ {t} : at'[u] = at[u]
    <3>1. j \in 0 .. Len(subs) /\ at \in [Task -> 0 .. Len(subs)]
      BY <1>0, <2>1 DEF IInv, TypeOK
    <3> QED BY <1>2, <3>1
  <2>3. /\ pc' \in [Task -> {"idle", "parked", "woken", "closed"}] /\ pc'[t] = "parked"
        /\ \A u \in Task \ {t} : pc'[u] = pc[u]
    BY <1>2 DEF IInv, TypeOK
  <2> DEFINE q == putters[subs[j]]
  <2>4. q \in Seq(Task) /\ Distinct(q) /\ \A s \in Sub : ~Waits(putters[s], t)
    BY <1>0, <2>1 DEF Queues
  <2>5. /\ Append(q, t) \in Seq(Task) /\ Distinct(Append(q, t))
        /\ \A u : Waits(Append(q, t), u) <=> Waits(q, u) \/ u = t
    BY <2>1, <2>4, QueueGrows, WaitsAppend, AppendAt
  <2>6. \A s \in Sub : putters'[s] = IF s = subs[j] THEN Append(q, t) ELSE putters[s]
    BY <1>2, <2>1 DEF IInv, TypeOK
  <2>7. putters' \in [Sub -> Seq(Task)]
    BY <1>2, <2>1, <2>5 DEF IInv, TypeOK
  <2> HIDE DEF q
  <2>8. ASSUME NEW s \in Sub, NEW u \in Task
        PROVE  Waits(putters'[s], u) <=> pc'[u] = "parked" /\ subs'[at'[u]] = s
    <3>1. CASE u = t
      BY <2>2, <2>3, <2>4, <2>5, <2>6, <3>1 DEF q
    <3>2. CASE u # t
      <4>1. Waits(putters'[s], u) <=> Waits(putters[s], u)
        BY <2>5, <2>6, <3>2 DEF q
      <4>2. Waits(putters[s], u) <=> pc[u] = "parked" /\ subs[at[u]] = s
        BY <1>0 DEF Queues
      <4> QED BY <2>2, <2>3, <3>2, <4>1, <4>2
    <3> QED BY <3>1, <3>2
  <2>9. \A s \in Sub : Distinct(putters'[s])
    BY <1>0, <2>5, <2>6 DEF Queues
  <2>10. Queues(pc, putters, at)'
    BY <2>3, <2>7, <2>8, <2>9 DEF Queues
  <2> QED BY <1>0, <1>1, <1>2, <2>2, <2>3, <2>10
<1>3. CASE /\ j > Len(subs)
           /\ pc' = [pc EXCEPT ![t] = IF t = Closer THEN "closed" ELSE "idle"]
           /\ at' = [at EXCEPT ![t] = 0] /\ sent' = sent \cup {x} /\ UNCHANGED putters
  <2>1. at' \in [Task -> 0 .. Len(subs)] /\ \A u \in Task \ {t} : at'[u] = at[u]
    BY <1>0, <1>3 DEF IInv, TypeOK
  <2>2. /\ pc' \in [Task -> {"idle", "parked", "woken", "closed"}]
        /\ pc'[t] = IF t = Closer THEN "closed" ELSE "idle"
        /\ \A u \in Task \ {t} : pc'[u] = pc[u]
    BY <1>3 DEF IInv, TypeOK
  <2>3. Queues(pc, putters, at)'
    <3>1. ASSUME NEW s \in Sub, NEW u \in Task
          PROVE  Waits(putters[s], u) <=> pc'[u] = "parked" /\ subs[at'[u]] = s
      <4>1. Waits(putters[s], u) <=> pc[u] = "parked" /\ subs[at[u]] = s
        BY <1>0 DEF Queues
      <4> QED BY <2>1, <2>2, <4>1
    <3> QED BY <1>0, <1>3, <2>2, <3>1 DEF Queues
  <2>4. j = Len(subs) + 1
    BY <1>0, <1>3
  <2> QED BY <1>0, <1>1, <1>3, <2>1, <2>2, <2>3, <2>4
<1> QED BY <1>2, <1>3 DEF Walk

\* The walk of an event that is younger than all its task has put ahead of it.
LEMMA WalkInv ==
  ASSUME IInv, NEW t \in Task, pc[t] \in {"idle", "woken"}, NEW x \in Item,
         NEW i \in 1 .. Len(subs) + 1, Walk(t, x, i), UNCHANGED <<subs, taken>>,
         seq' \in 0 .. MaxSeq, seq <= seq',
         x.by = t, x.seq <= seq', x.audience <= Len(subs),
         \A m \in i .. Len(subs) : \A n \in DOMAIN log[subs[m]] :
           log[subs[m]][n].by = t => log[subs[m]][n].seq < x.seq,
         \A m \in 1 .. i - 1 : m <= x.audience => Waits(log[subs[m]], x)
  PROVE  IInv'
<1> DEFINE j == StopsAt(x, i)
<1>0. /\ Len(subs) \in Nat /\ DOMAIN subs = 1 .. Len(subs) /\ i \in Nat /\ i > 0
      /\ \A m \in 1 .. Len(subs) : subs[m] \in Sub
      /\ seq \in Nat /\ seq' \in Nat /\ x.seq \in Nat /\ x.audience \in Nat
      /\ \A s \in Sub : log[s] \in Seq(Item) /\ DOMAIN log[s] = 1 .. Len(log[s]) /\ Len(log[s]) \in Nat
  <2>1. x.seq \in Nat /\ x.audience \in Nat
    BY BusAssumption DEF Item
  <2>2. \A s \in Sub : log[s] \in Seq(Item) /\ DOMAIN log[s] = 1 .. Len(log[s]) /\ Len(log[s]) \in Nat
    BY DEF IInv, TypeOK
  <2>3. /\ Len(subs) \in Nat /\ DOMAIN subs = 1 .. Len(subs) /\ i \in Nat /\ i > 0
        /\ \A m \in 1 .. Len(subs) : subs[m] \in Sub
        /\ seq \in Nat /\ seq' \in Nat
    BY BusAssumption DEF IInv, TypeOK
  <2> QED BY <2>1, <2>2, <2>3
<1>1. /\ j \in i .. Len(subs) + 1
      /\ log' \in [Sub -> Seq(Item)]
      /\ \A s \in Sub : log'[s] = log[s] \/ (log'[s] = Append(log[s], x) /\ ~Full(s))
      /\ \A m \in j .. Len(subs) : log'[subs[m]] = log[subs[m]]
      /\ x.kind \notin LogMessage => \A m \in i .. j - 1 : log'[subs[m]] = Append(log[subs[m]], x)
      /\ j <= Len(subs) => x.kind \notin LogMessage
  BY WalkFacts DEF IInv
<1>2. \A s \in Sub :
        /\ \A u : Waits(log[s], u) => Waits(log'[s], u)
        /\ \A n \in DOMAIN log'[s] :
             \/ n \in DOMAIN log[s] /\ log'[s][n] = log[s][n]
             \/ /\ log'[s] = Append(log[s], x) /\ n = Len(log[s]) + 1 /\ log'[s][n] = x
                /\ \E m \in i .. Len(subs) : s = subs[m]
  BY WalkGrows DEF IInv
<1>3. /\ Queues(pc, putters, at)'
      /\ at' \in [Task -> 0 .. Len(subs)] /\ item' \in [Task -> Item] /\ item'[t] = x
      /\ \A u \in Task \ {t} : pc'[u] = pc[u] /\ at'[u] = at[u] /\ item'[u] = item[u]
      /\ \/ pc'[t] = "parked" /\ at'[t] = j /\ j <= Len(subs) /\ sent' = sent
         \/ /\ pc'[t] = IF t = Closer THEN "closed" ELSE "idle"
            /\ j = Len(subs) + 1 /\ sent' = sent \cup {x}
  BY WalkTask
<1> HIDE DEF j
<1>4. /\ \A u \in Task \ {t} : Waiting(u)' <=> Waiting(u)
      /\ Waiting(t)' <=> pc'[t] = "parked"
      /\ Waiting(t)' => at'[t] = j /\ j <= Len(subs) /\ x.kind \notin LogMessage
  BY <1>1, <1>3 DEF Waiting
<1>5. TypeOK'
  <2>1. ASSUME NEW s \in Sub PROVE taken[s] <= Len(log'[s]) /\ Len(log'[s]) - taken[s] <= Capacity
    <3>1. taken[s] \in Nat /\ taken[s] <= Len(log[s]) /\ Len(log[s]) - taken[s] <= Capacity /\ Capacity \in Nat
      BY BusAssumption DEF IInv, TypeOK
    <3>2. CASE log'[s] = Append(log[s], x) /\ ~Full(s)
      <4>1. Len(log'[s]) = Len(log[s]) + 1
        BY <1>0, <3>2, AppendAt
      <4> QED BY <1>0, <3>1, <3>2, <4>1 DEF Full
    <3> QED BY <1>1, <3>1, <3>2
  <2>2. sent' \subseteq Item /\ subs' \in Seq(Sub) /\ taken' \in [Sub -> Nat]
    BY <1>3 DEF IInv, TypeOK
  <2> QED BY <1>1, <1>3, <2>1, <2>2 DEF TypeOK, Queues
<1>6. SubsInv'
  <2>1. ASSUME NEW s \in Sub, log'[s] # <<>> PROVE Waits(subs, s)
    <3>1. CASE log[s] # <<>>
      BY <3>1 DEF IInv, SubsInv
    <3>2. CASE log[s] = <<>>
      <4>1. 1 \in DOMAIN log'[s]
        BY <1>1, <2>1
      <4>2. PICK m \in i .. Len(subs) : s = subs[m]
        BY <1>2, <3>2, <4>1
      <4> QED BY <1>0, <4>2 DEF Waits
    <3> QED BY <3>1, <3>2
  <2> QED BY <2>1 DEF IInv, SubsInv
<1>7. ItemInv'
  <2>1. ASSUME NEW u \in Task, Waiting(u)'
        PROVE  /\ at'[u] > 0 /\ item'[u].by = u /\ item'[u].seq <= seq' /\ item'[u].kind \notin LogMessage
               /\ item'[u].audience <= Len(subs)
    <3>1. CASE u = t
      BY <1>0, <1>1, <1>3, <1>4, <2>1, <3>1
    <3>2. CASE u # t
      <4>1. Waiting(u) /\ at'[u] = at[u] /\ item'[u] = item[u] /\ item[u].seq \in Nat
        BY <1>3, <1>4, <2>1, <3>2 DEF IInv, TypeOK, Item
      <4> QED BY <1>0, <4>1 DEF IInv, ItemInv
    <3> QED BY <3>1, <3>2
  <2> QED BY <2>1 DEF ItemInv
<1>8. OrderInv'
  <2>1. ASSUME NEW s \in Sub, NEW n \in 1 .. Len(log'[s]), NEW m \in 1 .. n - 1,
               log'[s][m].by = log'[s][n].by
        PROVE  log'[s][m].seq < log'[s][n].seq
    <3>1. DOMAIN log'[s] = 1 .. Len(log'[s]) /\ Len(log'[s]) \in Nat
      BY <1>1
    <3>2. m \in DOMAIN log'[s] /\ n \in DOMAIN log'[s] /\ m < n /\ m \in Nat /\ n \in Nat
      BY <3>1
    <3>3. CASE n \in DOMAIN log[s] /\ log'[s][n] = log[s][n]
      <4>1. m \in 1 .. n - 1 /\ n \in 1 .. Len(log[s]) /\ m \in DOMAIN log[s] /\ m # Len(log[s]) + 1
        BY <1>0, <3>2, <3>3
      <4>2. log'[s][m] = log[s][m]
        BY <1>2, <3>2, <4>1
      <4> QED BY <2>1, <3>3, <4>1, <4>2 DEF IInv, OrderInv, EmitterOrder
    <3>4. CASE /\ n = Len(log[s]) + 1 /\ log'[s][n] = x
               /\ \E k \in i .. Len(subs) : s = subs[k]
      <4>1. m \in DOMAIN log[s] /\ m # Len(log[s]) + 1
        BY <1>0, <3>2, <3>4
      <4>2. log'[s][m] = log[s][m]
        BY <1>2, <3>2, <4>1
      <4> QED BY <2>1, <3>4, <4>1, <4>2
    <3> QED BY <1>2, <3>2, <3>3, <3>4
  <2>2. ASSUME NEW s \in Sub, NEW n \in DOMAIN log'[s] PROVE log'[s][n].seq <= seq'
    <3>1. CASE n \in DOMAIN log[s] /\ log'[s][n] = log[s][n]
      <4>1. log[s][n] \in Item /\ log[s][n].seq <= seq
        BY <1>0, <3>1 DEF IInv, OrderInv
      <4>2. log[s][n].seq \in Nat
        BY <4>1 DEF Item
      <4> QED BY <1>0, <3>1, <4>1, <4>2
    <3> QED BY <1>2, <3>1
  <2>3. ASSUME NEW u \in Task, Waiting(u)', NEW m \in at'[u] .. Len(subs),
               NEW n \in DOMAIN log'[subs[m]], log'[subs[m]][n].by = u
        PROVE  log'[subs[m]][n].seq < item'[u].seq
    <3>1. at'[u] \in Nat /\ at'[u] > 0
      BY <1>3, <1>7, <2>3 DEF ItemInv
    <3>2. m \in 1 .. Len(subs) /\ subs[m] \in Sub
      BY <1>0, <3>1
    <3>3. CASE u = t
      <4>1. m \in j .. Len(subs) /\ m \in i .. Len(subs) /\ log'[subs[m]] = log[subs[m]]
        BY <1>0, <1>1, <1>4, <2>3, <3>3
      <4> QED BY <1>3, <2>3, <3>3, <4>1
    <3>4. CASE u # t
      <4>1. Waiting(u) /\ at'[u] = at[u] /\ item'[u] = item[u]
        BY <1>3, <1>4, <2>3, <3>4
      <4>2. n \in DOMAIN log[subs[m]] /\ log'[subs[m]][n] = log[subs[m]][n]
        BY <1>2, <2>3, <3>2, <3>4
      <4>3. m \in at[u] .. Len(subs) /\ log[subs[m]][n].by = u
        BY <2>3, <4>1, <4>2
      <4>4. log[subs[m]][n].seq < item[u].seq
        BY <4>1, <4>2, <4>3 DEF IInv, OrderInv
      <4> QED BY <4>1, <4>2, <4>4
    <3> QED BY <3>3, <3>4
  <2>4. ASSUME pc'[Closer] = "idle", NEW s \in Sub, NEW n \in DOMAIN log'[s]
        PROVE  log'[s][n].by # Closer
    <3>1. t # Closer /\ pc[Closer] = "idle"
      BY <1>3, <2>4 DEF Task
    <3>2. CASE n \in DOMAIN log[s] /\ log'[s][n] = log[s][n]
      BY <3>1, <3>2 DEF IInv, OrderInv
    <3> QED BY <1>2, <3>1, <3>2
  <2>5. EmitterOrder'
    BY <2>1 DEF EmitterOrder
  <2> QED BY <2>2, <2>3, <2>4, <2>5 DEF OrderInv
<1>9. DeliveredInv'
  <2>1. ASSUME x.kind \notin LogMessage, NEW m \in 1 .. j - 1, m <= x.audience PROVE Waits(log'[subs[m]], x)
    <3>1. m \in 1 .. Len(subs) /\ subs[m] \in Sub
      BY <1>0, <1>1
    <3>2. CASE m \in 1 .. i - 1
      BY <1>2, <2>1, <3>1, <3>2
    <3>3. CASE m \in i .. j - 1
      <4>1. log'[subs[m]] = Append(log[subs[m]], x) /\ log[subs[m]] \in Seq(Item)
        BY <1>0, <1>1, <2>1, <3>1, <3>3
      <4> QED BY <4>1, WaitsAppend
    <3> QED BY <1>0, <1>1, <3>2, <3>3
  <2>2. ASSUME NEW u \in Task, Waiting(u)', NEW m \in 1 .. at'[u] - 1, m <= item'[u].audience
        PROVE  Waits(log'[subs[m]], item'[u])
    <3>1. CASE u = t
      BY <1>3, <1>4, <2>1, <2>2, <3>1
    <3>2. CASE u # t
      <4>1. Waiting(u) /\ at'[u] = at[u] /\ item'[u] = item[u] /\ at[u] \in 0 .. Len(subs)
        BY <1>3, <1>4, <2>2, <3>2 DEF IInv, TypeOK
      <4>2. m \in 1 .. Len(subs) /\ subs[m] \in Sub
        BY <1>0, <4>1
      <4>3. Waits(log[subs[m]], item[u])
        BY <2>2, <4>1 DEF IInv, DeliveredInv
      <4> QED BY <1>2, <4>1, <4>2, <4>3
    <3> QED BY <3>1, <3>2
  <2>3. ASSUME NEW y \in sent', y.kind \notin LogMessage
        PROVE  y.audience <= Len(subs) /\ \A m \in 1 .. y.audience : Waits(log'[subs[m]], y)
    <3>1. CASE y \in sent
      <4>1. y.audience <= Len(subs) /\ \A m \in 1 .. y.audience : Waits(log[subs[m]], y)
        BY <2>3, <3>1 DEF IInv, DeliveredInv
      <4>2. y.audience \in Nat
        BY <3>1 DEF IInv, TypeOK, Item
      <4>3. \A m \in 1 .. y.audience : subs[m] \in Sub
        BY <1>0, <4>1, <4>2
      <4> QED BY <1>2, <4>1, <4>3
    <3>2. CASE y = x /\ j = Len(subs) + 1
      <4>1. \A m \in 1 .. x.audience : m \in 1 .. j - 1 /\ m <= x.audience
        BY <1>0, <3>2
      <4> QED BY <2>1, <2>3, <3>2, <4>1
    <3> QED BY <1>3, <2>3, <3>1, <3>2
  <2> QED BY <2>2, <2>3 DEF DeliveredInv
<1> QED BY <1>3, <1>5, <1>6, <1>7, <1>8, <1>9 DEF IInv
-----------------------------------------------------------------------------
\* The steps that walk.
LEMMA EmitInv ==
  ASSUME IInv, NEW t \in Emitter, Emit(t)
  PROVE  IInv'
<1>1. PICK kind \in Kind \ {"sentinel"} :
        Walk(t, [seq |-> seq + 1, kind |-> kind, by |-> t, audience |-> Len(subs)], 1)
  BY DEF Emit
<1> DEFINE x == [seq |-> seq + 1, kind |-> kind, by |-> t, audience |-> Len(subs)]
<1>2. /\ t \in Task /\ pc[t] = "idle" /\ seq \in Nat /\ Len(subs) \in Nat /\ seq + 1 \in 0 .. MaxSeq
      /\ seq' = seq + 1 /\ UNCHANGED <<subs, taken>> /\ 1 \in 1 .. Len(subs) + 1
  BY BusAssumption DEF Emit, Task, IInv, TypeOK
<1>3. x \in Item /\ x.by = t /\ x.seq = seq + 1 /\ x.audience = Len(subs)
  BY <1>1, <1>2 DEF Item
<1> HIDE DEF x
<1>4. ASSUME NEW m \in 1 .. Len(subs), NEW n \in DOMAIN log[subs[m]]
      PROVE  log[subs[m]][n].seq < seq + 1
  <2>1. subs[m] \in Sub
    BY DEF IInv, TypeOK
  <2>2. log[subs[m]][n] \in Item /\ log[subs[m]][n].seq <= seq
    BY <2>1 DEF IInv, TypeOK, OrderInv
  <2>3. log[subs[m]][n].seq \in Nat
    BY <2>2, BusAssumption DEF Item
  <2> QED BY <1>2, <2>2, <2>3
<1>5. Walk(t, x, 1)
  BY <1>1 DEF x
<1>6. /\ seq' \in 0 .. MaxSeq /\ seq <= seq' /\ x.seq <= seq' /\ x.audience <= Len(subs)
      /\ \A m \in 1 .. 1 - 1 : m <= x.audience => Waits(log[subs[m]], x)
  BY <1>2, <1>3
<1> QED BY <1>2, <1>3, <1>4, <1>5, <1>6, WalkInv

LEMMA CloseInv ==
  ASSUME IInv, Close
  PROVE  IInv'
<1> DEFINE x == [NoItem EXCEPT !.audience = Len(subs)]
<1>1. /\ Closer \in Task /\ pc[Closer] = "idle" /\ Walk(Closer, x, 1) /\ UNCHANGED <<seq, subs, taken>>
      /\ seq \in 0 .. MaxSeq /\ seq \in Nat /\ Len(subs) \in Nat /\ 1 \in 1 .. Len(subs) + 1
  BY BusAssumption DEF Close, Task, IInv, TypeOK
<1>2. x = [seq |-> 0, kind |-> "sentinel", by |-> Closer, audience |-> Len(subs)]
  BY DEF NoItem
<1>3. x \in Item /\ x.by = Closer /\ x.seq = 0 /\ x.audience = Len(subs)
  BY <1>1, <1>2, BusAssumption DEF Item, Kind
<1> HIDE DEF x
<1>4. ASSUME NEW m \in 1 .. Len(subs), NEW n \in DOMAIN log[subs[m]]
      PROVE  log[subs[m]][n].by # Closer
  <2>1. subs[m] \in Sub
    BY DEF IInv, TypeOK
  <2> QED BY <1>1, <2>1 DEF IInv, OrderInv
<1>5. /\ seq' \in 0 .. MaxSeq /\ seq <= seq' /\ x.seq <= seq' /\ x.audience <= Len(subs)
      /\ \A m \in 1 .. 1 - 1 : m <= x.audience => Waits(log[subs[m]], x)
  BY <1>1, <1>3
<1> QED BY <1>1, <1>3, <1>4, <1>5, WalkInv

LEMMA ResumeInv ==
  ASSUME IInv, NEW t \in Task, Resume(t)
  PROVE  IInv'
<1>1. /\ pc[t] = "woken" /\ Waiting(t) /\ Walk(t, item[t], at[t]) /\ UNCHANGED <<seq, subs, taken>>
  BY DEF Resume, Waiting
<1>2. /\ item[t] \in Item /\ at[t] \in 1 .. Len(subs) + 1 /\ seq \in 0 .. MaxSeq /\ seq \in Nat
      /\ item[t].by = t /\ item[t].seq <= seq /\ item[t].audience <= Len(subs)
  <2>1. at[t] \in 0 .. Len(subs) /\ Len(subs) \in Nat /\ item[t] \in Item /\ seq \in 0 .. MaxSeq
    BY DEF IInv, TypeOK
  <2>2. at[t] > 0 /\ item[t].by = t /\ item[t].seq <= seq /\ item[t].audience <= Len(subs)
    BY <1>1 DEF IInv, ItemInv
  <2> QED BY <2>1, <2>2, BusAssumption
<1>3. /\ \A m \in at[t] .. Len(subs) : \A n \in DOMAIN log[subs[m]] :
           log[subs[m]][n].by = t => log[subs[m]][n].seq < item[t].seq
      /\ \A m \in 1 .. at[t] - 1 : m <= item[t].audience => Waits(log[subs[m]], item[t])
  BY <1>1 DEF IInv, OrderInv, DeliveredInv
<1>4. seq' \in 0 .. MaxSeq /\ seq <= seq' /\ item[t].seq <= seq'
  BY <1>1, <1>2
<1> QED BY <1>1, <1>2, <1>3, <1>4, WalkInv
-----------------------------------------------------------------------------
\* The steps that only wake, or leave.
LEMMA SubscribeInv ==
  ASSUME IInv, NEW s \in Sub, Subscribe(s)
  PROVE  IInv'
<1>1. /\ subs' = Append(subs, s) /\ UNCHANGED <<seq, log, taken, putters, pc, at, item, sent>>
      /\ ~Waits(subs, s)
  BY DEF Subscribe, ToSet, Waits
<1>2. /\ subs \in Seq(Sub) /\ subs' \in Seq(Sub) /\ Len(subs) \in Nat /\ Len(subs') = Len(subs) + 1
      /\ DOMAIN subs = 1 .. Len(subs) /\ \A m \in 1 .. Len(subs) : subs'[m] = subs[m]
      /\ subs'[Len(subs) + 1] = s
  BY <1>1, AppendAt DEF IInv, TypeOK
<1>3. log[s] = <<>>
  BY <1>1 DEF IInv, SubsInv
<1>4. /\ at \in [Task -> 0 .. Len(subs)] /\ \A t \in Task : at[t] \in Nat
      /\ \A t \in Task : Waiting(t) => at[t] \in 1 .. Len(subs)
      /\ \A t \in Task : item[t].audience \in Nat
  <2>1. at \in [Task -> 0 .. Len(subs)] /\ \A t \in Task : item[t] \in Item
    BY DEF IInv, TypeOK
  <2>2. \A t \in Task : Waiting(t) => at[t] > 0
    BY DEF IInv, ItemInv
  <2> QED BY <1>2, <2>1, <2>2 DEF Item
<1>5. \A t \in Task : Waiting(t)' <=> Waiting(t)
  BY <1>1 DEF Waiting
<1>6. TypeOK'
  <2>1. at' \in [Task -> 0 .. Len(subs')]
    <3>1. \A t \in Task : at[t] \in 0 .. Len(subs')
      BY <1>2, <1>4
    <3> QED BY <1>1, <1>4, <3>1
  <2> QED BY <1>1, <1>2, <2>1 DEF IInv, TypeOK
<1>7. SubsInv'
  <2>1. Distinct(subs')
    BY <1>1, <1>2, QueueGrows DEF IInv, SubsInv
  <2>2. \A u : Waits(subs, u) => Waits(subs', u)
    BY <1>1, <1>2, WaitsAppend
  <2> QED BY <1>1, <2>1, <2>2 DEF IInv, SubsInv
<1>8. Queues(pc, putters, at)'
  <2>1. ASSUME NEW q \in Sub, NEW t \in Task
        PROVE  Waits(putters[q], t) <=> pc[t] = "parked" /\ subs'[at[t]] = q
    <3>1. Waits(putters[q], t) <=> pc[t] = "parked" /\ subs[at[t]] = q
      BY DEF IInv, Queues
    <3>2. pc[t] = "parked" => subs'[at[t]] = subs[at[t]]
      BY <1>2, <1>4 DEF Waiting
    <3> QED BY <3>1, <3>2
  <2> QED BY <1>1, <2>1 DEF IInv, Queues
<1>9. ItemInv'
  <2>1. \A t \in Task : item[t].audience <= Len(subs) => item[t].audience <= Len(subs')
    BY <1>2, <1>4
  <2> QED BY <1>1, <1>5, <2>1 DEF IInv, ItemInv
<1>10. OrderInv'
  <2>1. ASSUME NEW t \in Task, Waiting(t), NEW m \in at[t] .. Len(subs'),
               NEW n \in DOMAIN log[subs'[m]], log[subs'[m]][n].by = t
        PROVE  log[subs'[m]][n].seq < item[t].seq
    <3>1. m \in at[t] .. Len(subs) \/ m = Len(subs) + 1
      BY <1>2, <1>4
    <3>2. CASE m \in at[t] .. Len(subs)
      <4>1. subs'[m] = subs[m]
        BY <1>2, <1>4, <2>1, <3>2
      <4> QED BY <2>1, <3>2, <4>1 DEF IInv, OrderInv
    <3>3. CASE m = Len(subs) + 1
      <4>1. DOMAIN log[subs'[m]] = {}
        BY <1>2, <1>3, <3>3
      <4> QED BY <4>1
    <3> QED BY <3>1, <3>2, <3>3
  <2> QED BY <1>1, <1>5, <2>1 DEF IInv, OrderInv, EmitterOrder
<1>11. DeliveredInv'
  <2>1. ASSUME NEW t \in Task, Waiting(t), NEW m \in 1 .. at[t] - 1, m <= item[t].audience
        PROVE  Waits(log[subs'[m]], item[t])
    <3>1. subs'[m] = subs[m]
      BY <1>2, <1>4, <2>1
    <3> QED BY <2>1, <3>1 DEF IInv, DeliveredInv
  <2>2. ASSUME NEW x \in sent, x.kind \notin LogMessage
        PROVE  x.audience <= Len(subs') /\ \A m \in 1 .. x.audience : Waits(log[subs'[m]], x)
    <3>1. x.audience <= Len(subs) /\ \A m \in 1 .. x.audience : Waits(log[subs[m]], x)
      BY <2>2 DEF IInv, DeliveredInv
    <3>2. x.audience \in Nat
      BY <2>2 DEF IInv, TypeOK, Item
    <3> QED BY <1>2, <3>1, <3>2
  <2> QED BY <1>1, <1>5, <2>1, <2>2 DEF DeliveredInv
<1> QED BY <1>6, <1>7, <1>8, <1>9, <1>10, <1>11 DEF IInv

LEMMA WakeQueues ==
  ASSUME NEW p, NEW ps, NEW a, Queues(p, ps, a), NEW s \in Sub, Wake(s, p, ps)
  PROVE  /\ pc' \in [Task -> {"idle", "parked", "woken", "closed"}]
         /\ putters' \in [Sub -> Seq(Task)]
         /\ Queues(pc', putters', a)
         /\ \A t \in Task : pc'[t] = p[t] \/ (p[t] = "parked" /\ pc'[t] = "woken")
<1>1. CASE ps[s] = <<>> /\ pc' = p /\ putters' = ps
  BY <1>1 DEF Queues
<1>2. CASE /\ ps[s] # <<>> /\ pc' = [p EXCEPT ![Head(ps[s])] = "woken"]
           /\ putters' = [ps EXCEPT ![s] = Tail(@)]
  <2> DEFINE h == Head(ps[s])
  <2>1. /\ h \in Task /\ Tail(ps[s]) \in Seq(Task) /\ Distinct(Tail(ps[s])) /\ Waits(ps[s], h)
        /\ \A u : Waits(Tail(ps[s]), u) <=> Waits(ps[s], u) /\ u # h
    BY <1>2, QueueMoves DEF Queues
  <2> HIDE DEF h
  <2>2. p[h] = "parked" /\ subs[a[h]] = s
    BY <2>1 DEF Queues
  <2>3. /\ pc' \in [Task -> {"idle", "parked", "woken", "closed"}] /\ pc'[h] = "woken"
        /\ \A u \in Task \ {h} : pc'[u] = p[u]
    BY <1>2, <2>1 DEF Queues, h
  <2>4. /\ putters' \in [Sub -> Seq(Task)] /\ putters'[s] = Tail(ps[s])
        /\ \A q \in Sub \ {s} : putters'[q] = ps[q]
    BY <1>2, <2>1 DEF Queues
  <2>5. ASSUME NEW q \in Sub, NEW t \in Task
        PROVE  Waits(putters'[q], t) <=> pc'[t] = "parked" /\ subs[a[t]] = q
    <3>1. Waits(ps[q], t) <=> p[t] = "parked" /\ subs[a[t]] = q
      BY DEF Queues
    <3> QED BY <2>1, <2>2, <2>3, <2>4, <3>1, ZenonT(60)
  <2>6. \A q \in Sub : Distinct(putters'[q])
    BY <2>1, <2>4 DEF Queues
  <2> QED BY <2>2, <2>3, <2>4, <2>5, <2>6 DEF Queues
<1> QED BY <1>1, <1>2 DEF Wake

\* Nothing but the queues of waiting tasks depends on who is parked and who is woken.
LEMMA RestKept ==
  ASSUME IInv, UNCHANGED <<seq, subs, log, item, sent>>,
         \A t \in Task : Waiting(t)' => Waiting(t) /\ at'[t] = at[t],
         pc'[Closer] = "idle" => pc[Closer] = "idle"
  PROVE  SubsInv' /\ ItemInv' /\ OrderInv' /\ DeliveredInv'
<1>1. SubsInv' /\ ItemInv'
  BY DEF IInv, SubsInv, ItemInv
<1>2. OrderInv'
  BY DEF IInv, OrderInv, EmitterOrder
<1>3. DeliveredInv'
  BY DEF IInv, DeliveredInv
<1> QED BY <1>1, <1>2, <1>3

LEMMA GetInv ==
  ASSUME IInv, NEW s \in Sub, Get(s)
  PROVE  IInv'
<1>1. /\ taken' = [taken EXCEPT ![s] = @ + 1] /\ taken[s] < Len(log[s])
      /\ Wake(s, pc, putters) /\ UNCHANGED <<seq, subs, log, at, item, sent>>
  BY DEF Get
<1>2. /\ pc' \in [Task -> {"idle", "parked", "woken", "closed"}] /\ putters' \in [Sub -> Seq(Task)]
      /\ Queues(pc', putters', at)
      /\ \A t \in Task : pc'[t] = pc[t] \/ (pc[t] = "parked" /\ pc'[t] = "woken")
  BY <1>1, WakeQueues DEF IInv
<1>3. Queues(pc, putters, at)'
  BY <1>1, <1>2 DEF Queues
<1>4. \A q \in Sub : taken'[q] \in Nat /\ taken'[q] <= Len(log[q]) /\ Len(log[q]) - taken'[q] <= Capacity
  <2> TAKE q \in Sub
  <2>1. /\ taken[q] \in Nat /\ Len(log[q]) \in Nat /\ Capacity \in Nat /\ taken[q] <= Len(log[q])
        /\ Len(log[q]) - taken[q] <= Capacity /\ taken'[q] = IF q = s THEN taken[q] + 1 ELSE taken[q]
    BY <1>1, BusAssumption DEF IInv, TypeOK
  <2> QED BY <1>1, <2>1
<1>5. taken' \in [Sub -> Nat]
  BY <1>1, <1>4 DEF IInv, TypeOK
<1>6. TypeOK'
  BY <1>1, <1>2, <1>4, <1>5 DEF IInv, TypeOK
<1>7. /\ \A t \in Task : Waiting(t)' => Waiting(t)
      /\ pc'[Closer] = "idle" => pc[Closer] = "idle"
  BY <1>2 DEF Waiting, Task
<1> QED BY <1>1, <1>3, <1>6, <1>7, RestKept DEF IInv

LEMMA CancelInv ==
  ASSUME IInv, NEW t \in Task, Cancel(t)
  PROVE  IInv'
<1> DEFINE s == subs[at[t]]
           gone == [pc EXCEPT ![t] = IF t = Closer THEN "closed" ELSE "idle"]
           left == [putters EXCEPT ![s] = RemoveFirst(@, t)]
<1>1. /\ Waiting(t) /\ at' = [at EXCEPT ![t] = 0]
      /\ Wake(s, gone, left) \/ (pc' = gone /\ putters' = left)
      /\ UNCHANGED <<seq, subs, log, taken, item, sent>>
  BY DEF Cancel, Waiting
<1>2. at[t] \in 1 .. Len(subs) /\ s \in Sub /\ at \in [Task -> 0 .. Len(subs)]
  <2>1. at \in [Task -> 0 .. Len(subs)] /\ Len(subs) \in Nat /\ subs \in Seq(Sub)
    BY DEF IInv, TypeOK
  <2>2. at[t] > 0
    BY <1>1 DEF IInv, ItemInv
  <2> QED BY <2>1, <2>2
<1> HIDE DEF s
<1>3. /\ at' \in [Task -> 0 .. Len(subs)] /\ \A u \in Task \ {t} : at'[u] = at[u]
  <2>1. 0 \in 0 .. Len(subs)
    BY <1>2
  <2> QED BY <1>1, <1>2, <2>1
<1>4. /\ gone \in [Task -> {"idle", "parked", "woken", "closed"}]
      /\ gone[t] = IF t = Closer THEN "closed" ELSE "idle"
      /\ \A u \in Task \ {t} : gone[u] = pc[u]
  BY DEF IInv, TypeOK
<1>5. /\ left \in [Sub -> Seq(Task)] /\ \A q \in Sub : Distinct(left[q])
      /\ \A q \in Sub : \A u : Waits(left[q], u) <=> Waits(putters[q], u) /\ ~(q = s /\ u = t)
  <2>1. putters \in [Sub -> Seq(Task)] /\ \A q \in Sub : Distinct(putters[q])
    BY DEF IInv, Queues
  <2>2. /\ RemoveFirst(putters[s], t) \in Seq(Task) /\ Distinct(RemoveFirst(putters[s], t))
        /\ \A u : Waits(RemoveFirst(putters[s], t), u) <=> Waits(putters[s], u) /\ u # t
    BY <1>2, <2>1, QueueLeft
  <2>3. left \in [Sub -> Seq(Task)]
    BY <2>1, <2>2
  <2>4. \A q \in Sub : left[q] = IF q = s THEN RemoveFirst(putters[s], t) ELSE putters[q]
    BY <2>1
  <2> HIDE DEF left
  <2> QED BY <2>1, <2>2, <2>3, <2>4
<1> HIDE DEF gone, left
<1>6. Queues(gone, left, at')
  <2>1. ASSUME NEW q \in Sub, NEW u \in Task
        PROVE  Waits(left[q], u) <=> gone[u] = "parked" /\ subs[at'[u]] = q
    <3>1. Waits(putters[q], u) <=> pc[u] = "parked" /\ subs[at[u]] = q
      BY DEF IInv, Queues
    <3> QED BY <1>3, <1>4, <1>5, <3>1 DEF s
  <2> QED BY <1>4, <1>5, <2>1 DEF Queues
<1>7. /\ pc' \in [Task -> {"idle", "parked", "woken", "closed"}] /\ putters' \in [Sub -> Seq(Task)]
      /\ Queues(pc', putters', at')
      /\ \A u \in Task : pc'[u] = gone[u] \/ (gone[u] = "parked" /\ pc'[u] = "woken")
  <2>1. CASE Wake(s, gone, left)
    BY <1>2, <1>6, <2>1, WakeQueues
  <2>2. CASE pc' = gone /\ putters' = left
    BY <1>4, <1>5, <1>6, <2>2
  <2> QED BY <1>1, <2>1, <2>2
<1>8. Queues(pc, putters, at)'
  BY <1>1, <1>7 DEF Queues
<1>9. TypeOK'
  BY <1>1, <1>3, <1>7 DEF IInv, TypeOK
<1>10. /\ \A u \in Task : Waiting(u)' => Waiting(u) /\ at'[u] = at[u]
       /\ pc'[Closer] = "idle" => pc[Closer] = "idle"
  <2>1. ASSUME NEW u \in Task, Waiting(u)' PROVE Waiting(u) /\ at'[u] = at[u]
    BY <1>3, <1>4, <1>7, <2>1 DEF Waiting
  <2>2. Closer \in Task
    BY DEF Task
  <2> QED BY <1>4, <1>7, <2>1, <2>2
<1> QED BY <1>1, <1>8, <1>9, <1>10, RestKept DEF IInv
-----------------------------------------------------------------------------
LEMMA NextInv ==
  ASSUME IInv, [Next]_vars
  PROVE  IInv'
<1>1. CASE UNCHANGED vars
  <2>1. UNCHANGED <<seq, subs, log, taken, putters, pc, at, item, sent>>
    BY <1>1 DEF vars
  <2>2. TypeOK' /\ Queues(pc, putters, at)'
    BY <2>1 DEF IInv, TypeOK, Queues
  <2>3. \A t \in Task : Waiting(t)' => Waiting(t)
    BY <2>1 DEF Waiting
  <2> QED BY <2>1, <2>2, <2>3, RestKept DEF IInv
<1> QED BY <1>1, SubscribeInv, GetInv, EmitInv, ResumeInv, CancelInv, CloseInv DEF Next

LEMMA InitInv == Init => IInv
<1> SUFFICES ASSUME Init PROVE IInv
  OBVIOUS
<1>1. /\ subs = <<>> /\ Len(<<>>) = 0 /\ DOMAIN <<>> = {} /\ <<>> \in Seq(Sub) /\ <<>> \in Seq(Item)
      /\ <<>> \in Seq(Task) /\ MaxSeq \in Nat /\ Capacity \in Nat
  BY BusAssumption DEF Init
<1>2. /\ log = [s \in Sub |-> <<>>] /\ taken = [s \in Sub |-> 0] /\ putters = [s \in Sub |-> <<>>]
      /\ pc = [t \in Task |-> "idle"] /\ at = [t \in Task |-> 0] /\ item = [t \in Task |-> NoItem]
      /\ sent = {} /\ seq = 0
  BY DEF Init
<1>3. NoItem \in Item
  BY <1>1 DEF NoItem, Item, Kind, Task
<1>4. TypeOK
  <2>1. log \in [Sub -> Seq(Item)] /\ putters \in [Sub -> Seq(Task)] /\ taken \in [Sub -> Nat]
    BY <1>1, <1>2
  <2>2. /\ pc \in [Task -> {"idle", "parked", "woken", "closed"}] /\ at \in [Task -> 0 .. Len(subs)]
        /\ item \in [Task -> Item]
    BY <1>1, <1>2, <1>3
  <2>3. \A s \in Sub : taken[s] <= Len(log[s]) /\ Len(log[s]) - taken[s] <= Capacity
    BY <1>1, <1>2
  <2> QED BY <1>1, <1>2, <2>1, <2>2, <2>3 DEF TypeOK
<1>5. SubsInv /\ Queues(pc, putters, at)
  <2>1. SubsInv
    BY <1>1, <1>2 DEF SubsInv, Distinct
  <2>2. \A s \in Sub : Distinct(putters[s]) /\ \A t : ~Waits(putters[s], t)
    BY <1>1, <1>2 DEF Distinct, Waits
  <2> QED BY <1>2, <1>4, <2>1, <2>2 DEF Queues, TypeOK
<1>6. \A t \in Task : ~Waiting(t)
  BY <1>2 DEF Waiting
<1>7. ItemInv /\ DeliveredInv
  BY <1>2, <1>6 DEF ItemInv, DeliveredInv
<1>8. OrderInv
  BY <1>1, <1>2, <1>6 DEF OrderInv, EmitterOrder
<1> QED BY <1>4, <1>5, <1>7, <1>8 DEF IInv

LEMMA InvHolds == Spec => []IInv
BY InitInv, NextInv, PTL DEF Spec

\* emit() returns only when its event is in every queue that was subscribed when it
\* began, unless the event is a LogMessage, although it may have waited at several of
\* them while others emitted, subscribed and were cancelled.
THEOREM NeverLost == Spec => []BlockingNeverLost
<1>1. ASSUME IInv, NEW x \in sent, x.kind \notin LogMessage, NEW i \in 1 .. x.audience
      PROVE  x \in ToSet(log[subs[i]])
  <2>1. Waits(log[subs[i]], x)
    BY <1>1 DEF IInv, DeliveredInv
  <2> QED BY <2>1 DEF Waits, ToSet
<1>2. IInv => BlockingNeverLost
  BY <1>1 DEF IInv, BlockingNeverLost
<1> QED BY <1>2, InvHolds, PTL

\* A subscriber hears each task in the order it emitted, and no event twice.
THEOREM HeardInOrder == Spec => []EmitterOrder
<1>1. IInv => EmitterOrder
  BY DEF IInv, OrderInv
<1> QED BY <1>1, InvHolds, PTL
=============================================================================
