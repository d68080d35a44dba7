------------------------ MODULE ProviderRetry_proofs ------------------------
(***************************************************************************)
(* Proofs about the retry loop for any number of keys, calls and attempts. *)
(*                                                                         *)
(* IInv is inductive.  From it: the type invariant, the survival of the    *)
(* pool, the one way a quarantined key can still be used, the length of a  *)
(* burst and, with two attempts or more, that max_rotations never ends or  *)
(* cuts short a call.                                                      *)
(*                                                                         *)
(* The last part is about the pool alone, for any number of keys: the      *)
(* round robin is fair, the quarantine final, and the pool is a queue.     *)
(***************************************************************************)
EXTENDS ProviderRetry, KeyPool, FiniteSetTheorems, WellFoundedInduction, NaturalsInduction, TLAPS

-----------------------------------------------------------------------------
(* The ring of keys.                                                       *)

\* Distances on the ring are distances: between 0 and NumKeys - 1.
LEMMA StepsType ==
  ASSUME NEW i \in Key, NEW k \in Key
  PROVE  Steps(i, k) \in 0 .. NumKeys - 1
BY NumKeysAssumption DEF Steps, Key

\* The distance from i to k, without the modulus.
LEMMA StepsCases ==
  ASSUME NEW i \in Key, NEW k \in Key
  PROVE  Steps(i, k) = IF k >= i THEN k - i ELSE k - i + NumKeys
BY NumKeysAssumption DEF Steps, Key

LEMMA AfterCases ==
  ASSUME NEW k \in Key
  PROVE  After(k) = IF k = NumKeys - 1 THEN 0 ELSE k + 1
BY NumKeysAssumption DEF After, Key

\* Different keys are at different distances.
LEMMA StepsInjective ==
  ASSUME NEW i \in Key, NEW k \in Key, NEW l \in Key, Steps(i, k) = Steps(i, l)
  PROVE  k = l
BY StepsCases, NumKeysAssumption DEF Key

\* Once k has been returned every key that is not nearer than k is nearer by the
\* same amount, and k itself is the furthest of all.
LEMMA StepsAfter ==
  ASSUME NEW i \in Key, NEW k \in Key, NEW l \in Key, Steps(i, k) < Steps(i, l)
  PROVE  Steps(After(k), l) = Steps(i, l) - Steps(i, k) - 1
<1>1. After(k) \in Key /\ After(k) = IF k = NumKeys - 1 THEN 0 ELSE k + 1
  BY AfterCases, NumKeysAssumption DEF Key
<1>2. /\ Steps(i, k) = IF k >= i THEN k - i ELSE k - i + NumKeys
      /\ Steps(i, l) = IF l >= i THEN l - i ELSE l - i + NumKeys
      /\ Steps(After(k), l) = IF l >= After(k) THEN l - After(k) ELSE l - After(k) + NumKeys
  BY <1>1, StepsCases
<1> QED BY <1>1, <1>2, NumKeysAssumption DEF Key

LEMMA StepsFurthest ==
  ASSUME NEW k \in Key, NEW l \in Key, l # k
  PROVE  Steps(After(k), l) < Steps(After(k), k)
<1>1. After(k) \in Key /\ After(k) = IF k = NumKeys - 1 THEN 0 ELSE k + 1
  BY AfterCases, NumKeysAssumption DEF Key
<1>2. /\ Steps(After(k), k) = IF k >= After(k) THEN k - After(k) ELSE k - After(k) + NumKeys
      /\ Steps(After(k), l) = IF l >= After(k) THEN l - After(k) ELSE l - After(k) + NumKeys
  BY <1>1, StepsCases
<1> QED BY <1>1, <1>2, NumKeysAssumption DEF Key

\* The index stays on the ring.
LEMMA AfterType ==
  ASSUME NEW k \in Key
  PROVE  After(k) \in Key
BY NumKeysAssumption DEF After, Key

LEMMA KeyFinite == IsFiniteSet(Key) /\ Cardinality(Key) = NumKeys
<1>1. 0 \in Int /\ NumKeys - 1 \in Int /\ ~(0 > NumKeys - 1)
  BY NumKeysAssumption
<1>2. IsFiniteSet(0 .. NumKeys - 1)
  BY <1>1, FS_Interval
<1>3. Cardinality(0 .. NumKeys - 1) = (NumKeys - 1) - 0 + 1
  BY <1>1, FS_Interval
<1> QED BY <1>2, <1>3, NumKeysAssumption DEF Key

\* A non-empty set of naturals has a least element.
LEMMA LeastNat ==
  ASSUME NEW T, T \subseteq Nat, T # {}
  PROVE  \E x \in T : \A y \in T : x <= y
<1>1. PICK x \in T : \A y \in T : ~ (<<y, x>> \in OpToRel(<, Nat))
  BY NatLessThanWellFounded, WFMin
<1>2. \A y \in T : ~ (y < x)
  BY <1>1 DEF OpToRel
<1> QED BY <1>2

\* next() returns a live key: its choice exists and is one of the candidates.
LEMMA NextLiveInSet ==
  ASSUME NEW i \in Key, NEW S \in SUBSET Key, S # {}
  PROVE  NextLive(i, S) \in S
<1> DEFINE T == {Steps(i, k) : k \in S}
<1>1. T \subseteq Nat /\ T # {}
  BY StepsType
<1>2. PICK x \in T : \A y \in T : x <= y
  BY <1>1, LeastNat
<1>3. PICK k \in S : x = Steps(i, k)
  OBVIOUS
<1>4. \A l \in S : Steps(i, k) <= Steps(i, l)
  BY <1>2, <1>3
<1> QED BY <1>4 DEF NextLive

\* And it is the candidate nearest to the index.
LEMMA NextLiveNearest ==
  ASSUME NEW i \in Key, NEW S \in SUBSET Key, NEW l \in S
  PROVE  Steps(i, NextLive(i, S)) <= Steps(i, l)
<1> DEFINE T == {Steps(i, k) : k \in S}
<1>1. T \subseteq Nat /\ T # {}
  BY StepsType
<1>2. PICK x \in T : \A y \in T : x <= y
  BY <1>1, LeastNat
<1>3. PICK k \in S : x = Steps(i, k)
  OBVIOUS
<1>4. \A m \in S : Steps(i, k) <= Steps(i, m)
  BY <1>2, <1>3
<1> QED BY <1>4 DEF NextLive

\* The last of a whole turn of next() calls is live, too.
LEMMA LastLiveInSet ==
  ASSUME NEW i \in Key, NEW S \in SUBSET Key, S # {}
  PROVE  LastLive(i, S) \in S
<1> DEFINE T == {NumKeys - Steps(i, k) : k \in S}
<1>1. T \subseteq Nat /\ T # {}
  BY StepsType, NumKeysAssumption
<1>2. PICK x \in T : \A y \in T : x <= y
  BY <1>1, LeastNat
<1>3. PICK k \in S : x = NumKeys - Steps(i, k)
  OBVIOUS
<1>4. \A l \in S : Steps(i, l) <= Steps(i, k)
  BY <1>2, <1>3, StepsType, NumKeysAssumption
<1> QED BY <1>4 DEF LastLive
-----------------------------------------------------------------------------
USE ConstantsAssumption, NumKeysAssumption

LEMMA SubsetCard ==
  ASSUME NEW S \in SUBSET Key
  PROVE  IsFiniteSet(S) /\ Cardinality(S) \in Nat /\ Cardinality(S) <= NumKeys
BY KeyFinite, FS_Subset, FS_CardinalityType

\* What a loop head does to the variables, whichever way it goes.
LEMMA LoopHeadCases ==
  ASSUME NEW c \in Call, NEW k, NEW a, NEW t, NEW r, NEW le, NEW u,
         LoopHead(c, k, a, t, r, le, u)
  PROVE  \/ /\ r >= MaxRotations(c)
            /\ Raise(c, IF le = NoExc THEN "unreachable" ELSE le)
         \/ /\ HasBudget
            /\ Raise(c, "budget")
         \/ /\ r < MaxRotations(c)
            /\ pc' = [pc EXCEPT ![c] = "wire"]
            /\ key' = [key EXCEPT ![c] = k]
            /\ attempt' = [attempt EXCEPT ![c] = a]
            /\ tried' = [tried EXCEPT ![c] = t]
            /\ rotation' = [rotation EXCEPT ![c] = r + 1]
            /\ used' = [used EXCEPT ![c] = Append(u, k)]
            /\ UNCHANGED <<startLive, outcome>>
BY DEF LoopHead, RaiseLast

Outcomes == Retryable \cup
  {NoExc, "ok", "auth", "rejected", "exhausted", "budget", "unreachable"}

\* The part of the type invariant a call's own step can disturb.
CallVars == <<pc, key, attempt, tried, rotation, startLive, outcome, used>>

CallTypeOK ==
  /\ pc \in [Call -> {"idle", "wire", "done"} \cup Sleeping]
  /\ key \in [Call -> Key]
  /\ attempt \in [Call -> 0 .. MaxRetries - 1]
  /\ tried \in [Call -> SUBSET Key]
  /\ rotation \in [Call -> Nat]
  /\ startLive \in [Call -> SUBSET Key]
  /\ outcome \in [Call -> Outcomes]
  /\ used \in [Call -> Seq(Key)]

LEMMA RaiseType ==
  ASSUME CallTypeOK, NEW c \in Call, NEW e \in Outcomes, Raise(c, e)
  PROVE  CallTypeOK'
BY DEF CallTypeOK, Raise

LEMMA SleepType ==
  ASSUME CallTypeOK, lastExc \in [Call -> Retryable \cup {NoExc}],
         NEW c \in Call, NEW kind \in Sleeping, NEW exc \in Retryable,
         Sleep(c, kind, exc)
  PROVE  CallTypeOK' /\ lastExc' \in [Call -> Retryable \cup {NoExc}]
BY DEF CallTypeOK, Sleep

LEMMA LoopHeadType ==
  ASSUME CallTypeOK, NEW c \in Call, NEW k \in Key, NEW a \in 0 .. MaxRetries - 1,
         NEW t \in SUBSET Key, NEW r \in Nat, NEW le \in Retryable \cup {NoExc},
         NEW u \in Seq(Key), LoopHead(c, k, a, t, r, le, u)
  PROVE  CallTypeOK'
<1>1. (IF le = NoExc THEN "unreachable" ELSE le) \in Outcomes
  BY DEF Outcomes
<1>2. "budget" \in Outcomes
  BY DEF Outcomes
<1>3. Append(u, k) \in Seq(Key) /\ r + 1 \in Nat
  OBVIOUS
<1>4. CASE Raise(c, IF le = NoExc THEN "unreachable" ELSE le)
  BY <1>1, <1>4, RaiseType
<1>5. CASE Raise(c, "budget")
  BY <1>2, <1>5, RaiseType
<1>6. CASE /\ pc' = [pc EXCEPT ![c] = "wire"]
           /\ key' = [key EXCEPT ![c] = k]
           /\ attempt' = [attempt EXCEPT ![c] = a]
           /\ tried' = [tried EXCEPT ![c] = t]
           /\ rotation' = [rotation EXCEPT ![c] = r + 1]
           /\ used' = [used EXCEPT ![c] = Append(u, k)]
           /\ UNCHANGED <<startLive, outcome>>
  BY <1>3, <1>6 DEF CallTypeOK
<1> QED BY <1>4, <1>5, <1>6, LoopHeadCases

LEMMA GiveUpOrSleepType ==
  ASSUME CallTypeOK, lastExc \in [Call -> Retryable \cup {NoExc}],
         NEW c \in Call, NEW kind \in Sleeping, NEW exc \in Retryable,
         GiveUpOrSleep(c, kind, exc)
  PROVE  CallTypeOK' /\ lastExc' \in [Call -> Retryable \cup {NoExc}]
BY RaiseType, SleepType DEF GiveUpOrSleep, Outcomes

LEMMA NextKeyType ==
  ASSUME index \in Key, NEW S \in SUBSET Key, S # {}
  PROVE  /\ NextLive(index, S) \in S
         /\ After(NextLive(index, S)) \in Key
         /\ After(LastLive(index, S)) \in Key
BY NextLiveInSet, LastLiveInSet, AfterType

LEMMA TypeStep ==
  ASSUME TypeOK, CallShape, [Next]_vars
  PROVE  TypeOK'
<1> DEFINE ExcOK == lastExc \in [Call -> Retryable \cup {NoExc}]
<1>0. /\ index \in Key /\ quarantined \in SUBSET Key /\ ExcOK /\ CallTypeOK
  BY DEF TypeOK, CallTypeOK, Outcomes
<1> SUFFICES index' \in Key /\ quarantined' \in SUBSET Key /\ ExcOK' /\ CallTypeOK'
  BY DEF TypeOK, CallTypeOK, Outcomes
<1>A. "exhausted" \in Outcomes /\ "ok" \in Outcomes /\ "rejected" \in Outcomes
      /\ "auth" \in Outcomes
  BY DEF Outcomes
<1>1. ASSUME NEW c \in Call, Start(c)
      PROVE  index' \in Key /\ quarantined' \in SUBSET Key /\ ExcOK' /\ CallTypeOK'
  <2>1. CASE Live(quarantined) = {} /\ Raise(c, "exhausted") /\ UNCHANGED index
    BY <1>0, <1>A, <1>1, <2>1, RaiseType DEF Start
  <2>2. CASE Live(quarantined) # {}
    <3>1. Live(quarantined) \in SUBSET Key
      BY DEF Live
    <3>2. /\ NextLive(index, Live(quarantined)) \in Key
          /\ After(NextLive(index, Live(quarantined))) \in Key
      BY <1>0, <2>2, <3>1, NextKeyType
    <3>3. \A k \in Key : {k} \in SUBSET Key /\ <<k>> \in Seq(Key)
      OBVIOUS
    <3> DEFINE k == NextLive(index, Live(quarantined))
    <3>4. /\ index' = After(k) /\ UNCHANGED <<quarantined, lastExc>>
          /\ key' = [key EXCEPT ![c] = k]
          /\ tried' = [tried EXCEPT ![c] = {k}]
          /\ used' = [used EXCEPT ![c] = <<k>>]
          /\ startLive' = [startLive EXCEPT ![c] = Live(quarantined)]
          /\ rotation' = [rotation EXCEPT ![c] = 1]
          /\ pc' = [pc EXCEPT ![c] = "wire"]
          /\ UNCHANGED <<attempt, outcome>>
      BY <1>1, <2>2 DEF Start
    <3> HIDE DEF k
    <3>5. k \in Key /\ After(k) \in Key
      BY <3>2 DEF k
    <3>6. CallTypeOK'
      BY <1>0, <3>1, <3>3, <3>4, <3>5 DEF CallTypeOK
    <3> QED BY <1>0, <3>4, <3>5, <3>6
  <2> QED BY <1>1, <2>1, <2>2 DEF Start
<1>2. ASSUME NEW c \in Call, Success(c) \/ Rejected(c)
      PROVE  index' \in Key /\ quarantined' \in SUBSET Key /\ ExcOK' /\ CallTypeOK'
  BY <1>0, <1>A, <1>2, RaiseType DEF Success, Rejected, pool
<1>3. ASSUME NEW c \in Call, AuthFailure(c)
      PROVE  index' \in Key /\ quarantined' \in SUBSET Key /\ ExcOK' /\ CallTypeOK'
  <2> DEFINE Q == quarantined \cup {key[c]}
  <2>1. Q \in SUBSET Key /\ Live(Q) \in SUBSET Key /\ quarantined' = Q /\ ExcOK'
    BY <1>0, <1>3 DEF AuthFailure, CallTypeOK, Live
  <2>2. CASE Live(Q) = {} /\ Raise(c, "auth") /\ UNCHANGED index
    BY <1>0, <1>A, <2>1, <2>2, RaiseType
  <2>3. CASE Live(Q) # {}
    <3> DEFINE k == NextLive(index, Live(Q))
    <3>1. k \in Key /\ After(k) \in Key
      BY <1>0, <2>1, <2>3, NextKeyType
    <3>2. index' = After(k)
      BY <1>3, <2>3 DEF AuthFailure
    <3>3. LoopHead(c, k, attempt[c], tried[c] \cup {k}, rotation[c], lastExc[c], used[c])
      BY <1>3, <2>3 DEF AuthFailure
    <3>4. /\ attempt[c] \in 0 .. MaxRetries - 1 /\ tried[c] \cup {k} \in SUBSET Key
          /\ rotation[c] \in Nat /\ lastExc[c] \in Retryable \cup {NoExc}
          /\ used[c] \in Seq(Key)
      BY <1>0, <3>1 DEF CallTypeOK
    <3> HIDE DEF k
    <3>5. CallTypeOK'
      BY <1>0, <3>1, <3>3, <3>4, LoopHeadType
    <3> QED BY <2>1, <3>1, <3>2, <3>5
  <2> QED BY <1>3, <2>2, <2>3 DEF AuthFailure
<1>4. ASSUME NEW c \in Call, RateLimitRotate(c)
      PROVE  index' \in Key /\ quarantined' \in SUBSET Key /\ ExcOK' /\ CallTypeOK'
  <2> DEFINE fresh == Live(quarantined) \ tried[c]
  <2>1. /\ fresh \in SUBSET Key /\ Live(quarantined) \in SUBSET Key
        /\ quarantined' \in SUBSET Key
    BY <1>0, <1>4 DEF RateLimitRotate, Live
  <2>2. CASE fresh # {}
    <3> DEFINE k == NextLive(index, fresh)
    <3>1. k \in Key /\ After(k) \in Key
      BY <1>0, <2>1, <2>2, NextKeyType
    <3>2. index' = After(k) /\ ExcOK'
      BY <1>0, <1>4, <2>2 DEF RateLimitRotate
    <3>3. LoopHead(c, k, attempt[c], tried[c] \cup {k}, rotation[c], lastExc[c], used[c])
      BY <1>4, <2>2 DEF RateLimitRotate
    <3>4. /\ attempt[c] \in 0 .. MaxRetries - 1 /\ tried[c] \cup {k} \in SUBSET Key
          /\ rotation[c] \in Nat /\ lastExc[c] \in Retryable \cup {NoExc}
          /\ used[c] \in Seq(Key)
      BY <1>0, <3>1 DEF CallTypeOK
    <3> HIDE DEF k
    <3>5. CallTypeOK'
      BY <1>0, <3>1, <3>3, <3>4, LoopHeadType
    <3> QED BY <2>1, <3>1, <3>2, <3>5
  <2>3. CASE fresh = {}
    <3>1. /\ Live(quarantined) # {}
      BY <1>4, FS_EmptySet DEF RateLimitRotate
    <3>2. index' \in Key
      BY <1>0, <1>4, <2>1, <2>3, <3>1, NextKeyType DEF RateLimitRotate
    <3>3. GiveUpOrSleep(c, "rotate", "rate")
      BY <1>4, <2>3 DEF RateLimitRotate
    <3>4. CallTypeOK' /\ ExcOK'
      BY <1>0, <3>3, GiveUpOrSleepType DEF Sleeping, Retryable
    <3> QED BY <2>1, <3>2, <3>4
  <2> QED BY <2>2, <2>3
<1>5. ASSUME NEW c \in Call, PlainRetry(c)
      PROVE  index' \in Key /\ quarantined' \in SUBSET Key /\ ExcOK' /\ CallTypeOK'
  <2>1. "retry" \in Sleeping
    BY DEF Sleeping
  <2> QED BY <1>0, <1>5, <2>1, GiveUpOrSleepType DEF PlainRetry, pool
<1>6. ASSUME NEW c \in Call, WakeRotate(c)
      PROVE  index' \in Key /\ quarantined' \in SUBSET Key /\ ExcOK' /\ CallTypeOK'
  <2>1. CASE Live(quarantined) = {} /\ Raise(c, "exhausted") /\ UNCHANGED index
    BY <1>0, <1>A, <1>6, <2>1, RaiseType DEF WakeRotate
  <2>2. CASE Live(quarantined) # {}
    <3> DEFINE k == NextLive(index, Live(quarantined))
    <3>1. k \in Key /\ After(k) \in Key
      BY <1>0, <2>2, NextKeyType DEF Live
    <3>2. /\ index' = After(k) /\ ExcOK' /\ quarantined' \in SUBSET Key
          /\ LoopHead(c, k, attempt[c] + 1, {k}, 0, lastExc[c], <<>>)
      BY <1>0, <1>6, <2>2 DEF WakeRotate
    <3>3. /\ attempt[c] + 1 \in 0 .. MaxRetries - 1 /\ {k} \in SUBSET Key
          /\ lastExc[c] \in Retryable \cup {NoExc} /\ <<>> \in Seq(Key) /\ 0 \in Nat
      BY <1>0, <1>6, <3>1 DEF CallTypeOK, CallShape, WakeRotate, Sleeping
    <3> HIDE DEF k
    <3>4. CallTypeOK'
      BY <1>0, <3>1, <3>2, <3>3, LoopHeadType
    <3> QED BY <3>1, <3>2, <3>4
  <2> QED BY <1>6, <2>1, <2>2 DEF WakeRotate
<1>7. ASSUME NEW c \in Call, WakeRetry(c)
      PROVE  index' \in Key /\ quarantined' \in SUBSET Key /\ ExcOK' /\ CallTypeOK'
  <2>1. /\ attempt[c] + 1 \in 0 .. MaxRetries - 1 /\ tried[c] \in SUBSET Key
        /\ key[c] \in Key /\ rotation[c] \in Nat
        /\ lastExc[c] \in Retryable \cup {NoExc} /\ <<>> \in Seq(Key)
    BY <1>0, <1>7 DEF CallTypeOK, CallShape, WakeRetry, Sleeping
  <2>2. LoopHead(c, key[c], attempt[c] + 1, tried[c], rotation[c], lastExc[c], <<>>)
        /\ UNCHANGED <<pool, lastExc>>
    BY <1>7 DEF WakeRetry
  <2>3. CallTypeOK'
    BY <1>0, <2>1, <2>2, LoopHeadType
  <2> QED BY <1>0, <2>2, <2>3 DEF pool
<1>8. CASE UNCHANGED vars
  BY <1>0, <1>8 DEF vars, CallTypeOK
<1> QED
  BY <1>1, <1>2, <1>3, <1>4, <1>5, <1>6, <1>7, <1>8 DEF Next, Step, Answer, AllDone
-----------------------------------------------------------------------------
(* CallShape and RotationBound, one call at a time.                        *)

Paid(S, Q, k) == Cardinality((S \cap Q) \ {k})

Shape(d) ==
  /\ pc[d] # "idle" => Live(quarantined) \subseteq startLive[d]
  /\ tried[d] \subseteq startLive[d]
  /\ pc[d] \in {"wire"} \cup Sleeping => key[d] \in tried[d]
  /\ pc[d] \in Sleeping => attempt[d] < MaxRetries - 1
  /\ pc[d] # "done" => outcome[d] = NoExc

Bound(d) ==
  pc[d] \in {"wire", "retry"} =>
    rotation[d] <= attempt[d] + Cardinality(tried[d])
                   + Paid(startLive[d], quarantined, key[d])

LEMMA InvByCall == /\ CallShape <=> \A d \in Call : Shape(d)
                   /\ RotationBound <=> \A d \in Call : Bound(d)
BY DEF CallShape, RotationBound, Shape, Bound, Paid

\* A step of one call leaves the variables of every other call alone, and the
\* quarantine only grows.
LEMMA OtherCalls ==
  ASSUME TypeOK, NEW c \in Call, Step(c), NEW d \in Call, d # c
  PROVE  /\ pc'[d] = pc[d] /\ key'[d] = key[d] /\ attempt'[d] = attempt[d]
         /\ tried'[d] = tried[d] /\ rotation'[d] = rotation[d]
         /\ startLive'[d] = startLive[d] /\ outcome'[d] = outcome[d]
         /\ used'[d] = used[d]
<1> DEFINE Same == /\ pc'[d] = pc[d] /\ key'[d] = key[d] /\ attempt'[d] = attempt[d]
                   /\ tried'[d] = tried[d] /\ rotation'[d] = rotation[d]
                   /\ startLive'[d] = startLive[d] /\ outcome'[d] = outcome[d]
                   /\ used'[d] = used[d]
<1>1. ASSUME NEW e, Raise(c, e) PROVE Same
  BY <1>1 DEF Raise, TypeOK
<1>2. ASSUME NEW kind, NEW exc, Sleep(c, kind, exc) PROVE Same
  BY <1>2 DEF Sleep, TypeOK
<1>3. ASSUME NEW k, NEW a, NEW t, NEW r, NEW le, NEW u,
             LoopHead(c, k, a, t, r, le, u)
      PROVE  Same
  <2>1. CASE Raise(c, IF le = NoExc THEN "unreachable" ELSE le)
    BY <1>1, <2>1
  <2>2. CASE Raise(c, "budget")
    BY <1>1, <2>2
  <2>3. CASE /\ pc' = [pc EXCEPT ![c] = "wire"]
             /\ key' = [key EXCEPT ![c] = k]
             /\ attempt' = [attempt EXCEPT ![c] = a]
             /\ tried' = [tried EXCEPT ![c] = t]
             /\ rotation' = [rotation EXCEPT ![c] = r + 1]
             /\ used' = [used EXCEPT ![c] = Append(u, k)]
             /\ UNCHANGED <<startLive, outcome>>
    BY <2>3 DEF TypeOK
  <2> QED BY <1>3, <2>1, <2>2, <2>3, LoopHeadCases
<1>4. ASSUME NEW kind, NEW exc, GiveUpOrSleep(c, kind, exc) PROVE Same
  BY <1>1, <1>2, <1>4 DEF GiveUpOrSleep
<1>5. CASE Start(c)
  <2>1. CASE Raise(c, "exhausted")
    BY <1>1, <2>1
  <2>2. CASE /\ key' = [key EXCEPT ![c] = NextLive(index, Live(quarantined))]
             /\ tried' = [tried EXCEPT ![c] = {NextLive(index, Live(quarantined))}]
             /\ used' = [used EXCEPT ![c] = <<NextLive(index, Live(quarantined))>>]
             /\ startLive' = [startLive EXCEPT ![c] = Live(quarantined)]
             /\ rotation' = [rotation EXCEPT ![c] = 1]
             /\ pc' = [pc EXCEPT ![c] = "wire"]
             /\ UNCHANGED <<attempt, outcome>>
    BY <2>2 DEF TypeOK
  <2> QED BY <1>5, <2>1, <2>2 DEF Start
<1>6. CASE Success(c) \/ Rejected(c)
  BY <1>1, <1>6 DEF Success, Rejected
<1>7. CASE AuthFailure(c)
  BY <1>1, <1>3, <1>7 DEF AuthFailure
<1>8. CASE RateLimitRotate(c)
  BY <1>3, <1>4, <1>8 DEF RateLimitRotate
<1>9. CASE PlainRetry(c)
  BY <1>4, <1>9 DEF PlainRetry
<1>10. CASE WakeRotate(c)
  BY <1>1, <1>3, <1>10 DEF WakeRotate
<1>11. CASE WakeRetry(c)
  BY <1>3, <1>11 DEF WakeRetry
<1> QED BY <1>5, <1>6, <1>7, <1>8, <1>9, <1>10, <1>11 DEF Step, Answer

LEMMA QuarantineGrows ==
  ASSUME NEW c \in Call, Step(c)
  PROVE  quarantined \subseteq quarantined'
BY DEF Step, Answer, Start, Success, Rejected, AuthFailure, RateLimitRotate,
       PlainRetry, WakeRotate, WakeRetry, pool

\* More quarantined keys pay for more turns.
LEMMA PaidGrows ==
  ASSUME NEW S \in SUBSET Key, NEW Q, NEW R, Q \subseteq R, NEW k
  PROVE  /\ Paid(S, Q, k) \in Nat /\ Paid(S, R, k) \in Nat
         /\ Paid(S, Q, k) <= Paid(S, R, k)
<1>1. (S \cap Q) \ {k} \in SUBSET ((S \cap R) \ {k})
  OBVIOUS
<1>2. IsFiniteSet((S \cap Q) \ {k}) /\ IsFiniteSet((S \cap R) \ {k})
  BY SubsetCard
<1> QED BY <1>1, <1>2, FS_Subset, FS_CardinalityType DEF Paid

\* A call that does not move keeps its part of the invariant.
LEMMA StillCall ==
  ASSUME TypeOK, NEW d \in Call, Shape(d), Bound(d), quarantined \subseteq quarantined',
         pc'[d] = pc[d], key'[d] = key[d], attempt'[d] = attempt[d],
         tried'[d] = tried[d], rotation'[d] = rotation[d],
         startLive'[d] = startLive[d], outcome'[d] = outcome[d]
  PROVE  Shape(d)' /\ Bound(d)'
<1>1. Shape(d)'
  BY DEF Shape, Live
<1>2. startLive[d] \in SUBSET Key /\ tried[d] \in SUBSET Key
      /\ attempt[d] \in Nat /\ rotation[d] \in Nat
  BY DEF TypeOK
<1>3. Cardinality(tried[d]) \in Nat
  BY <1>2, SubsetCard
<1>4. /\ Paid(startLive[d], quarantined, key[d]) \in Nat
      /\ Paid(startLive[d], quarantined', key[d]) \in Nat
      /\ Paid(startLive[d], quarantined, key[d])
           <= Paid(startLive[d], quarantined', key[d])
  BY <1>2, PaidGrows
<1>5. Bound(d)' = (pc[d] \in {"wire", "retry"} =>
         rotation[d] <= attempt[d] + Cardinality(tried[d])
                        + Paid(startLive[d], quarantined', key[d]))
  BY DEF Bound, Paid
<1>6. Bound(d)'
  BY <1>2, <1>3, <1>4, <1>5 DEF Bound
<1> QED BY <1>1, <1>6

\* A call that ends.
LEMMA RaiseShape ==
  ASSUME TypeOK, NEW c \in Call, NEW e, Raise(c, e), tried[c] \subseteq startLive[c],
         Live(quarantined') \subseteq startLive[c]
  PROVE  Shape(c)' /\ Bound(c)'
<1>1. /\ pc'[c] = "done" /\ tried'[c] = tried[c] /\ startLive'[c] = startLive[c]
  BY DEF Raise, TypeOK
<1> QED BY <1>1 DEF Shape, Bound, Sleeping, Live

\* A call that goes to sleep.
LEMMA SleepShape ==
  ASSUME TypeOK, NEW c \in Call, Shape(c), Bound(c), NEW kind \in Sleeping, NEW exc,
         GiveUpOrSleep(c, kind, exc), UNCHANGED quarantined, pc[c] = "wire"
  PROVE  Shape(c)' /\ Bound(c)'
<1>1. CASE Raise(c, exc)
  BY <1>1, RaiseShape DEF Shape
<1>2. CASE attempt[c] < MaxRetries - 1 /\ Sleep(c, kind, exc)
  <2>1. /\ pc'[c] = kind /\ key'[c] = key[c] /\ attempt'[c] = attempt[c]
        /\ tried'[c] = tried[c] /\ rotation'[c] = rotation[c]
        /\ startLive'[c] = startLive[c] /\ outcome'[c] = outcome[c]
    BY <1>2 DEF Sleep, TypeOK
  <2> QED BY <1>2, <2>1 DEF Shape, Bound, Sleeping, Live, Paid
<1> QED BY <1>1, <1>2 DEF GiveUpOrSleep

\* A call that reaches the head of its loop with its next turn paid for.
LEMMA LoopHeadShape ==
  ASSUME TypeOK, NEW c \in Call, NEW k, NEW a, NEW t, NEW r, NEW le, NEW u,
         LoopHead(c, k, a, t, r, le, u), pc[c] \notin {"idle", "done"}, Shape(c),
         k \in t, t \subseteq startLive[c], Live(quarantined') \subseteq startLive[c],
         r + 1 <= a + Cardinality(t) + Paid(startLive[c], quarantined', k)
  PROVE  Shape(c)' /\ Bound(c)'
<1>1. ASSUME NEW e, Raise(c, e) PROVE Shape(c)' /\ Bound(c)'
  BY <1>1, RaiseShape DEF Shape
<1>2. CASE /\ pc' = [pc EXCEPT ![c] = "wire"]
           /\ key' = [key EXCEPT ![c] = k]
           /\ attempt' = [attempt EXCEPT ![c] = a]
           /\ tried' = [tried EXCEPT ![c] = t]
           /\ rotation' = [rotation EXCEPT ![c] = r + 1]
           /\ UNCHANGED <<startLive, outcome>>
  <2>1. /\ pc'[c] = "wire" /\ key'[c] = k /\ attempt'[c] = a /\ tried'[c] = t
        /\ rotation'[c] = r + 1 /\ startLive'[c] = startLive[c]
        /\ outcome'[c] = outcome[c]
    BY <1>2 DEF TypeOK
  <2>2. Shape(c)'
    BY <2>1 DEF Shape, Sleeping, Live
  <2>3. Bound(c)'
    BY <2>1 DEF Bound, Paid
  <2> QED BY <2>2, <2>3
<1> QED BY <1>1, <1>2, LoopHeadCases
-----------------------------------------------------------------------------
(* Each action of a call keeps its own part of the invariant, and leaves   *)
(* the loop at its head only for want of a time budget.                    *)

LEMMA StartOwn ==
  ASSUME TypeOK, NEW c \in Call, Shape(c), Bound(c), Start(c)
  PROVE  Shape(c)' /\ Bound(c)'
<1>1. CASE Live(quarantined) = {} /\ Raise(c, "exhausted")
  BY <1>1, RaiseShape DEF Start, Shape
<1>2. CASE Live(quarantined) # {}
  <2> DEFINE k == NextLive(index, Live(quarantined))
  <2>1. k \in Live(quarantined)
    BY <1>2, NextKeyType DEF TypeOK, Live
  <2>2. /\ pc'[c] = "wire" /\ key'[c] = k /\ attempt'[c] = attempt[c]
        /\ tried'[c] = {k} /\ rotation'[c] = 1 /\ outcome'[c] = outcome[c]
        /\ startLive'[c] = Live(quarantined) /\ quarantined' = quarantined
        /\ pc[c] = "idle"
    BY <1>2 DEF Start, TypeOK
  <2> HIDE DEF k
  <2>3. Shape(c)'
    BY <2>1, <2>2 DEF Shape, Sleeping, Live
  <2>4. Cardinality({k}) = 1
    BY FS_Singleton
  <2>5. Live(quarantined) \in SUBSET Key
    BY DEF Live
  <2>6. Paid(Live(quarantined), quarantined, k) \in Nat
    BY <2>5, PaidGrows
  <2>7. attempt[c] \in Nat
    BY DEF TypeOK
  <2>8. 1 <= attempt[c] + Cardinality({k}) + Paid(Live(quarantined), quarantined, k)
    BY <2>4, <2>6, <2>7
  <2>9. Bound(c)'
    BY <2>2, <2>8 DEF Bound, Paid
  <2> QED BY <2>3, <2>9
<1> QED BY <1>1, <1>2 DEF Start

\* The cardinalities a turn of the loop is weighed with.
LEMMA Weights ==
  ASSUME TypeOK, NEW c \in Call, Shape(c), Bound(c), pc[c] \in {"wire"} \cup Sleeping
  PROVE  LET L == Cardinality(startLive[c]) IN
         /\ startLive[c] \in SUBSET Key /\ L \in Nat \ {0}
         /\ Cardinality(tried[c]) \in 0 .. L
         /\ \A Q \in SUBSET Key, k \in startLive[c] :
              Paid(startLive[c], Q, k) \in 0 .. L - 1
         /\ attempt[c] \in 0 .. MaxRetries - 1 /\ rotation[c] \in Nat
         /\ key[c] \in tried[c] /\ key[c] \in startLive[c]
         /\ tried[c] \subseteq startLive[c]
<1> DEFINE S == startLive[c]
<1>1. /\ S \in SUBSET Key /\ tried[c] \in SUBSET S /\ key[c] \in tried[c]
      /\ attempt[c] \in 0 .. MaxRetries - 1 /\ rotation[c] \in Nat
  BY DEF TypeOK, Shape
<1>2. /\ IsFiniteSet(S) /\ Cardinality(S) \in Nat
  BY <1>1, SubsetCard
<1>3. Cardinality(S) # 0
  BY <1>1, <1>2, FS_EmptySet
<1>4. Cardinality(tried[c]) \in 0 .. Cardinality(S)
  BY <1>1, <1>2, FS_Subset, FS_CardinalityType
<1>5. ASSUME NEW Q \in SUBSET Key, NEW k \in S
      PROVE  Paid(S, Q, k) \in 0 .. Cardinality(S) - 1
  <2>1. IsFiniteSet(S \ {k}) /\ Cardinality(S \ {k}) = Cardinality(S) - 1
    BY <1>2, FS_RemoveElement
  <2>2. (S \cap Q) \ {k} \in SUBSET (S \ {k})
    OBVIOUS
  <2>3. /\ IsFiniteSet((S \cap Q) \ {k})
        /\ Cardinality((S \cap Q) \ {k}) <= Cardinality(S \ {k})
    BY <2>1, <2>2, FS_Subset
  <2>4. Cardinality((S \cap Q) \ {k}) \in Nat
    BY <2>3, FS_CardinalityType
  <2> QED BY <1>2, <2>1, <2>3, <2>4 DEF Paid
<1> QED BY <1>1, <1>2, <1>3, <1>4, <1>5

LEMMA AuthOwn ==
  ASSUME TypeOK, NEW c \in Call, Shape(c), Bound(c), AuthFailure(c)
  PROVE  Shape(c)' /\ Bound(c)'
<1> DEFINE S == startLive[c]
           Q == quarantined \cup {key[c]}
           k == NextLive(index, Live(Q))
<1>0. /\ pc[c] = "wire" /\ quarantined' = Q /\ Live(Q) \in SUBSET Key
      /\ Q \in SUBSET Key /\ Live(quarantined) \subseteq S /\ tried[c] \subseteq S
      /\ Live(Q) \subseteq S
  BY DEF AuthFailure, Live, TypeOK, Shape
<1>1. CASE Live(Q) = {} /\ Raise(c, "auth")
  BY <1>0, <1>1, RaiseShape
<1>2. CASE Live(Q) # {}
  <2>1. k \in Live(Q)
    BY <1>0, <1>2, NextKeyType DEF TypeOK
  <2>2. LoopHead(c, k, attempt[c], tried[c] \cup {k}, rotation[c], lastExc[c], used[c])
    BY <1>2 DEF AuthFailure
  <2> HIDE DEF k
  <2>3. k \in S /\ k \notin Q /\ tried[c] \cup {k} \in SUBSET S
    BY <1>0, <2>1 DEF Live
  <2>4. /\ key[c] \in S /\ S \in SUBSET Key /\ attempt[c] \in Nat /\ rotation[c] \in Nat
        /\ Cardinality(tried[c]) \in Nat
        /\ Paid(S, quarantined, key[c]) \in Nat
    BY <1>0, Weights DEF TypeOK
  <2>5. Paid(S, Q, k) = Paid(S, quarantined, key[c]) + 1
    <3>1. (S \cap Q) \ {k} = ((S \cap quarantined) \ {key[c]}) \cup {key[c]}
      BY <2>3, <2>4
    <3>2. IsFiniteSet((S \cap quarantined) \ {key[c]})
      BY <2>4, SubsetCard
    <3> QED BY <3>1, <3>2, FS_AddElement DEF Paid
  <2>6. Cardinality(tried[c] \cup {k}) \in Nat
        /\ Cardinality(tried[c]) <= Cardinality(tried[c] \cup {k})
    <3>1. IsFiniteSet(tried[c] \cup {k}) /\ tried[c] \in SUBSET (tried[c] \cup {k})
          /\ Cardinality(tried[c] \cup {k}) \in Nat
      BY <2>3, <2>4, SubsetCard
    <3> QED BY <3>1, FS_Subset
  <2>7. rotation[c] <= attempt[c] + Cardinality(tried[c]) + Paid(S, quarantined, key[c])
    BY <1>0 DEF Bound
  <2>8. rotation[c] + 1 <= attempt[c] + Cardinality(tried[c] \cup {k}) + Paid(S, Q, k)
    BY <2>4, <2>5, <2>6, <2>7
  <2>9. /\ k \in tried[c] \cup {k} /\ tried[c] \cup {k} \subseteq S
        /\ Live(quarantined') \subseteq S
        /\ rotation[c] + 1 <= attempt[c] + Cardinality(tried[c] \cup {k})
                              + Paid(S, quarantined', k)
    BY <1>0, <2>3, <2>8
  <2> QED BY <1>0, <2>2, <2>9, LoopHeadShape
<1> QED BY <1>1, <1>2 DEF AuthFailure

LEMMA RotateOwn ==
  ASSUME TypeOK, NEW c \in Call, Shape(c), Bound(c), RateLimitRotate(c)
  PROVE  Shape(c)' /\ Bound(c)'
<1> DEFINE S == startLive[c]
           fresh == Live(quarantined) \ tried[c]
           k == NextLive(index, fresh)
<1>0. /\ pc[c] = "wire" /\ quarantined' = quarantined /\ fresh \in SUBSET Key
      /\ Live(quarantined) \subseteq S /\ tried[c] \subseteq S
  BY DEF RateLimitRotate, Live, TypeOK, Shape
<1>1. CASE fresh = {}
  <2>1. GiveUpOrSleep(c, "rotate", "rate")
    BY <1>1 DEF RateLimitRotate
  <2> QED BY <1>0, <2>1, SleepShape DEF Sleeping
<1>2. CASE fresh # {}
  <2>1. k \in fresh
    BY <1>0, <1>2, NextKeyType DEF TypeOK
  <2>2. LoopHead(c, k, attempt[c], tried[c] \cup {k}, rotation[c], lastExc[c], used[c])
    BY <1>2 DEF RateLimitRotate
  <2> HIDE DEF k
  <2>3. k \in S /\ k \notin quarantined /\ k \notin tried[c]
    BY <1>0, <2>1 DEF Live
  <2>4. /\ S \in SUBSET Key /\ attempt[c] \in Nat /\ rotation[c] \in Nat
        /\ Cardinality(tried[c]) \in Nat /\ tried[c] \in SUBSET Key
        /\ Paid(S, quarantined, key[c]) \in Nat
        /\ Paid(S, quarantined, k) \in Nat
    BY <1>0, <2>3, Weights DEF TypeOK
  <2>5. Paid(S, quarantined, key[c]) <= Paid(S, quarantined, k)
    <3>1. (S \cap quarantined) \ {k} = S \cap quarantined
      BY <2>3
    <3>2. (S \cap quarantined) \ {key[c]} \in SUBSET (S \cap quarantined)
      OBVIOUS
    <3>3. IsFiniteSet(S \cap quarantined)
      BY <2>4, SubsetCard
    <3> QED BY <3>1, <3>2, <3>3, FS_Subset DEF Paid
  <2>6. Cardinality(tried[c] \cup {k}) = Cardinality(tried[c]) + 1
    BY <2>3, <2>4, SubsetCard, FS_AddElement
  <2>7. rotation[c] <= attempt[c] + Cardinality(tried[c]) + Paid(S, quarantined, key[c])
    BY <1>0 DEF Bound
  <2>8. rotation[c] + 1 <= attempt[c] + Cardinality(tried[c] \cup {k})
                           + Paid(S, quarantined, k)
    BY <2>4, <2>5, <2>6, <2>7
  <2>9. /\ k \in tried[c] \cup {k} /\ tried[c] \cup {k} \subseteq S
        /\ Live(quarantined') \subseteq S
        /\ rotation[c] + 1 <= attempt[c] + Cardinality(tried[c] \cup {k})
                              + Paid(S, quarantined', k)
    BY <1>0, <2>3, <2>8
  <2> QED BY <1>0, <2>2, <2>9, LoopHeadShape
<1> QED BY <1>1, <1>2

LEMMA PlainOwn ==
  ASSUME TypeOK, NEW c \in Call, Shape(c), Bound(c), PlainRetry(c)
  PROVE  Shape(c)' /\ Bound(c)'
<1>1. PICK exc \in Retryable : GiveUpOrSleep(c, "retry", exc)
  BY DEF PlainRetry
<1>2. pc[c] = "wire" /\ UNCHANGED quarantined /\ "retry" \in Sleeping
  BY DEF PlainRetry, pool, Sleeping
<1> QED BY <1>1, <1>2, SleepShape

LEMMA EndOwn ==
  ASSUME TypeOK, NEW c \in Call, Shape(c), Bound(c), Success(c) \/ Rejected(c)
  PROVE  Shape(c)' /\ Bound(c)'
<1>1. PICK e : Raise(c, e)
  BY DEF Success, Rejected
<1>2. pc[c] = "wire" /\ UNCHANGED quarantined
  BY DEF Success, Rejected, pool
<1> QED BY <1>1, <1>2, RaiseShape DEF Shape

LEMMA WakeRotateOwn ==
  ASSUME TypeOK, NEW c \in Call, Shape(c), Bound(c), WakeRotate(c)
  PROVE  Shape(c)' /\ Bound(c)'
<1> DEFINE S == startLive[c]
           k == NextLive(index, Live(quarantined))
<1>0. /\ pc[c] = "rotate" /\ quarantined' = quarantined
      /\ Live(quarantined) \subseteq S /\ tried[c] \subseteq S
  BY DEF WakeRotate, Shape
<1>1. CASE Live(quarantined) = {} /\ Raise(c, "exhausted")
  BY <1>0, <1>1, RaiseShape
<1>2. CASE Live(quarantined) # {}
  <2>1. k \in Live(quarantined)
    BY <1>2, NextKeyType DEF TypeOK, Live
  <2>2. LoopHead(c, k, attempt[c] + 1, {k}, 0, lastExc[c], <<>>)
    BY <1>2 DEF WakeRotate
  <2> HIDE DEF k
  <2>3. k \in S /\ {k} \subseteq S /\ k \in {k}
    BY <1>0, <2>1
  <2>4. attempt[c] \in Nat /\ Paid(S, quarantined, k) \in Nat
    BY <1>0, <2>3, PaidGrows DEF TypeOK
  <2>5. 0 + 1 <= (attempt[c] + 1) + Cardinality({k}) + Paid(S, quarantined', k)
    <3>1. Cardinality({k}) = 1
      BY FS_Singleton
    <3>2. Paid(S, quarantined', k) = Paid(S, quarantined, k)
      BY <1>0
    <3> HIDE DEF S
    <3> QED BY <2>4, <3>1, <3>2
  <2> QED BY <1>0, <2>2, <2>3, <2>5, LoopHeadShape
<1> QED BY <1>1, <1>2 DEF WakeRotate

LEMMA WakeRetryOwn ==
  ASSUME TypeOK, NEW c \in Call, Shape(c), Bound(c), WakeRetry(c)
  PROVE  Shape(c)' /\ Bound(c)'
<1> DEFINE S == startLive[c]
<1>1. /\ pc[c] = "retry" /\ quarantined' = quarantined
      /\ Live(quarantined) \subseteq S /\ tried[c] \subseteq S /\ key[c] \in tried[c]
      /\ LoopHead(c, key[c], attempt[c] + 1, tried[c], rotation[c], lastExc[c], <<>>)
  BY DEF WakeRetry, Shape, Sleeping, pool
<1>2. /\ attempt[c] \in Nat /\ rotation[c] \in Nat /\ Cardinality(tried[c]) \in Nat
      /\ Paid(S, quarantined, key[c]) \in Nat
  BY <1>1, Weights DEF TypeOK, Sleeping
<1>3. rotation[c] <= attempt[c] + Cardinality(tried[c]) + Paid(S, quarantined, key[c])
  BY <1>1 DEF Bound
<1>4. rotation[c] + 1 <= (attempt[c] + 1) + Cardinality(tried[c])
                         + Paid(S, quarantined', key[c])
  BY <1>1, <1>2, <1>3
<1> QED BY <1>1, <1>4, LoopHeadShape
-----------------------------------------------------------------------------
(* The inductive invariant.                                                *)

LEMMA InitIInv == Init => IInv
<1> SUFFICES ASSUME Init PROVE IInv
  OBVIOUS
<1>1. TypeOK
  BY DEF Init, TypeOK, Key, Sleeping
<1>2. CallShape
  BY DEF Init, CallShape, Sleeping
<1>3. RotationBound
  BY DEF Init, RotationBound
<1> QED BY <1>1, <1>2, <1>3 DEF IInv

LEMMA StepIInv == IInv /\ [Next]_vars => IInv'
<1> SUFFICES ASSUME IInv, [Next]_vars PROVE IInv'
  OBVIOUS
<1>0. TypeOK /\ CallShape /\ \A d \in Call : Shape(d) /\ Bound(d)
  BY InvByCall DEF IInv
<1>1. TypeOK'
  BY <1>0, TypeStep
<1>2. ASSUME NEW c \in Call, Step(c) PROVE \A d \in Call : Shape(d)' /\ Bound(d)'
  <2>1. Shape(c)' /\ Bound(c)'
    BY <1>0, <1>2, StartOwn, EndOwn, AuthOwn, RotateOwn, PlainOwn, WakeRotateOwn,
       WakeRetryOwn DEF Step, Answer
  <2>2. ASSUME NEW d \in Call, d # c PROVE Shape(d)' /\ Bound(d)'
    BY <1>0, <1>2, <2>2, OtherCalls, QuarantineGrows, StillCall
  <2> QED BY <2>1, <2>2
<1>3. CASE UNCHANGED vars
  <2>1. ASSUME NEW d \in Call PROVE Shape(d)' /\ Bound(d)'
    BY <1>0, <1>3, StillCall DEF vars
  <2> QED BY <1>1, <2>1, InvByCall, <1>3 DEF IInv, CallShape, RotationBound, Shape, Bound, Paid
<1>4. ASSUME \A d \in Call : Shape(d)' /\ Bound(d)' PROVE CallShape' /\ RotationBound'
  BY <1>4 DEF CallShape, RotationBound, Shape, Bound, Paid
<1> QED BY <1>1, <1>2, <1>3, <1>4 DEF IInv, Next, AllDone

\* The loop's bookkeeping is sound in every reachable state, whatever the other
\* calls do to the pool.
THEOREM Invariant == Spec => []IInv
<1>1. IInv /\ [Next]_vars => IInv'
  BY StepIInv
<1> QED BY <1>1, InitIInv, PTL DEF Spec

THEOREM TypeCorrect == Spec => []TypeOK
BY Invariant, PTL DEF IInv
-----------------------------------------------------------------------------
(* With two attempts or more there is always room for the next turn.       *)

LEMMA Room ==
  ASSUME MaxRetries >= 2, NEW L \in Nat \ {0}, NEW r \in Nat,
         r <= MaxRetries + 2 * L - 3
  PROVE  ~ (r >= L * MaxRetries)
<1> DEFINE x == L - 1
           y == MaxRetries - 2
<1>1. x \in Nat /\ y \in Nat
  OBVIOUS
<1>2. x * y \in Nat
  <2> HIDE DEF x, y
  <2> QED BY <1>1
<1>3. L * MaxRetries = x * y + 2 * L + MaxRetries - 2
  OBVIOUS
<1> HIDE DEF x, y
<1> QED BY <1>2, <1>3

\* Room, spelled out for a call whose turns were paid for.
LEMMA RoomForTurn ==
  ASSUME MaxRetries >= 2, TypeOK, NEW c \in Call, Shape(c), Bound(c),
         pc[c] \in {"wire", "retry"},
         \/ /\ pc[c] = "retry"
         \/ \E Q \in SUBSET Key :
              /\ quarantined \cup {key[c]} \subseteq Q
              /\ Live(Q) # {}
         \/ Live(quarantined) \ tried[c] # {}
  PROVE  ~ (rotation[c] >= MaxRotations(c))
<1> DEFINE S == startLive[c]
           L == Cardinality(S)
           p == Paid(S, quarantined, key[c])
           t == Cardinality(tried[c])
<1>1. /\ S \in SUBSET Key /\ L \in Nat \ {0} /\ t \in 0 .. L /\ p \in 0 .. L - 1
      /\ attempt[c] \in 0 .. MaxRetries - 1 /\ rotation[c] \in Nat
      /\ key[c] \in S /\ tried[c] \subseteq S
  BY Weights DEF Sleeping, TypeOK
<1>2. rotation[c] <= attempt[c] + t + p
  BY DEF Bound
<1>3. IsFiniteSet(S)
  BY <1>1, SubsetCard
<1> SUFFICES rotation[c] <= MaxRetries + 2 * L - 3
  BY <1>1, Room DEF MaxRotations
<1>4. CASE pc[c] = "retry"
  <2>1. attempt[c] < MaxRetries - 1
    BY <1>4 DEF Shape, Sleeping
  <2> HIDE DEF S, L, p, t
  <2> QED BY <1>1, <1>2, <2>1
<1>5. ASSUME NEW Q \in SUBSET Key, quarantined \cup {key[c]} \subseteq Q, Live(Q) # {}
      PROVE  rotation[c] <= MaxRetries + 2 * L - 3
  <2>1. PICK l \in S : l \notin Q
    BY <1>5 DEF Live, Shape
  <2>2. /\ (S \cap quarantined) \ {key[c]} \in SUBSET ((S \ {key[c]}) \ {l})
        /\ l # key[c]
    BY <1>5, <2>1
  <2>3. /\ IsFiniteSet(S \ {key[c]}) /\ Cardinality(S \ {key[c]}) = Cardinality(S) - 1
    <3>1. key[c] \in S
      BY <1>1
    <3> HIDE DEF S
    <3> QED BY <1>3, <3>1, FS_RemoveElement
  <2>4. /\ IsFiniteSet((S \ {key[c]}) \ {l})
        /\ Cardinality((S \ {key[c]}) \ {l}) = Cardinality(S) - 1 - 1
    <3> DEFINE R == S \ {key[c]}
    <3>1. l \in R
      BY <2>1, <2>2
    <3>2. IsFiniteSet(R) /\ Cardinality(R) = Cardinality(S) - 1
      BY <2>3
    <3> SUFFICES /\ IsFiniteSet(R \ {l})
                 /\ Cardinality(R \ {l}) = Cardinality(S) - 1 - 1
      OBVIOUS
    <3> HIDE DEF S, R
    <3> QED BY <3>1, <3>2, FS_RemoveElement
  <2>5. p <= L - 2
    <3>1. Cardinality((S \cap quarantined) \ {key[c]}) <= L - 1 - 1
      BY <2>2, <2>4, FS_Subset
    <3>2. p = Cardinality((S \cap quarantined) \ {key[c]})
      BY DEF Paid
    <3> HIDE DEF L, p
    <3> QED BY <1>1, <3>1, <3>2
  <2> HIDE DEF S, L, p, t
  <2> QED BY <1>1, <1>2, <2>5
<1>6. CASE Live(quarantined) \ tried[c] # {}
  <2>1. PICK l \in S : l \notin tried[c]
    BY <1>6 DEF Shape
  <2>2. tried[c] \in SUBSET (S \ {l})
    BY <1>1, <2>1
  <2>3. IsFiniteSet(S \ {l}) /\ Cardinality(S \ {l}) = L - 1
    BY <1>3, <2>1, FS_RemoveElement
  <2>4. t <= L - 1
    BY <2>2, <2>3, FS_Subset
  <2> HIDE DEF S, L, p, t
  <2> QED BY <1>1, <1>2, <2>4
<1> QED BY <1>4, <1>5, <1>6

\* How a call's outcome changes: not at all, or to one that is neither an
\* early cut nor the unreachable RuntimeError.
Fine(c) ==
  /\ outcome'[c] # "unreachable"
  /\ outcome'[c] \in Retryable => attempt'[c] = MaxRetries - 1

LEMMA RaiseFine ==
  ASSUME TypeOK, NEW c \in Call, NEW e, Raise(c, e), e # "unreachable",
         e \in Retryable => attempt[c] = MaxRetries - 1
  PROVE  Fine(c)
BY DEF Raise, Fine, TypeOK

LEMMA SleepFine ==
  ASSUME TypeOK, NEW c \in Call, Shape(c), pc[c] = "wire", NEW kind, NEW exc \in Retryable,
         GiveUpOrSleep(c, kind, exc)
  PROVE  Fine(c)
<1>1. CASE attempt[c] = MaxRetries - 1 /\ Raise(c, exc)
  BY <1>1, RaiseFine DEF Retryable
<1>2. CASE Sleep(c, kind, exc)
  <2>1. outcome'[c] = NoExc
    BY <1>2 DEF Sleep, Shape
  <2> QED BY <2>1 DEF Fine, NoExc, Retryable
<1> QED BY <1>1, <1>2 DEF GiveUpOrSleep

LEMMA LoopHeadFine ==
  ASSUME TypeOK, NEW c \in Call, Shape(c), pc[c] # "done", NEW k, NEW a, NEW t, NEW r,
         NEW le \in Retryable \cup {NoExc}, NEW u, LoopHead(c, k, a, t, r, le, u),
         ~ (r >= MaxRotations(c))
  PROVE  Fine(c)
<1>1. CASE HasBudget /\ Raise(c, "budget")
  BY <1>1, RaiseFine DEF Retryable, NoExc
<1>2. CASE UNCHANGED <<startLive, outcome>>
  <2>1. outcome'[c] = NoExc
    BY <1>2 DEF Shape
  <2> QED BY <2>1 DEF Fine, NoExc, Retryable
<1> QED BY <1>1, <1>2, LoopHeadCases

LEMMA StepFine ==
  ASSUME MaxRetries >= 2, IInv, NEW c \in Call, Step(c)
  PROVE  Fine(c)
<1>0. TypeOK /\ Shape(c) /\ Bound(c) /\ lastExc[c] \in Retryable \cup {NoExc}
  BY InvByCall DEF IInv, TypeOK
<1>1. ASSUME NEW e \in {"ok", "rejected", "auth", "exhausted"}, Raise(c, e) PROVE Fine(c)
  BY <1>0, <1>1, RaiseFine DEF Retryable
<1>2. CASE Start(c)
  <2>1. CASE UNCHANGED <<attempt, outcome>>
    <3>1. outcome'[c] = NoExc
      BY <1>0, <1>2, <2>1 DEF Shape, Start
    <3> QED BY <3>1 DEF Fine, NoExc, Retryable
  <2> QED BY <1>1, <1>2, <2>1 DEF Start
<1>3. CASE Success(c) \/ Rejected(c)
  BY <1>1, <1>3 DEF Success, Rejected
<1>4. CASE AuthFailure(c)
  <2> DEFINE Q == quarantined \cup {key[c]}
             k == NextLive(index, Live(Q))
  <2>1. CASE Raise(c, "auth")
    BY <1>1, <2>1
  <2>2. CASE /\ Live(Q) # {}
             /\ LoopHead(c, k, attempt[c], tried[c] \cup {k}, rotation[c],
                         lastExc[c], used[c])
    <3>1. Q \in SUBSET Key /\ pc[c] = "wire"
      BY <1>0, <1>4 DEF TypeOK, AuthFailure
    <3>2. ~ (rotation[c] >= MaxRotations(c))
      BY <1>0, <2>2, <3>1, RoomForTurn
    <3> HIDE DEF k
    <3> QED BY <1>0, <2>2, <3>1, <3>2, LoopHeadFine
  <2> QED BY <1>4, <2>1, <2>2 DEF AuthFailure
<1>5. CASE RateLimitRotate(c)
  <2> DEFINE fresh == Live(quarantined) \ tried[c]
             k == NextLive(index, fresh)
  <2>0. pc[c] = "wire"
    BY <1>5 DEF RateLimitRotate
  <2>1. CASE GiveUpOrSleep(c, "rotate", "rate")
    BY <1>0, <2>0, <2>1, SleepFine DEF Retryable
  <2>2. CASE /\ fresh # {}
             /\ LoopHead(c, k, attempt[c], tried[c] \cup {k}, rotation[c],
                         lastExc[c], used[c])
    <3>1. ~ (rotation[c] >= MaxRotations(c))
      BY <1>0, <2>0, <2>2, RoomForTurn
    <3> HIDE DEF k
    <3> QED BY <1>0, <2>0, <2>2, <3>1, LoopHeadFine
  <2> QED BY <1>5, <2>1, <2>2 DEF RateLimitRotate
<1>6. CASE PlainRetry(c)
  BY <1>0, <1>6, SleepFine DEF PlainRetry
<1>7. CASE WakeRotate(c)
  <2> DEFINE k == NextLive(index, Live(quarantined))
  <2>1. CASE Raise(c, "exhausted")
    BY <1>1, <2>1
  <2>2. CASE LoopHead(c, k, attempt[c] + 1, {k}, 0, lastExc[c], <<>>)
    <3>1. pc[c] = "rotate"
      BY <1>7 DEF WakeRotate
    <3>2. /\ startLive[c] \in SUBSET Key /\ Cardinality(startLive[c]) \in Nat \ {0}
      BY <1>0, <3>1, Weights DEF Sleeping
    <3>3. ~ (0 >= MaxRotations(c))
      BY <3>2, Room DEF MaxRotations
    <3> HIDE DEF k
    <3> QED BY <1>0, <2>2, <3>1, <3>3, LoopHeadFine
  <2> QED BY <1>7, <2>1, <2>2 DEF WakeRotate
<1>8. CASE WakeRetry(c)
  <2>1. pc[c] = "retry"
    BY <1>8 DEF WakeRetry
  <2>2. ~ (rotation[c] >= MaxRotations(c))
    BY <1>0, <2>1, RoomForTurn
  <2>3. LoopHead(c, key[c], attempt[c] + 1, tried[c], rotation[c], lastExc[c], <<>>)
    BY <1>8 DEF WakeRetry
  <2> QED BY <1>0, <2>1, <2>2, <2>3, LoopHeadFine
<1> QED BY <1>2, <1>3, <1>4, <1>5, <1>6, <1>7, <1>8 DEF Step, Answer

\* "raise ... RuntimeError("unreachable")" is unreachable, and no call gives up
\* before its attempts are used, as long as max_retries is at least 2.
THEOREM RotationCapNeverBites ==
  MaxRetries >= 2 => (Spec => []NeverUnreachable)
<1> SUFFICES ASSUME MaxRetries >= 2
             PROVE  Spec => []NeverUnreachable
  OBVIOUS
<1>1. Init => NeverUnreachable
  BY DEF Init, NeverUnreachable, NoExc, Retryable
<1>2. ASSUME IInv, NeverUnreachable, [Next]_vars PROVE NeverUnreachable'
  <2>1. ASSUME NEW c \in Call, Step(c) PROVE NeverUnreachable'
    <3>0. TypeOK
      BY <1>2 DEF IInv
    <3>1. Fine(c)
      BY <1>2, <2>1, StepFine
    <3>2. ASSUME NEW d \in Call, d # c
          PROVE  outcome'[d] = outcome[d] /\ attempt'[d] = attempt[d]
      BY <2>1, <3>0, <3>2, OtherCalls
    <3>3. ASSUME NEW d \in Call
          PROVE  /\ outcome'[d] # "unreachable"
                 /\ outcome'[d] \in Retryable => attempt'[d] = MaxRetries - 1
      <4>1. CASE d = c
        BY <3>1, <4>1 DEF Fine
      <4>2. CASE d # c
        <5>1. /\ outcome[d] # "unreachable"
              /\ outcome[d] \in Retryable => attempt[d] = MaxRetries - 1
          BY <1>2 DEF NeverUnreachable
        <5> QED BY <3>2, <4>2, <5>1
      <4> QED BY <4>1, <4>2
    <3> QED BY <3>3 DEF NeverUnreachable
  <2>2. CASE UNCHANGED vars
    BY <1>2, <2>2 DEF vars, NeverUnreachable
  <2> QED BY <1>2, <2>1, <2>2 DEF Next, AllDone
<1> QED BY <1>1, <1>2, Invariant, PTL DEF Spec

\* Only refused keys leave the pool, and AuthError or an exhausted pool is
\* reported only when every key has left it.
THEOREM PoolSurvives == Spec => []PoolSurvivesBadKeys
<1>1. Init => PoolSurvivesBadKeys
  BY DEF Init, PoolSurvivesBadKeys, NoExc
<1>2. ASSUME IInv, PoolSurvivesBadKeys, [Next]_vars PROVE PoolSurvivesBadKeys'
  <2>1. ASSUME NEW c \in Call, Step(c) PROVE PoolSurvivesBadKeys'
    <3>0. TypeOK /\ TypeOK'
      BY <1>2, StepIInv DEF IInv
    <3>1. quarantined \subseteq quarantined' /\ quarantined' \subseteq BadKey
          /\ quarantined' \subseteq Key
      BY <1>2, <2>1, <3>0 DEF Step, Answer, Start, Success, Rejected, AuthFailure,
         RateLimitRotate, PlainRetry, WakeRotate, WakeRetry, pool, PoolSurvivesBadKeys,
         TypeOK
    <3>2. outcome'[c] \in {"auth", "exhausted"} => quarantined' = Key
      <4>1. ASSUME NEW e, Raise(c, e) PROVE outcome'[c] = e
        BY <3>0, <4>1 DEF Raise, TypeOK
      <4>2. pc[c] # "done" /\ outcome[c] = NoExc
        BY <1>2, <2>1 DEF IInv, CallShape, Step, Answer, Start, Success, Rejected,
           AuthFailure, RateLimitRotate, PlainRetry, WakeRotate, WakeRetry
      <4>3. ASSUME NEW k, NEW a, NEW t, NEW r, NEW le \in Retryable \cup {NoExc}, NEW u,
                   LoopHead(c, k, a, t, r, le, u)
            PROVE  outcome'[c] \notin {"auth", "exhausted"}
        BY <4>1, <4>2, <4>3, LoopHeadCases DEF Retryable, NoExc
      <4>4. ASSUME NEW kind, NEW exc \in Retryable, GiveUpOrSleep(c, kind, exc)
            PROVE  outcome'[c] \notin {"auth", "exhausted"}
        BY <4>1, <4>2, <4>4 DEF GiveUpOrSleep, Sleep, Retryable, NoExc
      <4>5. lastExc[c] \in Retryable \cup {NoExc}
        BY <3>0 DEF TypeOK
      <4>6. \A Q \in SUBSET Key : Live(Q) = {} => Q = Key
        BY DEF Live
      <4>7. CASE Start(c)
        BY <3>0, <4>2, <4>6, <4>7 DEF Start, NoExc, TypeOK
      <4>8. CASE Success(c) \/ Rejected(c)
        BY <4>1, <4>8 DEF Success, Rejected
      <4>9. CASE AuthFailure(c)
        BY <3>0, <4>3, <4>5, <4>6, <4>9 DEF AuthFailure, TypeOK
      <4>10. CASE RateLimitRotate(c)
        BY <4>3, <4>4, <4>5, <4>10 DEF RateLimitRotate, Retryable
      <4>11. CASE PlainRetry(c)
        BY <4>4, <4>11 DEF PlainRetry
      <4>12. CASE WakeRotate(c)
        BY <3>0, <4>3, <4>5, <4>6, <4>12 DEF WakeRotate, TypeOK
      <4>13. CASE WakeRetry(c)
        BY <4>3, <4>5, <4>13 DEF WakeRetry
      <4> QED BY <2>1, <4>7, <4>8, <4>9, <4>10, <4>11, <4>12, <4>13 DEF Step, Answer
    <3>3. ASSUME NEW d \in Call, d # c, outcome'[d] \in {"auth", "exhausted"}
          PROVE  quarantined' = Key
      <4>1. outcome[d] = outcome'[d]
        BY <2>1, <3>0, <3>3, OtherCalls
      <4> QED BY <1>2, <3>1, <3>3, <4>1 DEF PoolSurvivesBadKeys
    <3> QED BY <3>1, <3>2, <3>3 DEF PoolSurvivesBadKeys
  <2>2. CASE UNCHANGED vars
    BY <1>2, <2>2 DEF vars, PoolSurvivesBadKeys
  <2> QED BY <1>2, <2>1, <2>2 DEF Next, AllDone
<1> QED BY <1>1, <1>2, Invariant, PTL DEF Spec

\* A request that goes out on a quarantined key is the plain retry of a call
\* that fell asleep while the key was still good.
THEOREM StaleKeys == Spec => StaleKeyOnlyOnRetry
<1>1. ASSUME IInv, [Next]_vars, NEW c \in Call, Sends(c), key'[c] \in quarantined'
      PROVE  pc[c] = "retry" /\ key'[c] = key[c]
  <2>0. TypeOK
    BY <1>1 DEF IInv
  <2>1. pc'[c] = "wire" /\ used'[c] # used[c]
    BY <1>1 DEF Sends
  <2>2. PICK d \in Call : Step(d)
    BY <1>1, <2>1 DEF Next, AllDone, vars
  <2>a. ASSUME NEW d1 \in Call, NEW e, Raise(d1, e) PROVE used' = used
    BY <2>a DEF Raise
  <2>b. ASSUME NEW d1 \in Call, NEW kind, NEW exc, GiveUpOrSleep(d1, kind, exc)
        PROVE  used' = used
    BY <2>b DEF GiveUpOrSleep, Raise, Sleep
  <2>c. ASSUME NEW d1 \in Call, NEW k, NEW a, NEW t, NEW r, NEW le, NEW u,
               LoopHead(d1, k, a, t, r, le, u)
        PROVE  d1 = c /\ key'[c] = k
    <3>1. /\ key' = [key EXCEPT ![d1] = k]
          /\ used' = [used EXCEPT ![d1] = Append(u, k)]
      BY <2>1, <2>a, <2>c, LoopHeadCases
    <3> QED BY <2>0, <2>1, <3>1 DEF TypeOK
  <2>3. CASE Start(d)
    <3>1. /\ Live(quarantined) # {} /\ UNCHANGED quarantined
          /\ key' = [key EXCEPT ![d] = NextLive(index, Live(quarantined))]
          /\ used' = [used EXCEPT ![d] = <<NextLive(index, Live(quarantined))>>]
      BY <2>1, <2>3, <2>a DEF Start
    <3>2. d = c
      BY <2>0, <2>1, <3>1 DEF TypeOK
    <3>3. NextLive(index, Live(quarantined)) \in Live(quarantined)
      BY <2>0, <3>1, NextKeyType DEF TypeOK, Live
    <3> QED BY <1>1, <2>0, <3>1, <3>2, <3>3 DEF Live, TypeOK
  <2>4. CASE Success(d) \/ Rejected(d) \/ PlainRetry(d)
    BY <2>1, <2>4, <2>a, <2>b DEF Success, Rejected, PlainRetry
  <2>5. CASE AuthFailure(d)
    <3> DEFINE Q == quarantined \cup {key[d]}
               k == NextLive(index, Live(Q))
    <3>1. /\ Live(Q) # {} /\ quarantined' = Q
          /\ LoopHead(d, k, attempt[d], tried[d] \cup {k}, rotation[d], lastExc[d], used[d])
      BY <2>1, <2>5, <2>a DEF AuthFailure
    <3>2. k \in Live(Q)
      BY <2>0, <3>1, NextKeyType DEF TypeOK, Live
    <3>3. key'[c] = k
      BY <2>c, <3>1
    <3> QED BY <1>1, <3>1, <3>2, <3>3 DEF Live
  <2>6. CASE RateLimitRotate(d)
    <3> DEFINE fresh == Live(quarantined) \ tried[d]
               k == NextLive(index, fresh)
    <3>1. /\ fresh # {} /\ quarantined' = quarantined
          /\ LoopHead(d, k, attempt[d], tried[d] \cup {k}, rotation[d], lastExc[d], used[d])
      BY <2>1, <2>6, <2>b DEF RateLimitRotate
    <3>2. k \in fresh
      BY <2>0, <3>1, NextKeyType DEF TypeOK, Live
    <3>3. key'[c] = k
      BY <2>c, <3>1
    <3> QED BY <1>1, <3>1, <3>2, <3>3 DEF Live
  <2>7. CASE WakeRotate(d)
    <3> DEFINE k == NextLive(index, Live(quarantined))
    <3>1. /\ Live(quarantined) # {} /\ quarantined' = quarantined
          /\ LoopHead(d, k, attempt[d] + 1, {k}, 0, lastExc[d], <<>>)
      BY <2>1, <2>7, <2>a DEF WakeRotate
    <3>2. k \in Live(quarantined)
      BY <2>0, <3>1, NextKeyType DEF TypeOK, Live
    <3>3. key'[c] = k
      BY <2>c, <3>1
    <3> QED BY <1>1, <3>1, <3>2, <3>3 DEF Live
  <2>8. CASE WakeRetry(d)
    <3>1. LoopHead(d, key[d], attempt[d] + 1, tried[d], rotation[d], lastExc[d], <<>>)
      BY <2>8 DEF WakeRetry
    <3> QED BY <2>8, <2>c, <3>1 DEF WakeRetry
  <2> QED BY <2>2, <2>3, <2>4, <2>5, <2>6, <2>7, <2>8 DEF Step, Answer
<1>2. IInv /\ [Next]_vars
        => [\A c \in Call : Sends(c) /\ key'[c] \in quarantined'
              => pc[c] = "retry" /\ key'[c] = key[c]]_vars
  BY <1>1
<1> QED BY <1>2, Invariant, PTL DEF Spec, StaleKeyOnlyOnRetry
-----------------------------------------------------------------------------
(* How many requests a call sends between two sleeps.                      *)

Burst(d) ==
  pc[d] = "wire" =>
    Len(used[d]) <= Cardinality(tried[d]) + Paid(startLive[d], quarantined, key[d])

LEMMA BurstByCall == BurstPaid <=> \A d \in Call : Burst(d)
BY DEF BurstPaid, Burst, Paid

\* A call that does not move is owed no less: other calls' refusals only add.
LEMMA StillBurst ==
  ASSUME TypeOK, NEW d \in Call, Burst(d), quarantined \subseteq quarantined',
         pc'[d] = pc[d], key'[d] = key[d], tried'[d] = tried[d],
         startLive'[d] = startLive[d], used'[d] = used[d]
  PROVE  Burst(d)'
<1>1. startLive[d] \in SUBSET Key /\ tried[d] \in SUBSET Key /\ Len(used[d]) \in Nat
  BY DEF TypeOK
<1>2. Cardinality(tried[d]) \in Nat
  BY <1>1, SubsetCard
<1>3. /\ Paid(startLive[d], quarantined, key[d]) \in Nat
      /\ Paid(startLive[d], quarantined', key[d]) \in Nat
      /\ Paid(startLive[d], quarantined, key[d])
           <= Paid(startLive[d], quarantined', key[d])
  BY <1>1, PaidGrows
<1>4. Burst(d)' = (pc[d] = "wire" =>
         Len(used[d]) <= Cardinality(tried[d])
                         + Paid(startLive[d], quarantined', key[d]))
  BY DEF Burst, Paid
<1> QED BY <1>1, <1>2, <1>3, <1>4 DEF Burst

\* A call that ends or falls asleep has no burst.
LEMMA QuietBurst ==
  ASSUME TypeOK, NEW c \in Call, NEW e, NEW kind \in Sleeping, NEW exc,
         Raise(c, e) \/ GiveUpOrSleep(c, kind, exc)
  PROVE  Burst(c)'
BY DEF Raise, GiveUpOrSleep, Sleep, Sleeping, Burst, TypeOK

\* The head of the loop sends one request more, which must be paid for.
LEMMA LoopHeadBurst ==
  ASSUME TypeOK, NEW c \in Call, NEW k \in Key, NEW a, NEW t, NEW r, NEW le,
         NEW u \in Seq(Key), LoopHead(c, k, a, t, r, le, u),
         Len(u) + 1 <= Cardinality(t) + Paid(startLive[c], quarantined', k)
  PROVE  Burst(c)'
<1>1. ASSUME NEW e, Raise(c, e) PROVE Burst(c)'
  BY <1>1 DEF Raise, Burst, TypeOK
<1>2. CASE /\ pc' = [pc EXCEPT ![c] = "wire"]
           /\ key' = [key EXCEPT ![c] = k]
           /\ tried' = [tried EXCEPT ![c] = t]
           /\ used' = [used EXCEPT ![c] = Append(u, k)]
           /\ UNCHANGED <<startLive, outcome>>
  <2>1. /\ key'[c] = k /\ tried'[c] = t /\ used'[c] = Append(u, k)
        /\ startLive'[c] = startLive[c]
    BY <1>2 DEF TypeOK
  <2>2. Len(Append(u, k)) = Len(u) + 1
    OBVIOUS
  <2> QED BY <2>1, <2>2 DEF Burst, Paid
<1> QED BY <1>1, <1>2, LoopHeadCases

LEMMA StartBurst ==
  ASSUME TypeOK, NEW c \in Call, Start(c)
  PROVE  Burst(c)'
<1>1. CASE Raise(c, "exhausted")
  BY <1>1 DEF Raise, Burst, TypeOK
<1>2. CASE Live(quarantined) # {}
  <2> DEFINE k == NextLive(index, Live(quarantined))
  <2>1. /\ key'[c] = k /\ tried'[c] = {k} /\ used'[c] = <<k>>
        /\ startLive'[c] = Live(quarantined) /\ quarantined' = quarantined
    BY <1>2 DEF Start, TypeOK
  <2> HIDE DEF k
  <2>2. Len(<<k>>) = 1 /\ Cardinality({k}) = 1
    BY FS_Singleton
  <2>3. Live(quarantined) \in SUBSET Key
    BY DEF Live
  <2>4. Paid(Live(quarantined), quarantined, k) \in Nat
    BY <2>3, PaidGrows
  <2>5. 1 <= 1 + Paid(Live(quarantined), quarantined, k)
    BY <2>4
  <2> QED BY <2>1, <2>2, <2>5 DEF Burst, Paid
<1> QED BY <1>1, <1>2 DEF Start

\* A refused key is paid for by its own quarantine.
LEMMA AuthBurst ==
  ASSUME TypeOK, NEW c \in Call, Shape(c), Bound(c), Burst(c), AuthFailure(c)
  PROVE  Burst(c)'
<1> DEFINE S == startLive[c]
           Q == quarantined \cup {key[c]}
           k == NextLive(index, Live(Q))
<1>0. /\ pc[c] = "wire" /\ quarantined' = Q /\ Live(Q) \in SUBSET Key
      /\ Q \in SUBSET Key /\ used[c] \in Seq(Key)
  BY DEF AuthFailure, Live, TypeOK
<1>1. CASE Raise(c, "auth")
  BY <1>1 DEF Raise, Burst, TypeOK
<1>2. CASE Live(Q) # {}
  <2>1. k \in Live(Q)
    BY <1>0, <1>2, NextKeyType DEF TypeOK
  <2>2. LoopHead(c, k, attempt[c], tried[c] \cup {k}, rotation[c], lastExc[c], used[c])
    BY <1>2 DEF AuthFailure
  <2> HIDE DEF k
  <2>3. k \in Key /\ k \notin Q
    BY <2>1 DEF Live
  <2>4. /\ key[c] \in S /\ S \in SUBSET Key /\ Cardinality(tried[c]) \in Nat
        /\ tried[c] \in SUBSET Key /\ Paid(S, quarantined, key[c]) \in Nat
        /\ Len(used[c]) \in Nat
    BY <1>0, Weights DEF TypeOK
  <2>5. Paid(S, Q, k) = Paid(S, quarantined, key[c]) + 1
    <3>1. (S \cap Q) \ {k} = ((S \cap quarantined) \ {key[c]}) \cup {key[c]}
      BY <2>3, <2>4
    <3>2. IsFiniteSet((S \cap quarantined) \ {key[c]})
      BY <2>4, SubsetCard
    <3> QED BY <3>1, <3>2, FS_AddElement DEF Paid
  <2>6. Cardinality(tried[c] \cup {k}) \in Nat
        /\ Cardinality(tried[c]) <= Cardinality(tried[c] \cup {k})
    <3>1. IsFiniteSet(tried[c] \cup {k}) /\ tried[c] \in SUBSET (tried[c] \cup {k})
          /\ Cardinality(tried[c] \cup {k}) \in Nat
      BY <2>3, <2>4, SubsetCard
    <3> QED BY <3>1, FS_Subset
  <2>7. Len(used[c]) <= Cardinality(tried[c]) + Paid(S, quarantined, key[c])
    BY <1>0 DEF Burst
  <2>8. Len(used[c]) + 1 <= Cardinality(tried[c] \cup {k}) + Paid(S, Q, k)
    BY <2>4, <2>5, <2>6, <2>7
  <2>9. Len(used[c]) + 1 <= Cardinality(tried[c] \cup {k}) + Paid(S, quarantined', k)
    BY <1>0, <2>8
  <2> QED BY <1>0, <2>2, <2>3, <2>9, LoopHeadBurst
<1> QED BY <1>1, <1>2 DEF AuthFailure

\* A key tried for the first time pays for its own request.
LEMMA RotateBurst ==
  ASSUME TypeOK, NEW c \in Call, Shape(c), Bound(c), Burst(c), RateLimitRotate(c)
  PROVE  Burst(c)'
<1> DEFINE S == startLive[c]
           fresh == Live(quarantined) \ tried[c]
           k == NextLive(index, fresh)
<1>0. /\ pc[c] = "wire" /\ quarantined' = quarantined /\ fresh \in SUBSET Key
      /\ Live(quarantined) \subseteq S /\ used[c] \in Seq(Key)
  BY DEF RateLimitRotate, Live, TypeOK, Shape
<1>1. CASE fresh = {}
  BY <1>1, QuietBurst DEF RateLimitRotate, Sleeping
<1>2. CASE fresh # {}
  <2>1. k \in fresh
    BY <1>0, <1>2, NextKeyType DEF TypeOK
  <2>2. LoopHead(c, k, attempt[c], tried[c] \cup {k}, rotation[c], lastExc[c], used[c])
    BY <1>2 DEF RateLimitRotate
  <2> HIDE DEF k
  <2>3. k \in S /\ k \notin quarantined /\ k \notin tried[c] /\ k \in Key
    BY <1>0, <2>1 DEF Live
  <2>4. /\ S \in SUBSET Key /\ Cardinality(tried[c]) \in Nat /\ tried[c] \in SUBSET Key
        /\ Paid(S, quarantined, key[c]) \in Nat
        /\ Paid(S, quarantined, k) \in Nat /\ Len(used[c]) \in Nat
    BY <1>0, <2>3, Weights DEF TypeOK
  <2>5. Paid(S, quarantined, key[c]) <= Paid(S, quarantined, k)
    <3>1. (S \cap quarantined) \ {k} = S \cap quarantined
      BY <2>3
    <3>2. (S \cap quarantined) \ {key[c]} \in SUBSET (S \cap quarantined)
      OBVIOUS
    <3>3. IsFiniteSet(S \cap quarantined)
      BY <2>4, SubsetCard
    <3> QED BY <3>1, <3>2, <3>3, FS_Subset DEF Paid
  <2>6. Cardinality(tried[c] \cup {k}) = Cardinality(tried[c]) + 1
    BY <2>3, <2>4, SubsetCard, FS_AddElement
  <2>7. Len(used[c]) <= Cardinality(tried[c]) + Paid(S, quarantined, key[c])
    BY <1>0 DEF Burst
  <2>8. Len(used[c]) + 1 <= Cardinality(tried[c] \cup {k}) + Paid(S, quarantined, k)
    BY <2>4, <2>5, <2>6, <2>7
  <2>9. Len(used[c]) + 1 <= Cardinality(tried[c] \cup {k}) + Paid(S, quarantined', k)
    BY <1>0, <2>8
  <2> QED BY <1>0, <2>2, <2>3, <2>9, LoopHeadBurst
<1> QED BY <1>1, <1>2

\* A call that wakes up starts a new burst.
LEMMA WakeBurst ==
  ASSUME TypeOK, NEW c \in Call, Shape(c), Bound(c), WakeRotate(c) \/ WakeRetry(c)
  PROVE  Burst(c)'
<1>0. /\ startLive[c] \in SUBSET Key /\ key[c] \in tried[c] /\ tried[c] \in SUBSET Key
      /\ quarantined' = quarantined /\ Live(quarantined) \subseteq startLive[c]
  BY DEF TypeOK, Shape, Sleeping, WakeRotate, WakeRetry, pool
<1>1. ASSUME NEW k \in Key PROVE Paid(startLive[c], quarantined', k) \in Nat
  BY <1>0, PaidGrows
<1>2. <<>> \in Seq(Key) /\ Len(<<>>) = 0
  OBVIOUS
<1>3. CASE WakeRotate(c)
  <2> DEFINE k == NextLive(index, Live(quarantined))
  <2>1. CASE Raise(c, "exhausted")
    BY <2>1 DEF Raise, Burst, TypeOK
  <2>2. CASE /\ Live(quarantined) # {}
             /\ LoopHead(c, k, attempt[c] + 1, {k}, 0, lastExc[c], <<>>)
    <3>1. k \in Key
      BY <2>2, NextKeyType DEF TypeOK, Live
    <3> HIDE DEF k
    <3>2. Cardinality({k}) = 1
      BY FS_Singleton
    <3>3. Len(<<>>) + 1 <= Cardinality({k}) + Paid(startLive[c], quarantined', k)
      BY <1>1, <1>2, <3>1, <3>2
    <3> QED BY <1>2, <2>2, <3>1, <3>3, LoopHeadBurst
  <2> QED BY <1>3, <2>1, <2>2 DEF WakeRotate
<1>4. CASE WakeRetry(c)
  <2>1. LoopHead(c, key[c], attempt[c] + 1, tried[c], rotation[c], lastExc[c], <<>>)
    BY <1>4 DEF WakeRetry
  <2>2. key[c] \in Key
    BY DEF TypeOK
  <2>3. Cardinality(tried[c]) \in Nat \ {0}
    BY <1>0, SubsetCard, FS_EmptySet
  <2>4. Len(<<>>) + 1 <= Cardinality(tried[c]) + Paid(startLive[c], quarantined', key[c])
    BY <1>1, <1>2, <2>2, <2>3
  <2> QED BY <1>2, <2>1, <2>2, <2>4, LoopHeadBurst
<1> QED BY <1>3, <1>4

LEMMA StepBurst == IInv /\ BurstPaid /\ [Next]_vars => BurstPaid'
<1> SUFFICES ASSUME IInv, BurstPaid, [Next]_vars PROVE BurstPaid'
  OBVIOUS
<1>0. TypeOK /\ \A d \in Call : Shape(d) /\ Bound(d) /\ Burst(d)
  BY InvByCall, BurstByCall DEF IInv
<1> SUFFICES \A d \in Call : Burst(d)'
  BY DEF BurstPaid, Burst, Paid
<1>1. ASSUME NEW c \in Call, Step(c) PROVE \A d \in Call : Burst(d)'
  <2>1. Burst(c)'
    <3>1. CASE Success(c) \/ Rejected(c)
      BY <1>0, <3>1, QuietBurst DEF Success, Rejected, Sleeping
    <3>2. CASE PlainRetry(c)
      BY <1>0, <3>2, QuietBurst DEF PlainRetry, Sleeping
    <3> QED BY <1>0, <1>1, <3>1, <3>2, StartBurst, AuthBurst, RotateBurst, WakeBurst
            DEF Step, Answer
  <2>2. ASSUME NEW d \in Call, d # c PROVE Burst(d)'
    BY <1>0, <1>1, <2>2, OtherCalls, QuarantineGrows, StillBurst
  <2> QED BY <2>1, <2>2
<1>2. CASE UNCHANGED vars
  BY <1>0, <1>2, StillBurst DEF vars
<1> QED BY <1>1, <1>2 DEF Next, AllDone

\* Between two sleeps a call sends fewer requests than twice the keys that were
\* live when it started, however many other calls share the pool.
THEOREM BurstBounded == Spec => []BurstBound
<1>1. Init => BurstPaid
  BY DEF Init, BurstPaid
<1>2. IInv /\ BurstPaid => BurstBound
  <2> SUFFICES ASSUME IInv, BurstPaid, NEW c \in Call, pc[c] = "wire"
               PROVE  Len(used[c]) < 2 * Cardinality(startLive[c])
    BY DEF BurstBound
  <2>1. TypeOK /\ Shape(c) /\ Bound(c) /\ Burst(c) /\ quarantined \in SUBSET Key
    BY InvByCall, BurstByCall DEF IInv, TypeOK
  <2> DEFINE L == Cardinality(startLive[c])
             t == Cardinality(tried[c])
             p == Paid(startLive[c], quarantined, key[c])
             n == Len(used[c])
  <2>2. L \in Nat \ {0} /\ t \in 0 .. L /\ p \in 0 .. L - 1
    BY <2>1, Weights
  <2>3. n \in Nat /\ n <= t + p
    BY <2>1 DEF Burst, TypeOK
  <2> HIDE DEF L, t, p, n
  <2>4. n < 2 * L
    BY <2>2, <2>3
  <2> QED BY <2>4 DEF L, n
<1> QED BY <1>1, <1>2, StepBurst, Invariant, PTL DEF Spec

-----------------------------------------------------------------------------
(* The pool by itself, under any interleaving of next() and quarantine(): *)
(* the theorems about PoolSpec use none of the above but the ring.        *)

\* A live key that has not had its turn since k had it lies nearer to the index
\* than k: next() comes to it first.
Queue ==
  \A k \in Key : \A l \in Live(quarantined) \ {k} :
    l \notin since[k] => Steps(index, l) < Steps(index, k)

PoolInv == PoolTypeOK /\ Queue

LEMMA TakeType ==
  ASSUME PoolTypeOK, NEW k \in Key, Take(k)
  PROVE  PoolTypeOK'
BY AfterType DEF PoolTypeOK, Take

\* next() returns the live key nearest to the index.
LEMMA TakeNearest ==
  ASSUME PoolTypeOK, NEW k \in Key, Take(k)
  PROVE  /\ k \in Live(quarantined)
         /\ \A l \in Live(quarantined) \ {k} : Steps(index, k) < Steps(index, l)
<1>1. Live(quarantined) \in SUBSET Key /\ index \in Key
  BY DEF PoolTypeOK, Live
<1>2. k \in Live(quarantined)
  BY <1>1, NextLiveInSet DEF Take
<1>3. ASSUME NEW l \in Live(quarantined) \ {k} PROVE Steps(index, k) < Steps(index, l)
  <2>1. l \in Key /\ Steps(index, k) # Steps(index, l)
    BY <1>1, StepsInjective
  <2>2. Steps(index, k) <= Steps(index, l)
    BY <1>1, NextLiveNearest DEF Take
  <2> QED BY <1>1, <2>1, <2>2, StepsType
<1> QED BY <1>2, <1>3

LEMMA TakePoolInv ==
  ASSUME PoolInv, NEW k \in Key, Take(k)
  PROVE  PoolInv'
<1>0. PoolTypeOK /\ index \in Key /\ index' = After(k) /\ quarantined' = quarantined
  BY DEF PoolInv, PoolTypeOK, Take
<1>1. ASSUME NEW m \in Key, NEW l \in Live(quarantined) \ {m}, l \notin since'[m]
      PROVE  Steps(index', l) < Steps(index', m)
  <2>0. l \in Key
    BY DEF Live
  <2>1. CASE m = k
    BY <1>0, <1>1, <2>0, <2>1, StepsFurthest
  <2>2. CASE m # k
    <3>1. l \notin since[m] /\ l # k
      BY <1>0, <1>1, <2>2 DEF Take, PoolTypeOK
    <3>2. Steps(index, l) < Steps(index, m)
      BY <1>1, <3>1 DEF PoolInv, Queue
    <3>3. Steps(index, k) < Steps(index, l)
      BY <1>0, <1>1, <3>1, TakeNearest
    <3>4. /\ Steps(index, k) \in Int /\ Steps(index, l) \in Int /\ Steps(index, m) \in Int
      BY <1>0, <2>0, StepsType
    <3>5. Steps(index, k) < Steps(index, m)
      BY <3>2, <3>3, <3>4
    <3>6. /\ Steps(After(k), l) = Steps(index, l) - Steps(index, k) - 1
          /\ Steps(After(k), m) = Steps(index, m) - Steps(index, k) - 1
      BY <1>0, <2>0, <3>3, <3>5, StepsAfter
    <3> QED BY <1>0, <3>2, <3>4, <3>6
  <2> QED BY <2>1, <2>2
<1>2. Queue'
  BY <1>0, <1>1 DEF Queue
<1> QED BY <1>0, <1>2, TakeType DEF PoolInv

LEMMA PoolNextInv ==
  ASSUME PoolInv, [PoolNext]_(poolVars)
  PROVE  PoolInv'
<1>1. ASSUME NEW k \in Key, Quarantine(k) PROVE PoolInv'
  BY <1>1 DEF Quarantine, PoolInv, PoolTypeOK, Queue, Live
<1>2. CASE UNCHANGED poolVars
  BY <1>2 DEF poolVars, PoolInv, PoolTypeOK, Queue
<1> QED BY <1>1, <1>2, TakePoolInv DEF PoolNext

LEMMA PoolInitType == PoolInit => PoolTypeOK
<1> SUFFICES ASSUME PoolInit PROVE PoolTypeOK
  OBVIOUS
<1>1. odd \in BOOLEAN
  BY DEF PoolInit
<1>2. 0 \in Key
  BY NumKeysAssumption DEF Key
<1> QED BY <1>1, <1>2 DEF PoolInit, PoolTypeOK

LEMMA PoolInvHolds == PoolSpec => []PoolInv
<1>1. PoolInit => PoolInv
  <2> SUFFICES ASSUME PoolInit PROVE PoolTypeOK /\ Queue
    BY DEF PoolInv
  <2>1. Queue
    BY DEF PoolInit, Queue, Live
  <2> QED BY <2>1, PoolInitType
<1> QED BY <1>1, PoolNextInv, PTL DEF PoolSpec

\* next() hands a key out again only when every other live key has had its turn.
THEOREM Fair == PoolSpec => FairTurns
<1>1. ASSUME PoolInv, NEW k \in Key, Take(k)
      PROVE  Live(quarantined) \ {k} \subseteq since[k]
  <2> SUFFICES ASSUME NEW l \in Live(quarantined) \ {k}, l \notin since[k]
               PROVE  FALSE
    OBVIOUS
  <2>1. Steps(index, l) < Steps(index, k)
    BY <1>1 DEF PoolInv, Queue
  <2>2. Steps(index, k) < Steps(index, l)
    BY <1>1, TakeNearest DEF PoolInv
  <2>3. Steps(index, k) \in Int /\ Steps(index, l) \in Int
    BY <1>1, StepsType DEF PoolInv, PoolTypeOK, Live
  <2> QED BY <2>1, <2>2, <2>3
<1>2. PoolInv /\ [PoolNext]_(poolVars)
        => [\A k \in Key : Take(k) => Live(quarantined) \ {k} \subseteq since[k]]_(poolVars)
  BY <1>1
<1> QED BY <1>2, PoolInvHolds, PTL DEF PoolSpec, FairTurns

\* A quarantined key is never handed out and never leaves the quarantine.
THEOREM ForLife == PoolSpec => QuarantineIsForLife
<1>1. ASSUME PoolInv, NEW k \in Key, Take(k)
      PROVE  quarantined \subseteq quarantined' /\ picked' \notin quarantined
  BY <1>1, TakeNearest DEF PoolInv, Take, Live
<1>2. ASSUME NEW k \in Key, Quarantine(k)
      PROVE  quarantined \subseteq quarantined' /\ odd' = odd
  BY <1>2 DEF Quarantine
<1>3. PoolInv /\ [PoolNext]_(poolVars)
        => [/\ quarantined \subseteq quarantined'
            /\ odd' # odd => picked' \notin quarantined]_(poolVars)
  BY <1>1, <1>2 DEF PoolNext
<1> QED BY <1>3, PoolInvHolds, PTL DEF PoolSpec, QuarantineIsForLife

-----------------------------------------------------------------------------
(* The pool implements the queue.                                          *)

\* At any time the live keys form a queue.
LEMMA IsRotation ==
  ASSUME PoolTypeOK
  PROVE  Rotation!IsQueue(Live(quarantined))
<1> DEFINE L == Live(quarantined)
           B == {p \in L \X L : Steps(index, p[1]) < Steps(index, p[2])}
<1>1. L \subseteq Key /\ index \in Key
  BY DEF PoolTypeOK, Live
<1>2. \A k \in L : Steps(index, k) \in Int
  BY <1>1, StepsType
<1>3. \A k, l \in L : k # l => Steps(index, k) # Steps(index, l)
  BY <1>1, StepsInjective
<1>4. \A k, l \in L : <<k, l>> \in B <=> Steps(index, k) < Steps(index, l)
  OBVIOUS
<1>5. B \subseteq L \X L
  OBVIOUS
<1> HIDE DEF L, B
<1>6. \A k, l \in L : k # l => <<k, l>> \in B \/ <<l, k>> \in B
  BY <1>2, <1>3, <1>4
<1>7. \A k, l \in L : <<k, l>> \in B => <<l, k>> \notin B
  BY <1>2, <1>4
<1>8. \A k, l, m \in L : <<k, l>> \in B /\ <<l, m>> \in B => <<k, m>> \in B
  BY <1>2, <1>4
<1> QED BY <1>5, <1>6, <1>7, <1>8 DEF Rotation!IsQueue, L, B

\* next() serves the head of the queue and puts it at the end.
LEMMA TakeServes ==
  ASSUME PoolInv, NEW k \in Key, Take(k)
  PROVE  Rotation!Serve(k)
<1> DEFINE L == Live(quarantined)
           B == {p \in L \X L : Steps(index, p[1]) < Steps(index, p[2])}
           C == {p \in L \X L : Steps(After(k), p[1]) < Steps(After(k), p[2])}
<1>1. /\ L \subseteq Key /\ index \in Key /\ After(k) \in Key
      /\ index' = After(k) /\ quarantined' = quarantined /\ picked' = k
  BY AfterType DEF PoolInv, PoolTypeOK, Take, Live
<1>2. /\ k \in L
      /\ \A l \in L \ {k} : Steps(index, k) < Steps(index, l)
  BY TakeNearest DEF PoolInv
<1>3. \A l \in L : Steps(index, l) \in Int /\ Steps(After(k), l) \in Int
  BY <1>1, StepsType
<1>4. \A l \in L \ {k} : /\ Steps(After(k), l) = Steps(index, l) - Steps(index, k) - 1
                        /\ Steps(After(k), l) < Steps(After(k), k)
  BY <1>1, <1>2, StepsAfter, StepsFurthest
<1>5. \A l \in L \ {k} : <<k, l>> \in B
  BY <1>2
<1>6. \A l, m \in L : <<l, m>> \in C <=> (<<l, m>> \in B /\ l # k) \/ (l # k /\ m = k)
  <2> SUFFICES ASSUME NEW l \in L, NEW m \in L
               PROVE  Steps(After(k), l) < Steps(After(k), m)
                        <=> (Steps(index, l) < Steps(index, m) /\ l # k) \/ (l # k /\ m = k)
    OBVIOUS
  <2>1. CASE l = k
    BY <1>3, <1>4, <2>1
  <2>2. CASE l # k /\ m = k
    BY <1>4, <2>2
  <2>3. CASE l # k /\ m # k
    BY <1>2, <1>3, <1>4, <2>3
  <2> QED BY <2>1, <2>2, <2>3
<1>7. C = {p \in B : p[1] # k} \cup ((L \ {k}) \X {k})
  <2>1. C \subseteq L \X L /\ B \subseteq L \X L
    OBVIOUS
  <2> HIDE DEF B, C, L
  <2>2. ASSUME NEW p \in L \X L
        PROVE  p \in C <=> p \in {q \in B : q[1] # k} \cup ((L \ {k}) \X {k})
    <3>1. PICK l \in L, m \in L : p = <<l, m>>
      OBVIOUS
    <3>2. p \in {q \in B : q[1] # k} <=> <<l, m>> \in B /\ l # k
      BY <3>1
    <3>3. p \in (L \ {k}) \X {k} <=> l # k /\ m = k
      BY <3>1
    <3> QED BY <1>6, <3>1, <3>2, <3>3
  <2>3. (L \ {k}) \X {k} \subseteq L \X L
    BY <1>2
  <2> QED BY <2>1, <2>2, <2>3
<1>8. C = {p \in Live(quarantined') \X Live(quarantined') : Steps(index', p[1]) < Steps(index', p[2])}
  BY <1>1
<1> QED BY <1>1, <1>2, <1>5, <1>7, <1>8 DEF Rotation!Serve, Live

\* quarantine() takes a key out of the queue and moves no other.
LEMMA QuarantineLeaves ==
  ASSUME PoolTypeOK, NEW k \in Key, Quarantine(k)
  PROVE  Rotation!Leave(k)
<1>1. /\ quarantined' = quarantined \cup {k} /\ index' = index /\ picked' = picked
      /\ k \in Live(quarantined)
  BY DEF Quarantine, Live
<1>2. Live(quarantined') = Live(quarantined) \ {k}
  BY <1>1 DEF Live
<1> DEFINE L == Live(quarantined)
           B == {p \in L \X L : Steps(index, p[1]) < Steps(index, p[2])}
<1>3. {p \in (L \ {k}) \X (L \ {k}) : Steps(index, p[1]) < Steps(index, p[2])}
        = {p \in B : p[1] # k /\ p[2] # k}
  OBVIOUS
<1> QED BY <1>1, <1>2, <1>3 DEF Rotation!Leave, Live

\* For any number of keys, the pool is a queue: it serves the keys in their order
\* and a quarantine moves none of the others.
THEOREM PoolIsQueue == PoolSpec => ImplementsQueue
<1>1. PoolInit => Rotation!Init
  <2> SUFFICES ASSUME PoolInit PROVE Rotation!Init
    OBVIOUS
  <2>1. Live(quarantined) = Key
    BY DEF PoolInit, Live
  <2> QED BY <2>1, PoolInitType, IsRotation DEF Rotation!Init
<1>2. PoolInv /\ [PoolNext]_(poolVars) => [Rotation!Next]_(Rotation!queueVars)
  <2> SUFFICES ASSUME PoolInv, [PoolNext]_(poolVars)
               PROVE  [Rotation!Next]_(Rotation!queueVars)
    OBVIOUS
  <2>1. ASSUME NEW k \in Key, Take(k) PROVE Rotation!Next
    BY <2>1, TakeServes DEF Rotation!Next
  <2>2. ASSUME NEW k \in Key, Quarantine(k) PROVE Rotation!Next
    BY <2>2, QuarantineLeaves DEF Rotation!Next, PoolInv
  <2>3. CASE UNCHANGED poolVars
    BY <2>3 DEF poolVars, Rotation!queueVars
  <2> QED BY <2>1, <2>2, <2>3 DEF PoolNext
<1> QED BY <1>1, <1>2, PoolInvHolds, PTL DEF PoolSpec, ImplementsQueue, Rotation!Spec
=============================================================================
