------------------------------ MODULE KeyPool ------------------------------
(***************************************************************************)
(* avicenna/keypool.py, class KeyPool: a set of API keys handed out round  *)
(* robin to many asyncio tasks, with quarantine of the keys a provider     *)
(* refused.                                                                *)
(*                                                                         *)
(* next() holds an asyncio.Lock over code that never awaits, so no task    *)
(* ever finds the lock taken and a whole call of next() is one step.       *)
(* quarantine() is synchronous and is called by whichever task got a 401   *)
(* or a 403; it is one step too.                                           *)
(***************************************************************************)
EXTENDS KeyRing

VARIABLES picked,       \* history: the last key next() returned, or NoKey
          odd,          \* history: next() has returned an odd number of times
          since         \* history: the keys returned after the last return of k

poolVars == <<index, quarantined, picked, odd, since>>

NoKey == -1

PoolTypeOK ==
  /\ index \in Key
  /\ quarantined \in SUBSET Key
  /\ picked \in Key \cup {NoKey}
  /\ odd \in BOOLEAN
  /\ since \in [Key -> SUBSET Key]

PoolInit ==
  /\ index = 0
  /\ quarantined = {}
  /\ picked = NoKey
  /\ odd = FALSE
  /\ since = [k \in Key |-> Key]

\* async def next(): raises RuntimeError when the pool is exhausted, which
\* leaves the state as it is and is not a step of the pool.
Take(k) ==
  /\ Live(quarantined) # {}
  /\ k = NextLive(index, Live(quarantined))
  /\ index' = After(k)
  /\ picked' = k
  /\ odd' = ~odd
  /\ since' = [l \in Key |-> IF l = k THEN {} ELSE since[l] \cup {k}]
  /\ UNCHANGED quarantined

\* def quarantine(key, reason): a no-op for a key already quarantined.
Quarantine(k) ==
  /\ k \notin quarantined
  /\ quarantined' = quarantined \cup {k}
  /\ UNCHANGED <<index, picked, odd, since>>

PoolNext == \E k \in Key : Take(k) \/ Quarantine(k)

PoolSpec == PoolInit /\ [][PoolNext]_poolVars

\* A turn is fair: next() hands out a key again only when every other key still
\* in rotation has been handed out since the last time ("the index advance is
\* guarded so two tasks cannot race to the same key", class docstring), whatever
\* was quarantined in between.
FairTurns ==
  [][\A k \in Key :
       Take(k) => Live(quarantined) \ {k} \subseteq since[k]]_poolVars

\* quarantine() is for the life of the process: a quarantined key is never
\* handed out and never leaves the quarantine.
QuarantineIsForLife ==
  [][/\ quarantined \subseteq quarantined'
     /\ odd' # odd => picked' \notin quarantined]_poolVars

\* The queue the pool stands for: a key is as near to its turn as the index is
\* to it, counted round the list of all keys, quarantined ones included.
Rotation ==
  INSTANCE KeyQueue WITH
    Keys <- Key,
    live <- Live(quarantined),
    before <- {p \in Live(quarantined) \X Live(quarantined) :
                 Steps(index, p[1]) < Steps(index, p[2])},
    picked <- picked

\* The pool is that queue ("round-robin key rotation with quarantine"): no order
\* of next() and quarantine() lets a key overtake another or lose its turn.
ImplementsQueue == Rotation!Spec
=============================================================================
