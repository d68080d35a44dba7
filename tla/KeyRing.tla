------------------------------ MODULE KeyRing ------------------------------
(***************************************************************************)
(* The pool of avicenna/keypool.py: its state and its round-robin          *)
(* arithmetic, for the modules that say who uses it and how.               *)
(*                                                                         *)
(* KeyPool holds its keys in a list that never changes and an index that   *)
(* only grows; the index is used modulo the length of the list.  A key is  *)
(* therefore its position 0 .. NumKeys-1, and the index is kept modulo     *)
(* NumKeys, which no reader of it can tell apart.                          *)
(***************************************************************************)
EXTENDS Integers, FiniteSets

CONSTANT NumKeys        \* len(self._keys), after deduplication

\* KeyPool.__init__ raises ValueError on an empty list of keys.
ASSUME NumKeysAssumption == NumKeys \in Nat \ {0}

VARIABLES index,        \* self._index modulo NumKeys
          quarantined   \* self._quarantined

Key == 0 .. NumKeys - 1

\* The keys still in rotation when Q is the quarantine set.
Live(Q) == Key \ Q

\* How many steps the index i takes before it points at key k.
Steps(i, k) == (k - i) % NumKeys

\* Mutant of After: the index is not moved past the key it found.
After_Stays(k) == k

\* The index right after key k has been returned.
After(k) == (k + 1) % NumKeys

(***************************************************************************)
(* KeyPool.next(): walk from the index, skip what is quarantined, return   *)
(* the first live key.  Meaningful only while Live(Q) is not empty.        *)
(***************************************************************************)
\* Mutants of NextLive: the index is read but never honoured; the key at the
\* index is returned without looking at the quarantine.
NextLive_FromStart(i, S) == CHOOSE k \in S : \A l \in S : k <= l
NextLive_NoSkip(i, S) == i

NextLive(i, S) == CHOOSE k \in S : \A l \in S : Steps(i, k) <= Steps(i, l)

\* The last live key that one full turn of next() returns, starting at index i.
LastLive(i, S) == CHOOSE k \in S : \A l \in S : Steps(i, l) <= Steps(i, k)
=============================================================================
