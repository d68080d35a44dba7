------------------------------ MODULE KeyQueue ------------------------------
(***************************************************************************)
(* What a key pool promises (avicenna/keypool.py, class docstring and      *)
(* "Round-robin key rotation with quarantine"): the keys stand in a queue, *)
(* whoever asks gets the first one, which goes to the end, and a key that  *)
(* was refused leaves the queue without changing the order of the others.  *)
(* No index, no list with holes, no walk.                                  *)
(***************************************************************************)
CONSTANT Keys

VARIABLES live,     \* the keys in the queue
          before,   \* <<k, l>>: k is served before l
          picked    \* the key handed out last

queueVars == <<live, before, picked>>

\* before is a queue of the keys S.
IsQueue(S) ==
  /\ before \subseteq S \X S
  /\ \A k, l \in S : k # l => <<k, l>> \in before \/ <<l, k>> \in before
  /\ \A k, l \in S : <<k, l>> \in before => <<l, k>> \notin before
  /\ \A k, l, m \in S : <<k, l>> \in before /\ <<l, m>> \in before => <<k, m>> \in before

Init ==
  /\ live = Keys
  /\ IsQueue(live)

Serve(k) ==
  /\ k \in live
  /\ \A l \in live \ {k} : <<k, l>> \in before
  /\ before' = {p \in before : p[1] # k} \cup ((live \ {k}) \X {k})
  /\ picked' = k
  /\ UNCHANGED live

Leave(k) ==
  /\ k \in live
  /\ live' = live \ {k}
  /\ before' = {p \in before : p[1] # k /\ p[2] # k}
  /\ UNCHANGED picked

Next == \E k \in Keys : Serve(k) \/ Leave(k)

Spec == Init /\ [][Next]_queueVars
=============================================================================
