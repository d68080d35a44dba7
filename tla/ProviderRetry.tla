--------------------------- MODULE ProviderRetry ---------------------------
(***************************************************************************)
(* MistralProvider.complete (avicenna/providers/mistral.py): the retry     *)
(* loop of one completion call, run by many asyncio tasks at once over one *)
(* shared KeyPool.  GeminiProvider.complete (avicenna/providers/gemini.py) *)
(* is the same loop around another transport.                              *)
(*                                                                         *)
(* A call gives up control in two places only: while its request is on the *)
(* wire ("wire") and while it sleeps before another attempt ("rotate" when *)
(* it will pick a fresh key, "retry" when it will use the same one again). *)
(* Between two of these the code runs to the next await without yielding:  *)
(* one action.  Clocks are not modelled: the time budget may be found      *)
(* spent at any evaluation of the loop's head after the first request.     *)
(***************************************************************************)
EXTENDS KeyRing, Sequences

CONSTANTS Call,         \* the completion calls of one process
          MaxRetries,   \* self._max_retries
          BadKey,       \* the keys the provider answers with 401 or 403
          HasBudget     \* self._budget_s is not None

ASSUME ConstantsAssumption ==
  /\ MaxRetries \in Nat \ {0}
  /\ BadKey \subseteq Key
  /\ HasBudget \in BOOLEAN

VARIABLES pc,           \* where each call is
          key,          \* current_key
          attempt,      \* attempt
          tried,        \* tried_keys
          rotation,     \* rotation
          startLive,    \* the keys live when the call started: max_rotations
          lastExc,      \* last_exc
          outcome,      \* what the call returned or raised; "budget" is last_exc or
                        \* a TransientError, raised because the budget is spent
          used          \* history: the keys used since the last sleep, in order

pool == <<index, quarantined>>
vars == <<index, quarantined, pc, key, attempt, tried, rotation, startLive,
          lastExc, outcome, used>>

Sleeping == {"rotate", "retry"}

\* The errors that are worth another attempt: 429 is a RateLimitError; 5xx, a
\* timeout, a network error and any other exception are a TransientError.
Retryable == {"rate", "transient"}

NoExc == "none"

TypeOK ==
  /\ index \in Key
  /\ quarantined \in SUBSET Key
  /\ pc \in [Call -> {"idle", "wire", "done"} \cup Sleeping]
  /\ key \in [Call -> Key]
  /\ attempt \in [Call -> 0 .. MaxRetries - 1]
  /\ tried \in [Call -> SUBSET Key]
  /\ rotation \in [Call -> Nat]
  /\ startLive \in [Call -> SUBSET Key]
  /\ lastExc \in [Call -> Retryable \cup {NoExc}]
  /\ outcome \in [Call -> Retryable \cup
                     {NoExc, "ok", "auth", "rejected", "exhausted", "budget", "unreachable"}]
  /\ used \in [Call -> Seq(Key)]

Init ==
  /\ index = 0
  /\ quarantined = {}
  /\ pc = [c \in Call |-> "idle"]
  /\ key = [c \in Call |-> 0]
  /\ attempt = [c \in Call |-> 0]
  /\ tried = [c \in Call |-> {}]
  /\ rotation = [c \in Call |-> 0]
  /\ startLive = [c \in Call |-> {}]
  /\ lastExc = [c \in Call |-> NoExc]
  /\ outcome = [c \in Call |-> NoExc]
  /\ used = [c \in Call |-> <<>>]
-----------------------------------------------------------------------------
(* How a call ends, sends or sleeps.                                       *)

Raise(c, e) ==
  /\ pc' = [pc EXCEPT ![c] = "done"]
  /\ outcome' = [outcome EXCEPT ![c] = e]
  /\ UNCHANGED <<key, attempt, tried, rotation, startLive, used>>

\* raise last_exc or <e>
RaiseLast(c, le, e) == Raise(c, IF le = NoExc THEN e ELSE le)

\* await asyncio.sleep(delay); kind says which branch the call wakes up in and
\* exc is what that branch will store in last_exc.
Sleep(c, kind, exc) ==
  /\ pc' = [pc EXCEPT ![c] = kind]
  /\ lastExc' = [lastExc EXCEPT ![c] = exc]
  /\ UNCHANGED <<key, attempt, tried, rotation, startLive, outcome, used>>

\* Mutant of MaxRotations: a bound per attempt, as the comment beside it says.
MaxRotations_OneAttempt(c) == Cardinality(startLive[c])

MaxRotations(c) == Cardinality(startLive[c]) * MaxRetries

\* The head of the loop with current_key = k, attempt = a, tried_keys = t,
\* rotation = r, last_exc = le: leave the loop, find the budget spent, or send.
\* u is the history of the keys used since the last sleep.
LoopHead(c, k, a, t, r, le, u) ==
  \/ /\ r >= MaxRotations(c)
     /\ RaiseLast(c, le, "unreachable")
  \/ /\ r < MaxRotations(c)
     /\ HasBudget
     /\ Raise(c, "budget")
  \/ /\ r < MaxRotations(c)
     /\ pc' = [pc EXCEPT ![c] = "wire"]
     /\ key' = [key EXCEPT ![c] = k]
     /\ attempt' = [attempt EXCEPT ![c] = a]
     /\ tried' = [tried EXCEPT ![c] = t]
     /\ rotation' = [rotation EXCEPT ![c] = r + 1]
     /\ used' = [used EXCEPT ![c] = Append(u, k)]
     /\ UNCHANGED <<startLive, outcome>>
-----------------------------------------------------------------------------
(* The call starts: the first pool.next(), then the first request.         *)
Start(c) ==
  /\ pc[c] = "idle"
  /\ UNCHANGED <<quarantined, lastExc>>
  /\ \/ /\ Live(quarantined) = {}
        /\ Raise(c, "exhausted")
        /\ UNCHANGED index
     \/ /\ Live(quarantined) # {}
        /\ LET k == NextLive(index, Live(quarantined)) IN
             /\ index' = After(k)
             /\ key' = [key EXCEPT ![c] = k]
             /\ tried' = [tried EXCEPT ![c] = {k}]
             /\ used' = [used EXCEPT ![c] = <<k>>]
        /\ startLive' = [startLive EXCEPT ![c] = Live(quarantined)]
        /\ rotation' = [rotation EXCEPT ![c] = 1]
        /\ pc' = [pc EXCEPT ![c] = "wire"]
        /\ UNCHANGED <<attempt, outcome>>

\* 200 with a usable choice.
Success(c) ==
  /\ pc[c] = "wire"
  /\ key[c] \notin BadKey
  /\ Raise(c, "ok")
  /\ UNCHANGED <<pool, lastExc>>

\* 400 or 422, or an answer that cannot be turned into a Completion: not
\* retryable, raised at once.
Rejected(c) ==
  /\ pc[c] = "wire"
  /\ key[c] \notin BadKey
  /\ Raise(c, "rejected")
  /\ UNCHANGED <<pool, lastExc>>

\* Mutant of AuthFailure: a refused key ends the call.
AuthFailure_GiveUp(c) ==
  /\ pc[c] = "wire"
  /\ key[c] \in BadKey
  /\ quarantined' = quarantined \cup {key[c]}
  /\ Raise(c, "auth")
  /\ UNCHANGED <<index, lastExc>>

\* Mutant of AuthFailure: the refused key stays in rotation.
AuthFailure_KeepsKey(c) ==
  /\ pc[c] = "wire"
  /\ key[c] \in BadKey
  /\ UNCHANGED <<quarantined, lastExc>>
  /\ LET k == NextLive(index, Live(quarantined)) IN
       /\ index' = After(k)
       /\ LoopHead(c, k, attempt[c], tried[c] \cup {k}, rotation[c], lastExc[c], used[c])

\* 401 or 403: quarantine the key, go on with the next one in the same attempt.
AuthFailure(c) ==
  /\ pc[c] = "wire"
  /\ key[c] \in BadKey
  /\ UNCHANGED lastExc
  /\ LET Q == quarantined \cup {key[c]} IN
       /\ quarantined' = Q
       /\ \/ /\ Live(Q) = {}
             /\ Raise(c, "auth")
             /\ UNCHANGED index
          \/ /\ Live(Q) # {}
             /\ LET k == NextLive(index, Live(Q)) IN
                  /\ index' = After(k)
                  /\ LoopHead(c, k, attempt[c], tried[c] \cup {k}, rotation[c],
                              lastExc[c], used[c])

\* The tail shared by the errors that consume an attempt: sleep or give up.
GiveUpOrSleep(c, kind, exc) ==
  \/ /\ attempt[c] = MaxRetries - 1
     /\ Raise(c, exc)
     /\ UNCHANGED lastExc
  \/ /\ attempt[c] < MaxRetries - 1
     /\ Sleep(c, kind, exc)

\* 429 while the pool has other live keys: take the next live key not tried in
\* this attempt; when there is none, one whole turn of the pool has gone by, and
\* the attempt is over.
RateLimitRotate(c) ==
  /\ pc[c] = "wire"
  /\ Cardinality(Live(quarantined)) > 1
  /\ UNCHANGED quarantined
  /\ LET fresh == Live(quarantined) \ tried[c] IN
       \/ /\ fresh # {}
          /\ LET k == NextLive(index, fresh) IN
               /\ index' = After(k)
               /\ LoopHead(c, k, attempt[c], tried[c] \cup {k}, rotation[c],
                           lastExc[c], used[c])
               /\ UNCHANGED lastExc
       \/ /\ fresh = {}
          /\ index' = After(LastLive(index, Live(quarantined)))
          /\ GiveUpOrSleep(c, "rotate", "rate")

\* 429 with at most one live key, 5xx, a timeout, a network error: the plain
\* retry, which keeps current_key and tried_keys.
PlainRetry(c) ==
  /\ pc[c] = "wire"
  /\ \E exc \in Retryable :
       /\ exc = "rate" => Cardinality(Live(quarantined)) <= 1
       /\ GiveUpOrSleep(c, "retry", exc)
  /\ UNCHANGED pool

\* Mutant of WakeRotate: the attempt is not counted.
WakeRotate_NoAttempt(c) ==
  /\ pc[c] = "rotate"
  /\ Live(quarantined) # {}
  /\ LET k == NextLive(index, Live(quarantined)) IN
       /\ index' = After(k)
       /\ LoopHead(c, k, attempt[c], {k}, 0, lastExc[c], <<>>)
  /\ UNCHANGED <<quarantined, lastExc>>

\* Awake after a whole turn of 429s: a new attempt from a fresh key.
WakeRotate(c) ==
  /\ pc[c] = "rotate"
  /\ UNCHANGED <<quarantined, lastExc>>
  /\ \/ /\ Live(quarantined) = {}
        /\ Raise(c, "exhausted")
        /\ UNCHANGED index
     \/ /\ Live(quarantined) # {}
        /\ LET k == NextLive(index, Live(quarantined)) IN
             /\ index' = After(k)
             /\ LoopHead(c, k, attempt[c] + 1, {k}, 0, lastExc[c], <<>>)

\* Awake in the plain retry: a new attempt with the same key.
WakeRetry(c) ==
  /\ pc[c] = "retry"
  /\ LoopHead(c, key[c], attempt[c] + 1, tried[c], rotation[c], lastExc[c], <<>>)
  /\ UNCHANGED <<pool, lastExc>>

Answer(c) ==
  Success(c) \/ Rejected(c) \/ AuthFailure(c) \/ RateLimitRotate(c) \/ PlainRetry(c)

Step(c) == Start(c) \/ Answer(c) \/ WakeRotate(c) \/ WakeRetry(c)

AllDone == /\ \A c \in Call : pc[c] = "done"
           /\ UNCHANGED vars

Next == (\E c \in Call : Step(c)) \/ AllDone

\* Every request is answered or times out (timeout_ms), every sleep ends.  A
\* call need not start.
Fairness == \A c \in Call : WF_vars(Answer(c) \/ WakeRotate(c) \/ WakeRetry(c))

Spec == Init /\ [][Next]_vars
FairSpec == Spec /\ Fairness
-----------------------------------------------------------------------------
\* max_rotations never bites: "raise last_exc or RuntimeError("unreachable")"
\* (mistral.py:327) never raises the RuntimeError, because the bound never ends a
\* call that has not slept, nor does it cut an attempt short: a call that raises a
\* retryable error, and had time left, has used up all its attempts.  It takes at
\* least two attempts for this to be so; the run with one shows why.
NeverUnreachable ==
  \A c \in Call :
    /\ outcome[c] # "unreachable"
    /\ outcome[c] \in Retryable => attempt[c] = MaxRetries - 1

\* A burst of refusals does not hammer the provider: between two sleeps a call
\* sends at most twice per key it started with, less one.  (The comment at
\* mistral.py:147-148 says once per live key; a 401 in the middle of a rotation
\* goes back to a key already tried.)
BurstBound ==
  \A c \in Call : pc[c] = "wire" => Len(used[c]) < 2 * Cardinality(startLive[c])

\* A pool survives its bad members: only refused keys are ever quarantined, and
\* a call ends in AuthError, or in the pool's own RuntimeError, only when no key
\* is left for any task.
PoolSurvivesBadKeys ==
  /\ quarantined \subseteq BadKey
  /\ \A c \in Call : outcome[c] \in {"auth", "exhausted"} => quarantined = Key

Sends(c) == pc'[c] = "wire" /\ used'[c] # used[c]

\* A request goes out on a quarantined key in one case only: the plain retry of a
\* call that was asleep while another call quarantined its key.
StaleKeyOnlyOnRetry ==
  [][\A c \in Call : Sends(c) /\ key'[c] \in quarantined'
        => pc[c] = "retry" /\ key'[c] = key[c]]_vars

\* Every call that sends a request ends, whatever the other calls do to the pool.
CallEnds == \A c \in Call : pc[c] = "wire" ~> pc[c] = "done"
-----------------------------------------------------------------------------
(* Why max_rotations never bites: the strengthening the proofs use.        *)

\* The pool only shrinks, so what a call sees live was live when it started; the
\* key it uses is one it has recorded; a sleeping call has an attempt left.
CallShape ==
  \A c \in Call :
    /\ pc[c] # "idle" => Live(quarantined) \subseteq startLive[c]
    /\ tried[c] \subseteq startLive[c]
    /\ pc[c] \in {"wire"} \cup Sleeping => key[c] \in tried[c]
    /\ pc[c] \in Sleeping => attempt[c] < MaxRetries - 1
    /\ pc[c] # "done" => outcome[c] = NoExc

\* Each turn of a call's loop is paid for by an attempt, by a key tried, or by a
\* key of the call's own pool that has been quarantined since the call started,
\* other than the one it is using now.
RotationBound ==
  \A c \in Call : pc[c] \in {"wire", "retry"} =>
    rotation[c] <= attempt[c] + Cardinality(tried[c])
                   + Cardinality((startLive[c] \cap quarantined) \ {key[c]})

IInv == TypeOK /\ CallShape /\ RotationBound

\* Each request of a burst is paid for in the same way, the attempts aside: by a
\* key tried, or by a key refused to any call since this one started.
BurstPaid ==
  \A c \in Call : pc[c] = "wire" =>
    Len(used[c]) <= Cardinality(tried[c])
                    + Cardinality((startLive[c] \cap quarantined) \ {key[c]})
=============================================================================
