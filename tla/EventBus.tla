------------------------------ MODULE EventBus ------------------------------
(***************************************************************************)
(* avicenna/bus.py: the fan-out bus between the pipeline's tasks and the   *)
(* subscribers that render or forward events.                              *)
(*                                                                         *)
(* emit() numbers the event, then walks the live list of subscriber queues *)
(* with put_nowait; on a full queue a LogMessage is skipped and any other  *)
(* event waits in `await q.put(event)` before the walk goes on.  A waiting *)
(* put is an asyncio.Queue putter: get() wakes the oldest one, which runs  *)
(* later, looks at the queue again and lines up at the back if somebody    *)
(* else took the slot.  asyncio.Queue is external and modelled as the bus  *)
(* uses it.  close() walks the same way with the sentinel None.            *)
(***************************************************************************)
EXTENDS Integers, Sequences, FiniteSets, SequencesExt

CONSTANTS Emitter,      \* tasks that call emit()
          Sub,          \* queues that can be subscribed
          Closer,       \* the task that calls close()
          Capacity,     \* maxsize of every queue
          MaxSeq,       \* bound: how many events are emitted in all
          Stuck         \* subscribers that may stop reading

ASSUME BusAssumption ==
  /\ Capacity \in Nat \ {0}
  /\ MaxSeq \in Nat
  /\ Stuck \subseteq Sub
  /\ Closer \notin Emitter

Task == Emitter \cup {Closer}

\* A LogMessage, of level debug or info and of level warning or error; any other
\* event; and the sentinel of close().
LogMessage == {"info", "warning"}
Kind == LogMessage \cup {"event", "sentinel"}

VARIABLES seq,      \* self._seq
          subs,     \* self._subs, in order of subscription
          log,      \* every item ever put in each queue, in order
          taken,    \* how many of them its reader has taken
          putters,  \* the tasks waiting in q.put, oldest first
          pc,       \* where each task is
          at,       \* the index in subs at which a task waits
          item,     \* what it is putting
          sent      \* history: items whose emit() returned

vars == <<seq, subs, log, taken, putters, pc, at, item, sent>>

Item == [seq : 0 .. MaxSeq, kind : Kind, by : Task, audience : Nat]
NoItem == [seq |-> 0, kind |-> "sentinel", by |-> Closer, audience |-> 0]

Full(s) == Len(log[s]) - taken[s] >= Capacity
Reading(s) == \A i \in 1 .. taken[s] : log[s][i].kind # "sentinel"

TypeOK ==
  /\ seq \in 0 .. MaxSeq
  /\ subs \in Seq(Sub)
  /\ log \in [Sub -> Seq(Item)]
  /\ taken \in [Sub -> Nat]
  /\ \A s \in Sub : taken[s] <= Len(log[s]) /\ Len(log[s]) - taken[s] <= Capacity
  /\ putters \in [Sub -> Seq(Task)]
  /\ pc \in [Task -> {"idle", "parked", "woken", "closed"}]
  /\ at \in [Task -> 0 .. Len(subs)]
  /\ item \in [Task -> Item]
  /\ sent \subseteq Item

Init ==
  /\ seq = 0
  /\ subs = <<>>
  /\ log = [s \in Sub |-> <<>>]
  /\ taken = [s \in Sub |-> 0]
  /\ putters = [s \in Sub |-> <<>>]
  /\ pc = [t \in Task |-> "idle"]
  /\ at = [t \in Task |-> 0]
  /\ item = [t \in Task |-> NoItem]
  /\ sent = {}

\* subscribe(): the list the walks iterate over is the live one.
Subscribe(s) ==
  /\ s \notin ToSet(subs)
  /\ subs' = Append(subs, s)
  /\ UNCHANGED <<seq, log, taken, putters, pc, at, item, sent>>
-----------------------------------------------------------------------------
\* Mutant of Droppable: no event blocks its emitter.
Droppable_Any(x) == x.kind # "sentinel"

\* isinstance(event, LogMessage): its level is not asked, although the module's
\* docstring has only levels debug and info droppable.
Droppable(x) == x.kind \in LogMessage

\* Where a walk that starts at index i with item x stops: the first full queue
\* that may not be skipped, or past the end.
Blocks(x, i) == i > Len(subs) \/ (Full(subs[i]) /\ ~Droppable(x))

StopsAt(x, i) ==
  CHOOSE j \in i .. Len(subs) + 1 :
    Blocks(x, j) /\ \A k \in i .. j - 1 : ~Blocks(x, k)

\* The walk of task t from index i with item x up to its next await or its end.
Walk(t, x, i) ==
  LET j == StopsAt(x, i)
      reached == {subs[k] : k \in i .. j - 1}
  IN /\ log' = [s \in Sub |-> IF s \in reached /\ ~Full(s)
                              THEN Append(log[s], x) ELSE log[s]]
     /\ item' = [item EXCEPT ![t] = x]
     /\ \/ /\ j <= Len(subs)
           /\ pc' = [pc EXCEPT ![t] = "parked"]
           /\ at' = [at EXCEPT ![t] = j]
           /\ putters' = [putters EXCEPT ![subs[j]] = Append(@, t)]
           /\ UNCHANGED sent
        \/ /\ j > Len(subs)
           /\ pc' = [pc EXCEPT ![t] = IF t = Closer THEN "closed" ELSE "idle"]
           /\ at' = [at EXCEPT ![t] = 0]
           /\ sent' = sent \cup {x}
           /\ UNCHANGED putters

\* await bus.emit(event): seq is taken under a lock that is never contended, in
\* the same step as the walk.
Emit(t) ==
  /\ pc[t] = "idle"
  /\ seq < MaxSeq
  /\ seq' = seq + 1
  /\ \E kind \in Kind \ {"sentinel"} :
       Walk(t, [seq |-> seq + 1, kind |-> kind, by |-> t, audience |-> Len(subs)], 1)
  /\ UNCHANGED <<subs, taken>>

\* await bus.close()
Close ==
  /\ pc[Closer] = "idle"
  /\ Walk(Closer, [NoItem EXCEPT !.audience = Len(subs)], 1)
  /\ UNCHANGED <<seq, subs, taken>>

\* Mutant of Resume: the emit starts over.
Resume_FromStart(t) ==
  /\ pc[t] = "woken"
  /\ Walk(t, item[t], 1)
  /\ UNCHANGED <<seq, subs, taken>>

\* A woken putter runs again: the queue may have filled up in the meantime.
Resume(t) ==
  /\ pc[t] = "woken"
  /\ Walk(t, item[t], at[t])
  /\ UNCHANGED <<seq, subs, taken>>

\* _wakeup_next: the oldest putter of s becomes runnable.
Wake(s, p, ps) ==
  \/ /\ ps[s] = <<>>
     /\ pc' = p
     /\ putters' = ps
  \/ /\ ps[s] # <<>>
     /\ pc' = [p EXCEPT ![Head(ps[s])] = "woken"]
     /\ putters' = [ps EXCEPT ![s] = Tail(@)]

\* One turn of drain(q): take the oldest item; the reader returns on the sentinel.
Get(s) ==
  /\ s \in ToSet(subs)
  /\ Reading(s)
  /\ taken[s] < Len(log[s])
  /\ taken' = [taken EXCEPT ![s] = @ + 1]
  /\ Wake(s, pc, putters)
  /\ UNCHANGED <<seq, subs, log, at, item, sent>>

\* Mutant of Cancel: a cancelled putter keeps the wake-up it was given.
Cancel_KeepsWakeup(t) ==
  /\ pc[t] \in {"parked", "woken"}
  /\ pc' = [pc EXCEPT ![t] = IF t = Closer THEN "closed" ELSE "idle"]
  /\ putters' = [putters EXCEPT ![subs[at[t]]] = RemoveFirst(@, t)]
  /\ at' = [at EXCEPT ![t] = 0]
  /\ UNCHANGED <<seq, subs, log, taken, item, sent>>

\* The emitting task is cancelled while it waits in put(): its item goes no
\* further.  A putter cancelled after it was woken passes the wake-up on while
\* there is room.
Cancel(t) ==
  /\ pc[t] \in {"parked", "woken"}
  /\ LET s == subs[at[t]]
         gone == [pc EXCEPT ![t] = IF t = Closer THEN "closed" ELSE "idle"]
         left == [putters EXCEPT ![s] = RemoveFirst(@, t)]
     IN \/ /\ pc[t] = "woken" /\ ~Full(s)
           /\ Wake(s, gone, left)
        \/ /\ pc[t] = "parked" \/ Full(s)
           /\ pc' = gone
           /\ putters' = left
  /\ at' = [at EXCEPT ![t] = 0]
  /\ UNCHANGED <<seq, subs, log, taken, item, sent>>

Next ==
  \/ \E s \in Sub : Subscribe(s) \/ Get(s)
  \/ \E t \in Emitter : Emit(t)
  \/ \E t \in Task : Resume(t) \/ Cancel(t)
  \/ Close

\* The event loop runs what is runnable, and a subscriber that is not Stuck reads
\* what it is given.  Emitting, closing and cancelling are up to the callers.
Fairness == /\ \A t \in Task : WF_vars(Resume(t))
            /\ \A s \in Sub \ Stuck : WF_vars(Get(s))

Spec == Init /\ [][Next]_vars
FairSpec == Spec /\ Fairness
-----------------------------------------------------------------------------
\* An emit() that returned has put its event in every queue that was subscribed
\* when it started, unless the event is a LogMessage, and no queue is over its bound.
\* That is what emit() does, not what the docstring of bus.py says: it promises the
\* same of a LogMessage whose level is warning or error.
BlockingNeverLost ==
  TypeOK /\ \A x \in sent : x.kind \notin LogMessage =>
              \A i \in 1 .. x.audience : x \in ToSet(log[subs[i]])

\* Each subscriber gets the events of one task once each and in the order they
\* were emitted, even though events of different tasks overtake one another: an
\* emitter that waits is overtaken by a later number, so a subscriber does not see
\* sorted sequence numbers.
EmitterOrder ==
  \A s \in Sub : \A j \in 1 .. Len(log[s]) : \A i \in 1 .. j - 1 :
    log[s][i].by = log[s][j].by => log[s][i].seq < log[s][j].seq

\* While every subscriber reads, an emitter that had to wait goes on, or the bus
\* is being closed under it: no wake-up is lost, one given to a task that is
\* cancelled before it runs included.
EmitEnds == \A t \in Emitter : pc[t] = "parked" ~> pc[t] = "idle" \/ pc[Closer] # "idle"
=============================================================================
