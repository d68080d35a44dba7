------------------------------ MODULE RunSession ------------------------------
(***************************************************************************)
(* A note run or a chat turn as the interface sees it: the App's `busy`    *)
(* state (tui/src/app.ts), the Bridge client's pending requests and their  *)
(* time budgets (tui/src/bridge.ts), the two pipes, and the backend's      *)
(* `_runs` table with the tasks it spawns (avicenna/bridge/server.py).     *)
(*                                                                         *)
(* A request id stands for everything the request creates: the run of a    *)
(* run.note has the id of that request, and so has the chat turn of a      *)
(* chat.send, whose token in the App is its id as well.                    *)
(*                                                                         *)
(* Of a run's events only the last one is kept on the wire: the others     *)
(* write the transcript and the statistics and leave `busy` alone.  An     *)
(* event is put on the wire by the step that emits it: the emit wakes the  *)
(* pump before the end of the task wakes anybody who waits for the task,   *)
(* so no answer those waiters send overtakes the event.                    *)
(*                                                                         *)
(* Frames of one chunk are routed one after the other; what a settled      *)
(* promise runs next (`micro`) waits for the chunk to end, and no key and  *)
(* no timer is handled before `micro` is empty.                            *)
(***************************************************************************)
EXTENDS Naturals, SequencesExt, FiniteSets

CONSTANTS
    MaxRequests,    \* bound on the requests of one session
    TimesOut,       \* the methods whose budget may run out
    MayExit         \* whether the backend process may die

Method == {"run.note", "run.cancel", "chat.send"}

ASSUME SessionAssumption ==
    /\ MaxRequests \in Nat \ {0}
    /\ TimesOut \subseteq Method
    /\ MayExit \in BOOLEAN

VARIABLES
    sent,           \* the requests issued so far, in the order of their ids
    busy,           \* the App's busy state; op is the request it was set for
    pending,        \* ids in Bridge.pending
    micro,          \* settled promises whose continuation has not run
    closed,         \* Bridge.closed: the backend is gone
    inbox,          \* ids on the pipe to the backend
    wire,           \* frames on the pipe to the interface
    task,           \* the backend's run tasks, by run id
    waiting,        \* run.cancel handlers awaiting a task
    turns           \* chat turns being generated

tuiVars == <<sent, busy, pending, micro, closed>>
backendVars == <<task, waiting, turns>>
vars == <<sent, busy, pending, micro, closed, inbox, wire, task, waiting, turns>>

Id == 1 .. MaxRequests
NotKnown == 0
Idle == [kind |-> "none", runId |-> NotKnown, op |-> NotKnown]
Alive == {r \in Id : task[r] \in {"running", "cancelling"}}

Busy == [kind : {"none", "run", "chat"}, runId : 0 .. MaxRequests, op : 0 .. MaxRequests]
Request == [method : {"run.note", "chat.send"}, run : {NotKnown}]
           \cup [method : {"run.cancel"}, run : Id]
Response == [id : Id, ok : BOOLEAN]
Frame == [type : {"res"}, id : Id, ok : BOOLEAN] \cup [type : {"end"}, id : Id]

TypeOK ==
    /\ sent \in Seq(Request) /\ Len(sent) <= MaxRequests
    /\ busy \in Busy
    /\ pending \subseteq 1 .. Len(sent)
    /\ micro \in Seq(Response)
    /\ closed \in BOOLEAN
    /\ inbox \in Seq(Id)
    /\ wire \in Seq(Frame)
    /\ task \in [Id -> {"none", "running", "cancelling", "done"}]
    /\ waiting \subseteq Id
    /\ turns \subseteq Id

Init ==
    /\ sent = <<>> /\ busy = Idle /\ pending = {} /\ micro = <<>> /\ closed = FALSE
    /\ inbox = <<>> /\ wire = <<>>
    /\ task = [r \in Id |-> "none"] /\ waiting = {} /\ turns = {}

-----------------------------------------------------------------------------
(* The interface.                                                           *)

NextId == Len(sent) + 1
AtPrompt == micro = <<>> /\ ~closed /\ NextId \in Id

Issue(method, run) ==
    /\ sent' = Append(sent, [method |-> method, run |-> run])
    /\ pending' = pending \cup {NextId}
    /\ inbox' = Append(inbox, NextId)
    /\ UNCHANGED <<micro, closed, wire, backendVars>>

\* App.startRun up to its await.
StartRun ==
    /\ AtPrompt /\ busy.kind = "none"
    /\ busy' = [kind |-> "run", runId |-> NotKnown, op |-> NextId]
    /\ Issue("run.note", NotKnown)

\* App.cancelRun: refused during a chat turn and before the run is acknowledged.
CancelRun ==
    /\ AtPrompt /\ busy.kind = "run" /\ busy.runId # NotKnown
    /\ Issue("run.cancel", busy.runId)
    /\ UNCHANGED busy

\* Mutant: the prompt is sent to the agent whatever is in flight.
SendChat_Unguarded ==
    /\ AtPrompt
    /\ busy' = [kind |-> "chat", runId |-> NotKnown, op |-> NextId]
    /\ Issue("chat.send", NotKnown)

SendChat ==
    /\ AtPrompt /\ busy.kind = "none"
    /\ busy' = [kind |-> "chat", runId |-> NotKnown, op |-> NextId]
    /\ Issue("chat.send", NotKnown)

\* Every chat request so far took the next token, so the newest one holds it.
HoldsChatToken(id) == \A q \in id + 1 .. Len(sent) : sent[q].method # "chat.send"

\* The guard of App.onEvent.
Foreign(run) == busy.kind = "run" /\ busy.runId # NotKnown /\ run # busy.runId

\* Bridge.routeFrame: settle the promise, or hand the event to App.onEvent.
ReceiveResponse ==
    /\ wire # <<>> /\ Head(wire).type = "res"
    /\ wire' = Tail(wire)
    /\ LET frame == Head(wire) IN
       /\ pending' = pending \ {frame.id}
       /\ micro' = IF frame.id \in pending
                   THEN Append(micro, [id |-> frame.id, ok |-> frame.ok]) ELSE micro
    /\ UNCHANGED <<sent, busy, closed, inbox, backendVars>>

\* RunComplete or RunFailed.
ReceiveEnd ==
    /\ wire # <<>> /\ Head(wire).type = "end"
    /\ wire' = Tail(wire)
    /\ busy' = IF Foreign(Head(wire).id) THEN busy ELSE Idle
    /\ UNCHANGED <<sent, pending, micro, closed, inbox, backendVars>>

\* Mutant: the answer to run.note is not remembered.
AfterNote_Forget(id, ok) == busy' = IF ok THEN busy ELSE Idle

\* The rest of startRun, cancelRun and sendChat after the await.
AfterNote(id, ok) ==
    busy' = CASE ~ok                       -> Idle
              [] ok /\ busy.kind = "none"  -> busy
              [] OTHER                     -> [busy EXCEPT !.runId = id]

\* Mutant: the busy state is cleared in a `finally`, confirmed or not.
AfterCancel_Finally(run, ok) == busy' = IF busy.runId = run THEN Idle ELSE busy

AfterCancel(run, ok) == busy' = IF ok /\ busy.runId = run THEN Idle ELSE busy

AfterChat(id) == busy' = IF busy.kind = "chat" /\ HoldsChatToken(id) THEN Idle ELSE busy

Continue ==
    /\ micro # <<>>
    /\ micro' = Tail(micro)
    /\ LET res == Head(micro)
           req == sent[res.id]
       IN  \/ req.method = "run.note" /\ AfterNote(res.id, res.ok)
           \/ req.method = "run.cancel" /\ AfterCancel(req.run, res.ok)
           \/ req.method = "chat.send" /\ AfterChat(res.id)
    /\ UNCHANGED <<sent, pending, closed, inbox, wire, backendVars>>

\* The budget of a request runs out before its answer is routed.
Timeout(id) ==
    /\ micro = <<>> /\ id \in pending /\ sent[id].method \in TimesOut
    /\ pending' = pending \ {id}
    /\ micro' = Append(micro, [id |-> id, ok |-> FALSE])
    /\ UNCHANGED <<sent, busy, closed, inbox, wire, backendVars>>

-----------------------------------------------------------------------------
(* The backend.                                                             *)

Answer(id, ok) == [type |-> "res", id |-> id, ok |-> ok]
End(run) == [type |-> "end", id |-> run]

Asked(method) == ~closed /\ inbox # <<>> /\ sent[Head(inbox)].method = method

\* _m_run_note: refused (no vault, no key, nothing to resume) or spawned.
AcceptNote ==
    /\ Asked("run.note")
    /\ inbox' = Tail(inbox)
    /\ task' = [task EXCEPT ![Head(inbox)] = "running"]
    /\ wire' = Append(wire, Answer(Head(inbox), TRUE))
    /\ UNCHANGED <<tuiVars, waiting, turns>>

\* Mutant: an exception outside the handler's try leaves the request unanswered.
RefuseNote_Silent ==
    /\ Asked("run.note")
    /\ inbox' = Tail(inbox)
    /\ UNCHANGED <<tuiVars, backendVars, wire>>

RefuseNote ==
    /\ Asked("run.note")
    /\ inbox' = Tail(inbox)
    /\ wire' = Append(wire, Answer(Head(inbox), FALSE))
    /\ UNCHANGED <<tuiVars, backendVars>>

\* Mutant: the cancel is answered without awaiting the task.
HandleCancel_NoAwait ==
    /\ Asked("run.cancel")
    /\ inbox' = Tail(inbox)
    /\ LET id == Head(inbox)
           run == sent[id].run
       IN  /\ task' = IF run \in Alive THEN [task EXCEPT ![run] = "cancelling"] ELSE task
           /\ wire' = Append(wire, Answer(id, TRUE))
    /\ UNCHANGED <<tuiVars, waiting, turns>>

\* _m_run_cancel for one run id: cancel and await a live task, else answer.
HandleCancel ==
    /\ Asked("run.cancel")
    /\ inbox' = Tail(inbox)
    /\ LET id == Head(inbox)
           run == sent[id].run
       IN  IF run \in Alive
           THEN /\ task' = [task EXCEPT ![run] = "cancelling"]
                /\ waiting' = waiting \cup {id}
                /\ UNCHANGED wire
           ELSE /\ wire' = Append(wire, Answer(id, TRUE))
                /\ UNCHANGED <<task, waiting>>
    /\ UNCHANGED <<tuiVars, turns>>

AnswerCancel(id) ==
    /\ ~closed /\ id \in waiting /\ sent[id].run \notin Alive
    /\ waiting' = waiting \ {id}
    /\ wire' = Append(wire, Answer(id, TRUE))
    /\ UNCHANGED <<tuiVars, inbox, task, turns>>

\* The task ends: every stage done (RunComplete), a stage failed or was
\* cancelled (RunFailed).  The cancellation surfaces in the running stage, and
\* the `finally` takes the run out of `_runs` in the step of its last event.
EndRun(run) ==
    /\ ~closed /\ run \in Alive
    /\ task' = [task EXCEPT ![run] = "done"]
    /\ wire' = Append(wire, End(run))
    /\ UNCHANGED <<tuiVars, inbox, waiting, turns>>

\* _m_chat_send answers when the turn has been generated, or failed.
BeginTurn ==
    /\ Asked("chat.send")
    /\ inbox' = Tail(inbox)
    /\ turns' = turns \cup {Head(inbox)}
    /\ UNCHANGED <<tuiVars, wire, task, waiting>>

EndTurn(id, ok) ==
    /\ ~closed /\ id \in turns
    /\ turns' = turns \ {id}
    /\ wire' = Append(wire, Answer(id, ok))
    /\ UNCHANGED <<tuiVars, inbox, task, waiting>>

\* The child process exits: Bridge rejects every pending request, the App drops
\* its busy state, and what the pipe still holds may be read afterwards.  The
\* promises are rejected in the order of their requests.
Rejected ==
    {m \in [1 .. Cardinality(pending) -> [id : pending, ok : {FALSE}]] :
        \A i, j \in DOMAIN m : i < j => m[i].id < m[j].id}

Exit ==
    /\ MayExit /\ ~closed /\ micro = <<>>
    /\ closed' = TRUE
    /\ pending' = {}
    /\ micro' \in Rejected
    /\ busy' = Idle
    /\ task' = [r \in Id |-> IF r \in Alive THEN "done" ELSE task[r]]
    /\ inbox' = <<>> /\ waiting' = {} /\ turns' = {}
    /\ UNCHANGED <<sent, wire>>

Next ==
    \/ StartRun \/ CancelRun \/ SendChat
    \/ ReceiveResponse \/ ReceiveEnd \/ Continue
    \/ \E id \in Id : Timeout(id)
    \/ AcceptNote \/ RefuseNote \/ HandleCancel \/ BeginTurn
    \/ \E id \in Id : AnswerCancel(id)
    \/ \E id \in Id : EndRun(id)
    \/ \E id \in Id, ok \in BOOLEAN : EndTurn(id, ok)
    \/ Exit

\* The event loops of both processes keep turning and read their pipes; a run
\* and a chat turn end because every provider request has a timeout and every
\* loop of the pipeline and of the session a bound.  No key is ever pressed and
\* no timer ever fires by fairness.
Fairness ==
    /\ WF_vars(ReceiveResponse \/ ReceiveEnd) /\ WF_vars(Continue)
    /\ WF_vars(AcceptNote \/ RefuseNote \/ HandleCancel \/ BeginTurn)
    /\ \A id \in Id : /\ WF_vars(AnswerCancel(id)) /\ WF_vars(EndRun(id))
                      /\ WF_vars(\E ok \in BOOLEAN : EndTurn(id, ok))

Spec == Init /\ [][Next]_vars
FairSpec == Spec /\ Fairness

-----------------------------------------------------------------------------
(* Properties.                                                              *)

\* The runs the backend has or will have: requested, accepted or alive.
Going == Alive \cup {id \in 1 .. Len(sent) : /\ sent[id].method = "run.note"
                                             /\ Contains(inbox, id)}

\* When the prompt is free, no note run of this interface is going on: the
\* guard of startRun therefore keeps two runs from sharing one vault (they
\* would race for slugs and note names).  The type invariant is part of it.
IdleMeansStopped == TypeOK /\ (micro = <<>> /\ busy.kind = "none" => Going = {})

\* The run id Esc would cancel is the id of the run the busy state was set
\* for, known as soon as the answer to its run.note has been handled.
CancelsItsOwn ==
    busy.kind = "run" /\ micro = <<>> =>
        busy.runId = IF busy.op \in pending THEN NotKnown ELSE busy.op

\* A busy state is only cleared when what it was set for is over: its run has
\* ended or was refused, its chat turn was answered or given up.  The tail of
\* something earlier never clears it (the tokens and run ids of the App).
ClearsItsOwn ==
    [][busy.kind # "none" /\ busy'.kind = "none" /\ ~closed' =>
           /\ busy.op \notin Going'
           /\ busy.kind = "chat" => busy.op \notin pending']_vars

\* Both sides agree on the end of a run.  "Run cancelled." is true when it is
\* shown: a cancel is answered only when the task it names has ended.  And a run
\* that has ended is never what the interface waits for, once no frame is left on
\* the wire: its last event came, or something later.
EndsAgree ==
    /\ \A i \in DOMAIN micro : LET req == sent[micro[i].id] IN
         req.method = "run.cancel" /\ micro[i].ok => req.run \notin Alive
    /\ wire = <<>> /\ micro = <<>> /\ busy.kind = "run" => task[busy.op] # "done"

\* The interface does not stay busy for ever.
BusyEnds == busy.kind # "none" ~> busy.kind = "none"

=============================================================================
