------------------------------ MODULE BridgeLife ------------------------------
(***************************************************************************)
(* The two processes from start to end: the client that spawns the backend *)
(* (tui/src/bridge.ts, start, request and stop, driven by main.ts) and the *)
(* backend's run() with its event pump (avicenna/bridge/server.py).        *)
(*                                                                         *)
(* The pipes are external: they keep order, end when the process at the    *)
(* other side is gone, and a write to a gone reader fails.  What the       *)
(* requests are about is in modules RunSession and ChatTurns; here a       *)
(* request is answered or not, and may start the note run whose events     *)
(* fill the queue of the pump.                                             *)
(***************************************************************************)
EXTENDS Naturals, SequencesExt

CONSTANTS Request,    \* the requests of the session
          Capacity,   \* maxsize of the pump's queue
          MayCrash    \* whether the backend may be killed

ASSUME LifeAssumption ==
    /\ Capacity \in Nat \ {0}
    /\ MayCrash \in BOOLEAN
    /\ Request \cap {"shutdown"} = {}

VARIABLES
    ui,         \* main.ts: awaiting start(), showing the App, in stop(), ended
    closed,     \* Bridge.closed
    agree,      \* both sides speak one protocol version
    exitSeen,   \* the child's 'exit' has been emitted
    req,        \* the promise of each request
    toBack,     \* stdin of the backend: lines not yet read
    toFront,    \* stdout of the backend: frames not yet routed; events left out
    back,       \* Bridge.run of the backend
    stopping,   \* self._stopping
    handlers,   \* requests being handled
    pump,       \* the event pump: "on" or "off"
    queue,      \* how many events are in its queue
    run         \* the note run

client == <<ui, closed, agree, exitSeen, req>>
backend == <<back, stopping, handlers, pump, queue, run>>
vars == <<client, toBack, toFront, backend>>

Gone == ui = "ended"
Full == queue >= Capacity
Loop == back \in {"serving", "closing"}     \* its event loop turns

TypeOK ==
    /\ ui \in {"starting", "up", "stopping", "ended"}
    /\ {closed, agree, exitSeen, stopping} \subseteq BOOLEAN
    /\ req \in [Request -> {"none", "pending", "answered", "rejected"}]
    /\ Range(toBack) \subseteq Request \cup {"shutdown"}
    /\ Range(toFront) \subseteq Request \cup {"ready"}
    /\ back \in {"booting", "serving", "closing", "joining", "dead"}
    /\ handlers \subseteq Request /\ pump \in {"on", "off"}
    /\ queue \in 0 .. Capacity
    /\ run \in {"none", "running", "parked", "cancelled", "done"}

Init ==
    /\ ui = "starting" /\ closed = FALSE /\ agree \in BOOLEAN /\ exitSeen = FALSE
    /\ req = [r \in Request |-> "none"]
    /\ toBack = <<>> /\ toFront = <<>>
    /\ back = "booting" /\ stopping = FALSE /\ handlers = {}
    /\ pump = "on" /\ queue = 0 /\ run = "none"

-----------------------------------------------------------------------------
(* The client.                                                              *)

\* rejectAll, in what becomes of the promises.
Rejected == [r \in Request |-> IF req[r] = "pending" THEN "rejected" ELSE req[r]]

\* spawn() failed: 'error' rejects the ready promise, main prints and ends.
SpawnFails ==
    /\ ui = "starting" /\ back = "booting"
    /\ ui' = "ended" /\ closed' = TRUE /\ back' = "dead"
    /\ UNCHANGED <<agree, exitSeen, req, toBack, toFront, stopping, handlers, pump, queue, run>>

\* routeFrame on the first frame.  On a mismatch there is no request to reject
\* yet, and `ready` is not emitted.
Ready ==
    /\ ~Gone /\ toFront # <<>> /\ Head(toFront) = "ready"
    /\ toFront' = Tail(toFront)
    /\ IF agree THEN /\ ui' = IF ui = "starting" THEN "up" ELSE ui
                     /\ UNCHANGED <<closed, req>>
       ELSE closed' = TRUE /\ req' = Rejected /\ UNCHANGED ui
    /\ UNCHANGED <<agree, exitSeen, toBack, backend>>

\* A response settles its promise, unless it comes too late.
Response ==
    /\ ~Gone /\ toFront # <<>> /\ Head(toFront) # "ready"
    /\ toFront' = Tail(toFront)
    /\ req' = [req EXCEPT ![Head(toFront)] = IF @ = "pending" THEN "answered" ELSE @]
    /\ UNCHANGED <<ui, closed, agree, exitSeen, toBack, backend>>

\* request(): refused at once when the backend is known to be gone.
Issue(r) ==
    /\ ui = "up" /\ req[r] = "none"
    /\ IF closed THEN req' = [req EXCEPT ![r] = "rejected"] /\ UNCHANGED toBack
       ELSE req' = [req EXCEPT ![r] = "pending"] /\ toBack' = Append(toBack, r)
    /\ UNCHANGED <<ui, closed, agree, exitSeen, toFront, backend>>

\* The timer of a request.
Timeout(r) ==
    /\ ~Gone /\ req[r] = "pending"
    /\ req' = [req EXCEPT ![r] = "rejected"]
    /\ UNCHANGED <<ui, closed, agree, exitSeen, toBack, toFront, backend>>

\* The line cannot be written, the backend is gone: its callback rejects, and if
\* the stream throws its error too, main's uncaughtException handler stops.
WriteFails(r) ==
    /\ ~Gone /\ back = "dead" /\ ~exitSeen /\ req[r] = "pending"
    /\ req' = [req EXCEPT ![r] = "rejected"]
    /\ ui' \in {ui, IF closed THEN "ended" ELSE "stopping"}
    /\ UNCHANGED <<closed, agree, exitSeen, toBack, toFront, backend>>

\* Mutant: nobody listens for an exit before `ready`.
Exit_NotBeforeReady ==
    /\ ~Gone /\ back = "dead" /\ ~exitSeen
    /\ closed' = TRUE /\ exitSeen' = TRUE /\ req' = Rejected
    /\ UNCHANGED <<ui, agree, toBack, toFront, backend>>

\* The child's 'exit': pending requests are rejected, and so is start().
Exit ==
    /\ ~Gone /\ back = "dead" /\ ~exitSeen
    /\ closed' = TRUE /\ exitSeen' = TRUE /\ req' = Rejected
    /\ ui' = IF ui = "starting" THEN "ended" ELSE ui
    /\ UNCHANGED <<agree, toBack, toFront, backend>>

\* App.stop and bridge.stop: nothing to do for a closed bridge.
Quit ==
    /\ ui = "up"
    /\ IF closed THEN ui' = "ended" /\ UNCHANGED toBack
       ELSE ui' = "stopping" /\ toBack' = Append(toBack, "shutdown")
    /\ UNCHANGED <<closed, agree, exitSeen, req, toFront, backend>>

\* The answer to shutdown, its rejection or 400 ms: stdin ends, the child is
\* killed, and main exits.
Kill ==
    /\ ui = "stopping"
    /\ ui' = "ended" /\ back' = "dead"
    /\ UNCHANGED <<closed, agree, exitSeen, req, toBack, toFront, stopping, handlers, pump, queue, run>>

\* The interface is killed, or interrupted before its handlers are in place.
Die ==
    /\ ~Gone /\ ui' = "ended"
    /\ UNCHANGED <<closed, agree, exitSeen, req, toBack, toFront, backend>>

-----------------------------------------------------------------------------
(* The backend.                                                             *)

Boot ==
    /\ back = "booting" /\ back' = "serving"
    /\ toFront' = Append(toFront, "ready")
    /\ UNCHANGED <<client, toBack, stopping, handlers, pump, queue, run>>

\* The loop of run() and _handle_line up to the handler's first await.
ReadLine ==
    /\ back = "serving" /\ ~stopping /\ toBack # <<>>
    /\ toBack' = Tail(toBack)
    /\ IF Head(toBack) = "shutdown"
       THEN stopping' = TRUE /\ UNCHANGED handlers
       ELSE handlers' = handlers \cup {Head(toBack)} /\ UNCHANGED stopping
    /\ UNCHANGED <<client, toFront, back, pump, queue, run>>

\* A handler answers, if anybody is there to read it.
Answer(r) ==
    /\ Loop /\ r \in handlers
    /\ handlers' = handlers \ {r}
    /\ toFront' = IF Gone THEN toFront ELSE Append(toFront, r)
    /\ UNCHANGED <<client, toBack, back, stopping, pump, queue, run>>

\* ... and one of them spawns a note run first.
StartRun(r) ==
    /\ run = "none" /\ Loop /\ r \in handlers
    /\ handlers' = handlers \ {r} /\ run' = "running"
    /\ toFront' = IF Gone THEN toFront ELSE Append(toFront, r)
    /\ UNCHANGED <<client, toBack, back, stopping, pump, queue>>

\* bus.emit of an event that may not be dropped; last: the run ends with it.
Emit(last) ==
    /\ Loop /\ run = "running"
    /\ IF Full THEN run' = "parked" /\ UNCHANGED queue
       ELSE queue' = queue + 1 /\ run' = IF last THEN "done" ELSE "running"
    /\ UNCHANGED <<client, toBack, toFront, back, stopping, handlers, pump>>

\* The parked put finds room.  A cancelled run emits its RunFailed.
PutGoesOn ==
    /\ Loop /\ run \in {"parked", "cancelled"} /\ ~Full
    /\ queue' = queue + 1
    /\ run' = IF run = "parked" THEN "running" ELSE "done"
    /\ UNCHANGED <<client, toBack, toFront, back, stopping, handlers, pump>>

\* Mutant: an event that cannot be encoded ends the pump.
Pump_DiesOfOne ==
    /\ Loop /\ pump = "on" /\ queue > 0
    /\ queue' = queue - 1
    /\ pump' \in {"on", "off"}
    /\ stopping' = (stopping \/ Gone)
    /\ UNCHANGED <<client, toBack, toFront, back, handlers, run>>

\* _pump_events: an event is written, or dropped because it cannot be encoded;
\* if the interface is gone the pump ends and the backend with it.
Pump ==
    /\ Loop /\ pump = "on" /\ queue > 0
    /\ queue' = queue - 1
    /\ IF Gone THEN pump' = "off" /\ stopping' = TRUE ELSE UNCHANGED <<pump, stopping>>
    /\ UNCHANGED <<client, toBack, toFront, back, handlers, run>>

\* End of stdin, or stopping: the runs are cancelled ...
BeginTeardown ==
    /\ back = "serving"
    /\ stopping \/ (Gone /\ toBack = <<>>)
    /\ back' = "closing"
    /\ run' = IF run \in {"running", "parked"} THEN "cancelled" ELSE run
    /\ UNCHANGED <<client, toBack, toFront, stopping, handlers, pump, queue>>

\* Mutant: the bus is closed without a time limit.
CloseBus_Unbounded ==
    /\ back = "closing" /\ ~Full
    /\ back' = "joining" /\ pump' = "off" /\ handlers' = {}
    /\ run' = IF run = "none" THEN run ELSE "done"
    /\ UNCHANGED <<client, toBack, toFront, stopping, queue>>

\* ... bus.close() puts its sentinel, or gives up after 5 s at a full queue, and
\* every task is cancelled, a run that waits in put for the second time.
CloseBus ==
    /\ back = "closing"
    /\ back' = "joining" /\ pump' = "off" /\ handlers' = {}
    /\ run' = IF run = "none" THEN run ELSE "done"
    /\ UNCHANGED <<client, toBack, toFront, stopping, queue>>

\* asyncio.run waits for its reader thread, which sits in stdin.readline.
Join ==
    /\ back = "joining" /\ (Gone \/ toBack # <<>>)
    /\ back' = "dead"
    /\ UNCHANGED <<client, toBack, toFront, stopping, handlers, pump, queue, run>>

Crash ==
    /\ MayCrash /\ back # "dead" /\ back' = "dead"
    /\ UNCHANGED <<client, toBack, toFront, stopping, handlers, pump, queue, run>>

Next ==
    \/ SpawnFails \/ Ready \/ Response \/ Exit \/ Quit \/ Kill \/ Die
    \/ \E r \in Request : Issue(r) \/ Timeout(r) \/ WriteFails(r) \/ Answer(r) \/ StartRun(r)
    \/ Boot \/ ReadLine \/ PutGoesOn \/ Pump \/ BeginTeardown \/ CloseBus \/ Join \/ Crash
    \/ \E last \in BOOLEAN : Emit(last)

\* Both event loops turn and their timers fire; the backend comes up or exits.
\* No handler need ever answer, no run ever emit, nobody need ever quit.
Fairness ==
    /\ WF_vars(Ready \/ Response) /\ WF_vars(Exit) /\ WF_vars(Kill)
    /\ \A r \in Request : WF_vars(Timeout(r))
    /\ WF_vars(Boot) /\ WF_vars(ReadLine) /\ WF_vars(PutGoesOn) /\ WF_vars(Pump)
    /\ WF_vars(BeginTeardown) /\ WF_vars(CloseBus) /\ WF_vars(Join)

Spec == Init /\ [][Next]_vars
FairSpec == Spec /\ Fairness

-----------------------------------------------------------------------------
(* Properties.                                                              *)

\* No promise of the client is left open ("a backend that stalled left the
\* interface busy forever", request): start() ends, and every request does,
\* though its handler may hang and the backend die.  The exception is start()
\* with a backend of another protocol version, whose `ready` settles nothing.
PromisesSettle ==
    /\ (ui = "starting" /\ agree) ~> ui # "starting"
    /\ \A r \in Request : req[r] = "pending" ~> (req[r] # "pending" \/ Gone)

\* The pipeline never waits for ever in an emit: the pump reads, or what ended it
\* ends the backend ("with the pump dead every bus.emit awaits forever and the run
\* deadlocks mid-note", _pump_events).  The type invariant is part of it.
EmitGoesOn == []TypeOK /\ (run = "parked" ~> (run # "parked" \/ back = "dead"))

\* No backend outlives its interface, however that ended: a run in progress, a
\* full queue, a dead pump and a thread in readline do not keep it.
BackendEnds == Gone ~> back = "dead"
=============================================================================
