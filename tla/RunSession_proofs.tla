-------------------------- MODULE RunSession_proofs --------------------------
(***************************************************************************)
(* Proofs about the prompt of the interface, for any number of requests    *)
(* and any budgets but that of run.note, which must cover its dispatch     *)
(* (bridge.ts:52): the request is answered before its 30 seconds are over. *)
(* Without that the properties are false, as app.ts:1107 lets the late end *)
(* of a run given up free the prompt of what was begun after it.           *)
(*                                                                         *)
(* IInv is inductive.  The properties speak of the prompt and of the tasks *)
(* of the backend; between them lie two pipes, and what the proofs need is *)
(* what may lie on the pipes, and in which order, given the two ends.      *)
(***************************************************************************)
EXTENDS RunSession, FiniteSetTheorems, TLAPS

USE SessionAssumption

NoteAnsweredInTime == "run.note" \notin TimesOut

Asks(id, method) == id \in 1 .. Len(sent) /\ sent[id].method = method

\* What the prompt is busy with, and whether it still waits for the run's id.
RunningOf(run) == busy.kind = "run" /\ busy.op = run
Awaiting(run) == RunningOf(run) /\ busy.runId = NotKnown

IsEnd(frame, run) == frame.type = "end" /\ frame.id = run
IsAnswer(frame, id) == frame.type = "res" /\ frame.id = id

\* A task belongs to a run.note, a waiting handler to a run.cancel of a run that
\* was started, a turn to a chat.send.
SentInv ==
  /\ \A r \in Id : task[r] # "none" => Asks(r, "run.note")
  /\ \A c \in DOMAIN sent : sent[c].method = "run.cancel" => task[sent[c].run] # "none"
  /\ \A c \in waiting : Asks(c, "run.cancel")
  /\ \A c \in turns : Asks(c, "chat.send")

\* Nothing is left of a backend that has exited, and nobody waits for it.
ClosedInv ==
  closed => /\ busy = Idle /\ pending = {} /\ inbox = <<>>
            /\ waiting = {} /\ turns = {} /\ Alive = {}

\* A busy prompt waits for its own request, whose run has told its id or is about
\* to, and whose end is on its way when the run has ended.
BusyInv ==
  /\ busy.kind = "none" => busy = Idle
  /\ busy.kind = "run" =>
       /\ Asks(busy.op, "run.note")
       /\ busy.runId \in {NotKnown, busy.op}
       /\ busy.runId = NotKnown =>
            busy.op \in pending \/ \E i \in DOMAIN micro : micro[i].id = busy.op
       /\ busy.runId # NotKnown => task[busy.op] # "none"
       /\ task[busy.op] = "done" => \E i \in DOMAIN wire : IsEnd(wire[i], busy.op)
  /\ busy.kind = "chat" =>
       /\ Asks(busy.op, "chat.send") /\ busy.runId = NotKnown
       /\ \A q \in busy.op + 1 .. Len(sent) : sent[q].method # "chat.send"

\* An answer to id is on the pipe w, and no end of the run id comes before it.
AnsweredFirst(w, id) ==
  \E i \in DOMAIN w : /\ IsAnswer(w[i], id)
                      /\ \A j \in DOMAIN w : IsEnd(w[j], id) => i < j

\* The prompt waits for a run.note as long as it is pending, and once the run has
\* been started its acceptance is on the wire, before its end.
PendingInv ==
  \A id \in pending : sent[id].method = "run.note" =>
    /\ Awaiting(id)
    /\ task[id] # "none" => AnsweredFirst(wire, id)

\* Requests are read in the order of their ids; a run.note not read is pending.
InboxInv ==
  /\ \A i, j \in DOMAIN inbox : i < j => inbox[i] < inbox[j]
  /\ \A i \in DOMAIN inbox :
       /\ inbox[i] \in 1 .. Len(sent)
       /\ sent[inbox[i]].method = "run.note" =>
            task[inbox[i]] = "none" /\ inbox[i] \in pending

\* The prompt is busy with the run that goes on.
AliveInv == \A r \in Alive : RunningOf(r)

\* A frame on the wire tells the truth about the task.
FrameOK(f) ==
  /\ f.type = "end" => task[f.id] = "done" /\ (closed \/ RunningOf(f.id))
  /\ f.type = "res" =>
       /\ f.id \in 1 .. Len(sent)
       /\ sent[f.id].method = "run.note" =>
            /\ f.ok => task[f.id] # "none"
            /\ ~f.ok => task[f.id] = "none" /\ \A j \in DOMAIN inbox : inbox[j] # f.id
       /\ sent[f.id].method = "run.cancel" => task[sent[f.id].run] = "done"

FrameInv == \A i \in DOMAIN wire : FrameOK(wire[i])

\* A run ends once, and before any answer to a cancel of it.
Clash(f, g) ==
  /\ g.type = "end"
  /\ \/ f.type = "end" /\ f.id = g.id
     \/ f.type = "res" /\ sent[f.id].method = "run.cancel" /\ sent[f.id].run = g.id

OrderInv == \A i, j \in DOMAIN wire : i < j => ~ Clash(wire[i], wire[j])

\* A settled promise is settled once; the prompt still waits for the run.note it
\* answers, unless the end of the run came with it; a confirmed cancel comes
\* after the end of its run.
MicroOK(m) ==
  /\ m.id \in 1 .. Len(sent) /\ m.id \notin pending
  /\ sent[m.id].method = "run.note" /\ ~closed =>
       /\ m.ok => task[m.id] # "none" /\ (busy.kind = "none" \/ Awaiting(m.id))
       /\ ~m.ok => task[m.id] = "none" /\ Awaiting(m.id)
  /\ sent[m.id].method = "run.cancel" /\ m.ok =>
       /\ task[sent[m.id].run] = "done"
       /\ \A j \in DOMAIN wire : ~ IsEnd(wire[j], sent[m.id].run)

MicroInv ==
  /\ \A i, j \in DOMAIN micro : micro[i].id = micro[j].id => i = j
  /\ \A i \in DOMAIN micro : MicroOK(micro[i])

\* Everything but the types.
Protocol ==
  /\ SentInv /\ ClosedInv /\ BusyInv /\ PendingInv /\ InboxInv
  /\ AliveInv /\ FrameInv /\ OrderInv /\ MicroInv

IInv == TypeOK /\ Protocol
-----------------------------------------------------------------------------
(* Sequences seen position by position.                                    *)

\* t is s with e at its end.
GrownBy(t, s, e) ==
  \E n \in Nat : /\ DOMAIN t = DOMAIN s \cup {n} /\ t[n] = e
                 /\ \A i \in DOMAIN s : t[i] = s[i] /\ i \in Nat /\ i < n /\ i # n

\* t is s without its first element.
ShrunkTo(t, s) ==
  /\ 1 \in DOMAIN s /\ Head(s) = s[1]
  /\ \A i \in DOMAIN s : i \in Nat
  /\ \A i \in DOMAIN t : i \in Nat /\ i > 0 /\ i + 1 \in DOMAIN s /\ t[i] = s[i + 1]
  /\ \A i \in DOMAIN s \ {1} : i - 1 \in DOMAIN t /\ t[i - 1] = s[i]

LEMMA AppendGrows ==
  ASSUME NEW S, NEW s \in Seq(S), NEW e \in S
  PROVE  GrownBy(Append(s, e), s, e) /\ Append(s, e) \in Seq(S)
<1>1. PICK n \in Nat : n = Len(s) + 1
  OBVIOUS
<1>2. /\ DOMAIN Append(s, e) = DOMAIN s \cup {n} /\ Append(s, e)[n] = e
      /\ \A i \in DOMAIN s : Append(s, e)[i] = s[i] /\ i \in Nat /\ i < n /\ i # n
  BY <1>1
<1> QED BY <1>2 DEF GrownBy

LEMMA TailShrinks ==
  ASSUME NEW S, NEW s \in Seq(S), s # <<>>
  PROVE  ShrunkTo(Tail(s), s) /\ Tail(s) \in Seq(S) /\ s[1] \in S
BY DEF ShrunkTo

\* An answer that comes before the end keeps its place: as the pipe grows, and as
\* it is read, unless it is the frame that is read.
LEMMA AnsweredStays ==
  ASSUME NEW s, NEW t, NEW f, GrownBy(t, s, f), NEW id, AnsweredFirst(s, id)
  PROVE  AnsweredFirst(t, id)
BY DEF GrownBy, AnsweredFirst

LEMMA AnsweredNow ==
  ASSUME NEW s, NEW t, NEW f, GrownBy(t, s, f), NEW id, IsAnswer(f, id),
         \A j \in DOMAIN s : ~ IsEnd(s[j], id)
  PROVE  AnsweredFirst(t, id)
BY DEF GrownBy, AnsweredFirst, IsAnswer, IsEnd

LEMMA AnsweredNext ==
  ASSUME NEW s, NEW t, ShrunkTo(t, s), NEW id, AnsweredFirst(s, id), ~ IsAnswer(s[1], id)
  PROVE  AnsweredFirst(t, id)
<1>1. PICK i \in DOMAIN s : /\ IsAnswer(s[i], id)
                            /\ \A j \in DOMAIN s : IsEnd(s[j], id) => i < j
  BY DEF AnsweredFirst
<1>2. i # 1 /\ i \in Nat /\ i - 1 \in DOMAIN t /\ t[i - 1] = s[i]
  BY <1>1 DEF ShrunkTo
<1>3. ASSUME NEW j \in DOMAIN t, IsEnd(t[j], id) PROVE i - 1 < j
  BY <1>1, <1>2, <1>3 DEF ShrunkTo
<1> QED BY <1>1, <1>2, <1>3 DEF AnsweredFirst

\* What the types say of single elements.
LEMMA Elements ==
  ASSUME TypeOK
  PROVE  /\ Len(sent) \in Nat /\ DOMAIN sent = 1 .. Len(sent) /\ Len(sent) <= MaxRequests
         /\ \A c \in DOMAIN sent :
              /\ c \in Id /\ sent[c].method \in Method
              /\ sent[c].method = "run.cancel" => sent[c].run \in Id
         /\ \A i \in DOMAIN wire :
              /\ wire[i].type \in {"res", "end"} /\ wire[i].id \in Id
              /\ wire[i].type = "res" => wire[i].ok \in BOOLEAN
         /\ \A i \in DOMAIN micro : micro[i].id \in Id /\ micro[i].ok \in BOOLEAN
         /\ \A i \in DOMAIN inbox : inbox[i] \in Id
         /\ busy.kind \in {"none", "run", "chat"} /\ busy.op \in 0 .. MaxRequests
         /\ busy.runId \in 0 .. MaxRequests
<1>1. /\ Len(sent) \in Nat /\ DOMAIN sent = 1 .. Len(sent) /\ Len(sent) <= MaxRequests
      /\ \A c \in DOMAIN sent : c \in Id /\ sent[c] \in Request
  BY DEF TypeOK, Id
<1>2. ASSUME NEW q \in Request
      PROVE  q.method \in Method /\ (q.method = "run.cancel" => q.run \in Id)
  BY DEF Request, Method
<1>3. \A i \in DOMAIN wire : wire[i] \in Frame
  BY DEF TypeOK
<1>4. ASSUME NEW f \in Frame
      PROVE  /\ f.type \in {"res", "end"} /\ f.id \in Id
             /\ f.type = "res" => f.ok \in BOOLEAN
  BY DEF Frame
<1>5. \A i \in DOMAIN micro : micro[i] \in Response
  BY DEF TypeOK
<1>6. \A m \in Response : m.id \in Id /\ m.ok \in BOOLEAN
  BY DEF Response
<1>7. \A i \in DOMAIN inbox : inbox[i] \in Id
  BY DEF TypeOK
<1>8. busy.kind \in {"none", "run", "chat"} /\ busy.op \in 0 .. MaxRequests
      /\ busy.runId \in 0 .. MaxRequests
  BY DEF TypeOK, Busy
<1> QED BY <1>1, <1>2, <1>3, <1>4, <1>5, <1>6, <1>7, <1>8
-----------------------------------------------------------------------------
(* Types.                                                                  *)

\* The next id, and the sequences an Issue grows.
LEMMA IssueType ==
  ASSUME TypeOK, NEW method \in Method, NEW run,
         IF method = "run.cancel" THEN run \in Id ELSE run = NotKnown,
         NextId \in Id, busy' \in Busy, Issue(method, run)
  PROVE  TypeOK'
<1>1. [method |-> method, run |-> run] \in Request
  BY DEF Request, Method
<1>2. /\ sent' \in Seq(Request) /\ Len(sent') = Len(sent) + 1 /\ Len(sent) \in Nat
      /\ inbox' \in Seq(Id)
  BY <1>1 DEF Issue, TypeOK
<1>3. Len(sent') <= MaxRequests
  BY <1>2 DEF NextId, Id
<1>4. pending' \subseteq 1 .. Len(sent')
  <2>1. pending' = pending \cup {Len(sent) + 1} /\ pending \subseteq 1 .. Len(sent)
    BY DEF Issue, TypeOK, NextId
  <2>2. ASSUME NEW n \in Nat PROVE 1 .. n \subseteq 1 .. n + 1 /\ n + 1 \in 1 .. n + 1
    OBVIOUS
  <2> QED BY <1>2, <2>1, <2>2
<1>5. /\ micro' = micro /\ closed' = closed /\ wire' = wire
      /\ task' = task /\ waiting' = waiting /\ turns' = turns
  BY DEF Issue, backendVars
<1> QED BY <1>2, <1>3, <1>4, <1>5 DEF TypeOK

LEMMA FrameTypes ==
  /\ \A id \in Id, ok \in BOOLEAN : Answer(id, ok) \in Frame
  /\ \A run \in Id : End(run) \in Frame
  /\ \A id \in Id, ok \in BOOLEAN : [id |-> id, ok |-> ok] \in Response
BY DEF Answer, End, Frame, Response

\* Every promise of the pending ones is rejected, and rejected once.
LEMMA RejectedType ==
  ASSUME TypeOK, NEW m \in Rejected
  PROVE  /\ m \in Seq(Response)
         /\ \A i \in DOMAIN m : m[i].id \in pending /\ m[i].ok = FALSE
         /\ \A i, j \in DOMAIN m : m[i].id = m[j].id => i = j
<1>1. IsFiniteSet(1 .. Len(sent)) /\ pending \subseteq 1 .. Len(sent)
  BY FS_Interval DEF TypeOK
<1>2. IsFiniteSet(pending)
  BY <1>1, FS_Subset
<1>3. Cardinality(pending) \in Nat
  BY <1>2, FS_CardinalityType
<1> DEFINE n == Cardinality(pending)
<1>4. /\ DOMAIN m = 1 .. n
      /\ m \in [1 .. n -> [id : pending, ok : {FALSE}]]
      /\ \A i, j \in 1 .. n : i < j => m[i].id < m[j].id
  BY DEF Rejected
<1> HIDE DEF n
<1>5. n \in Nat
  BY <1>3 DEF n
<1>6. \A i \in DOMAIN m : m[i].id \in pending /\ m[i].ok = FALSE
  BY <1>4
<1>7. [id : pending, ok : {FALSE}] \subseteq Response
  BY <1>1, Elements DEF Response, Id
<1>8. m \in Seq(Response)
  <2>1. m \in [1 .. n -> Response]
    BY <1>4, <1>7
  <2>2. m \in Seq(Response)
    BY <1>5, <2>1
  <2> QED BY <2>2
<1>9. ASSUME NEW i \in DOMAIN m, NEW j \in DOMAIN m, m[i].id = m[j].id
      PROVE  i = j
  <2>0. DOMAIN m = 1 .. n
    BY <1>4
  <2>1. i \in Nat /\ j \in Nat
    BY <1>5, <2>0
  <2>2. m[i].id \in Nat
    <3>1. \A x \in pending : x \in Nat
      BY <1>1, Elements
    <3> QED BY <1>6, <3>1
  <2>3. ~ (i < j) /\ ~ (j < i)
    BY <1>4, <1>9, <2>2
  <2> QED BY <2>1, <2>3
<1> QED BY <1>6, <1>8, <1>9

LEMMA TypeStep ==
  ASSUME TypeOK, [Next]_vars
  PROVE  TypeOK'
<1>0. TypeOK
  OBVIOUS
<1>1. CASE StartRun
  <2>1. NextId \in Id /\ Issue("run.note", NotKnown)
    BY <1>1 DEF StartRun, AtPrompt
  <2>2. busy' \in Busy
    BY <1>1, <2>1 DEF StartRun, Busy, Id, NotKnown
  <2> QED BY <2>1, <2>2, IssueType DEF Method
<1>2. CASE CancelRun
  <2>1. NextId \in Id /\ Issue("run.cancel", busy.runId) /\ busy' = busy
    BY <1>2 DEF CancelRun, AtPrompt
  <2>2. busy.runId \in Id
    BY <1>2, Elements DEF CancelRun, Id, NotKnown
  <2> QED BY <2>1, <2>2, IssueType DEF Method, TypeOK
<1>3. CASE SendChat
  <2>1. NextId \in Id /\ Issue("chat.send", NotKnown)
    BY <1>3 DEF SendChat, AtPrompt
  <2>2. busy' \in Busy
    BY <1>3, <2>1 DEF SendChat, Busy, Id, NotKnown
  <2> QED BY <2>1, <2>2, IssueType DEF Method
<1>4. CASE ReceiveResponse
  <2>1. wire \in Seq(Frame) /\ wire # <<>> /\ Head(wire) = wire[1] /\ 1 \in DOMAIN wire
    BY <1>4 DEF ReceiveResponse, TypeOK
  <2>2. Head(wire).id \in Id /\ Head(wire).ok \in BOOLEAN
    BY <1>4, <2>1, Elements DEF ReceiveResponse
  <2>3. [id |-> Head(wire).id, ok |-> Head(wire).ok] \in Response
    BY <2>2, FrameTypes
  <2>4. micro' \in Seq(Response)
    BY <1>4, <2>3 DEF ReceiveResponse, TypeOK
  <2>5. wire' \in Seq(Frame)
    BY <1>4, <2>1 DEF ReceiveResponse
  <2> QED BY <1>4, <2>4, <2>5 DEF ReceiveResponse, TypeOK, backendVars
<1>5. CASE ReceiveEnd
  <2>1. wire' \in Seq(Frame)
    BY <1>5 DEF ReceiveEnd, TypeOK
  <2>2. Idle \in Busy
    BY DEF Idle, Busy, NotKnown
  <2>3. busy' \in Busy
    BY <1>5, <2>2 DEF ReceiveEnd, TypeOK
  <2> QED BY <1>5, <2>1, <2>3 DEF ReceiveEnd, TypeOK, backendVars
<1>6. CASE Continue
  <2>1. micro' \in Seq(Response)
    BY <1>6 DEF Continue, TypeOK
  <2>2. Idle \in Busy
    BY DEF Idle, Busy, NotKnown
  <2>3. ASSUME NEW id \in Id PROVE [busy EXCEPT !.runId = id] \in Busy
    <3>1. busy \in Busy
      BY DEF TypeOK
    <3>2. id \in 0 .. MaxRequests
      BY DEF Id
    <3> QED BY <3>1, <3>2 DEF Busy
  <2>4. Head(micro).id \in Id
    BY <1>6, TailShrinks, Elements DEF Continue, TypeOK, ShrunkTo
  <2>5. busy' \in Busy
    BY <1>6, <2>2, <2>3, <2>4 DEF Continue, AfterNote, AfterCancel, AfterChat, TypeOK
  <2> QED BY <1>6, <2>1, <2>5 DEF Continue, TypeOK, backendVars
<1>7. ASSUME NEW id \in Id, Timeout(id) PROVE TypeOK'
  <2>1. [id |-> id, ok |-> FALSE] \in Response
    BY FrameTypes
  <2>2. micro' \in Seq(Response)
    BY <1>7, <2>1 DEF Timeout, TypeOK
  <2> QED BY <1>7, <2>2 DEF Timeout, TypeOK, backendVars
<1>8. ASSUME NEW method, Asked(method)
      PROVE  /\ Head(inbox) \in Id /\ Tail(inbox) \in Seq(Id)
             /\ \A ok \in BOOLEAN : Append(wire, Answer(Head(inbox), ok)) \in Seq(Frame)
  <2>1. inbox \in Seq(Id) /\ inbox # <<>> /\ wire \in Seq(Frame)
    BY <1>8 DEF Asked, TypeOK
  <2>2. Head(inbox) \in Id /\ Tail(inbox) \in Seq(Id)
    BY <2>1
  <2>3. \A ok \in BOOLEAN : Answer(Head(inbox), ok) \in Frame
    BY <2>2, FrameTypes
  <2> QED BY <2>1, <2>2, <2>3
<1>9. CASE AcceptNote
  BY <1>8, <1>9 DEF AcceptNote, TypeOK, tuiVars
<1>10. CASE RefuseNote
  BY <1>8, <1>10 DEF RefuseNote, TypeOK, tuiVars, backendVars
<1>11. CASE HandleCancel
  BY <1>8, <1>11 DEF HandleCancel, TypeOK, tuiVars
<1>12. CASE BeginTurn
  BY <1>8, <1>12 DEF BeginTurn, TypeOK, tuiVars
<1>13. ASSUME NEW id \in Id, AnswerCancel(id) PROVE TypeOK'
  <2>1. Answer(id, TRUE) \in Frame
    BY FrameTypes
  <2>2. wire' \in Seq(Frame) /\ waiting' \subseteq Id
    BY <1>13, <2>1, AppendGrows DEF AnswerCancel, TypeOK
  <2> QED BY <1>13, <2>2 DEF AnswerCancel, TypeOK, tuiVars
<1>14. ASSUME NEW id \in Id, EndRun(id) PROVE TypeOK'
  BY <1>14, FrameTypes DEF EndRun, TypeOK, tuiVars
<1>15. ASSUME NEW id \in Id, NEW ok \in BOOLEAN, EndTurn(id, ok) PROVE TypeOK'
  <2>1. Answer(id, ok) \in Frame
    BY FrameTypes
  <2>2. wire' \in Seq(Frame) /\ turns' \subseteq Id
    BY <1>15, <2>1 DEF EndTurn, TypeOK
  <2> QED BY <1>15, <2>2 DEF EndTurn, TypeOK, tuiVars
<1>16. CASE Exit
  <2>1. micro' \in Seq(Response)
    BY <1>16, RejectedType DEF Exit
  <2>2. Idle \in Busy /\ <<>> \in Seq(Id)
    BY DEF Idle, Busy, NotKnown
  <2>3. task' \in [Id -> {"none", "running", "cancelling", "done"}]
    BY <1>16 DEF Exit, TypeOK
  <2> QED BY <1>16, <2>1, <2>2, <2>3 DEF Exit, TypeOK
<1>17. CASE UNCHANGED vars
  BY <1>17 DEF vars, TypeOK
<1> QED
  BY <1>1, <1>2, <1>3, <1>4, <1>5, <1>6, <1>7, <1>9, <1>10, <1>11, <1>12, <1>13,
     <1>14, <1>15, <1>16, <1>17 DEF Next
-----------------------------------------------------------------------------
(* The backend's steps.                                                    *)

\* A task ends.
LEMMA EndRunStep ==
  ASSUME IInv, NEW run \in Id, EndRun(run)
  PROVE  Protocol'
<1>0. /\ TypeOK /\ SentInv /\ ClosedInv /\ BusyInv /\ PendingInv /\ InboxInv
      /\ AliveInv /\ FrameInv /\ OrderInv /\ MicroInv
  BY DEF IInv, Protocol
<1>1. /\ ~closed /\ run \in Alive
      /\ sent' = sent /\ busy' = busy /\ pending' = pending /\ micro' = micro
      /\ closed' = closed /\ inbox' = inbox /\ waiting' = waiting /\ turns' = turns
  BY DEF EndRun, tuiVars
<1>2. /\ task[run] \in {"running", "cancelling"} /\ task'[run] = "done"
      /\ \A r \in Id : r # run => task'[r] = task[r]
  BY <1>0, <1>1 DEF EndRun, Alive, TypeOK
<1>3. GrownBy(wire', wire, End(run))
  BY <1>0, FrameTypes, AppendGrows DEF EndRun, TypeOK
<1>4. End(run).type = "end" /\ End(run).id = run
  BY DEF End
<1>5. PICK n \in Nat :
        /\ DOMAIN wire' = DOMAIN wire \cup {n} /\ wire'[n] = End(run)
        /\ \A i \in DOMAIN wire : wire'[i] = wire[i] /\ i \in Nat /\ i < n /\ i # n
  BY <1>3 DEF GrownBy
<1>6. RunningOf(run) /\ Asks(run, "run.note")
  BY <1>0, <1>1, <1>2 DEF AliveInv, SentInv
<1>7. /\ \A c \in DOMAIN sent : /\ c \in Id
                                /\ sent[c].method = "run.cancel" => sent[c].run \in Id
      /\ \A i \in DOMAIN wire : wire[i].type \in {"res", "end"} /\ wire[i].id \in Id
      /\ DOMAIN sent = 1 .. Len(sent)
  BY <1>0, Elements
<1>8. SentInv'
  BY <1>0, <1>1, <1>2, <1>6, <1>7 DEF SentInv, Asks
<1>9. ClosedInv'
  BY <1>1 DEF ClosedInv
<1>10. BusyInv'
  BY <1>0, <1>1, <1>2, <1>4, <1>5, <1>6, <1>7 DEF BusyInv, Asks, IsEnd, RunningOf
<1>11. PendingInv'
  BY <1>0, <1>1, <1>2, <1>3, <1>7, AnsweredStays
     DEF PendingInv, Awaiting, RunningOf, TypeOK
<1>12. InboxInv'
  BY <1>0, <1>1, <1>2, <1>7 DEF InboxInv
<1>13. AliveInv'
  BY <1>0, <1>1, <1>2 DEF AliveInv, Alive, RunningOf
<1>14. FrameInv'
  BY <1>0, <1>1, <1>2, <1>4, <1>5, <1>6, <1>7 DEF FrameInv, FrameOK, RunningOf
<1>15. OrderInv'
  BY <1>0, <1>1, <1>2, <1>4, <1>5, <1>7 DEF OrderInv, FrameInv, FrameOK, Clash
<1>16. MicroInv'
  BY <1>0, <1>1, <1>2, <1>4, <1>5, <1>7
     DEF MicroInv, MicroOK, Awaiting, RunningOf, IsEnd
<1> QED BY <1>8, <1>9, <1>10, <1>11, <1>12, <1>13, <1>14, <1>15, <1>16 DEF Protocol

\* The request the backend reads next, and what is left unread.
LEMMA ReadNext ==
  ASSUME IInv, NEW method, Asked(method)
  PROVE  /\ ~closed /\ sent[Head(inbox)].method = method
         /\ Head(inbox) = inbox[1] /\ 1 \in DOMAIN inbox
         /\ Head(inbox) \in 1 .. Len(sent) /\ Head(inbox) \in Id
         /\ \A i \in DOMAIN Tail(inbox) :
              /\ i \in Nat /\ i + 1 \in DOMAIN inbox /\ Tail(inbox)[i] = inbox[i + 1]
              /\ Tail(inbox)[i] # Head(inbox)
<1>1. TypeOK /\ InboxInv
  BY DEF IInv, Protocol
<1>2. ~closed /\ inbox # <<>> /\ sent[Head(inbox)].method = method
  BY DEF Asked
<1>3. inbox \in Seq(Id)
  BY <1>1 DEF TypeOK
<1>4. ShrunkTo(Tail(inbox), inbox) /\ inbox[1] \in Id
  BY <1>2, <1>3, TailShrinks
<1>5. ASSUME NEW i \in DOMAIN Tail(inbox) PROVE Tail(inbox)[i] # inbox[1]
  <2>1. /\ i \in Nat /\ i > 0 /\ i + 1 \in DOMAIN inbox /\ Tail(inbox)[i] = inbox[i + 1]
        /\ 1 \in DOMAIN inbox
    BY <1>4 DEF ShrunkTo
  <2>2. inbox[1] < inbox[i + 1]
    BY <1>1, <2>1 DEF InboxInv
  <2>3. inbox[1] \in Nat
    BY <1>4 DEF Id
  <2> QED BY <2>1, <2>2, <2>3
<1> QED BY <1>1, <1>2, <1>4, <1>5 DEF ShrunkTo, InboxInv

\* What the inbox holds is still in order when its first request is read, and
\* a run.note in it is still pending and not started.
LEMMA InboxRead ==
  ASSUME IInv, NEW method, Asked(method), inbox' = Tail(inbox), sent' = sent,
         pending' = pending, \A r \in Id : r # Head(inbox) =>
                               (task[r] = "none" => task'[r] = "none")
  PROVE  InboxInv'
<1>1. /\ TypeOK /\ InboxInv /\ \A i \in DOMAIN inbox : inbox[i] \in Id
  BY Elements DEF IInv, Protocol
<1>2. \A i \in DOMAIN inbox' :
        /\ i \in Nat /\ i + 1 \in DOMAIN inbox /\ inbox'[i] = inbox[i + 1]
        /\ inbox'[i] # Head(inbox)
  BY ReadNext
<1> QED BY <1>1, <1>2 DEF InboxInv

\* A run.note is accepted: its task is started, and the acceptance is put at the
\* end of the wire.
LEMMA AcceptNoteStep ==
  ASSUME IInv, AcceptNote
  PROVE  Protocol'
<1>0. /\ TypeOK /\ SentInv /\ ClosedInv /\ BusyInv /\ PendingInv /\ InboxInv
      /\ AliveInv /\ FrameInv /\ OrderInv /\ MicroInv
  BY DEF IInv, Protocol
<1>i. PICK id : id = Head(inbox)
  OBVIOUS
<1>1. /\ sent' = sent /\ busy' = busy /\ pending' = pending /\ micro' = micro
      /\ closed' = closed /\ waiting' = waiting /\ turns' = turns
      /\ inbox' = Tail(inbox) /\ Asked("run.note")
  BY DEF AcceptNote, tuiVars
<1>2. /\ ~closed /\ sent[id].method = "run.note" /\ id = inbox[1] /\ 1 \in DOMAIN inbox
      /\ id \in 1 .. Len(sent) /\ id \in Id
      /\ \A i \in DOMAIN inbox' :
           /\ i \in Nat /\ i + 1 \in DOMAIN inbox /\ inbox'[i] = inbox[i + 1]
           /\ inbox'[i] # id
  BY <1>1, <1>i, ReadNext
<1>3. GrownBy(wire', wire, Answer(id, TRUE))
  <2>1. PICK f \in Frame : f = Answer(id, TRUE)
    BY <1>2, FrameTypes
  <2>2. wire' = Append(wire, f) /\ wire \in Seq(Frame)
    BY <1>0, <1>i, <2>1 DEF AcceptNote, TypeOK
  <2>3. GrownBy(wire', wire, f)
    BY <2>2, AppendGrows
  <2> QED BY <2>1, <2>3
<1>4. Answer(id, TRUE).type = "res" /\ Answer(id, TRUE).id = id /\ Answer(id, TRUE).ok
  BY DEF Answer
<1>5. PICK n \in Nat :
        /\ DOMAIN wire' = DOMAIN wire \cup {n} /\ wire'[n] = Answer(id, TRUE)
        /\ \A i \in DOMAIN wire : wire'[i] = wire[i] /\ i \in Nat /\ i < n /\ i # n
  BY <1>3 DEF GrownBy
<1>6. task[id] = "none" /\ id \in pending /\ Awaiting(id)
  BY <1>0, <1>2 DEF InboxInv, PendingInv
<1>7. task'[id] = "running" /\ \A r \in Id : r # id => task'[r] = task[r]
  BY <1>0, <1>2, <1>i DEF AcceptNote, TypeOK
<1>8. /\ \A c \in DOMAIN sent : /\ c \in Id
                                /\ sent[c].method = "run.cancel" => sent[c].run \in Id
      /\ \A i \in DOMAIN wire : wire[i].type \in {"res", "end"} /\ wire[i].id \in Id
      /\ DOMAIN sent = 1 .. Len(sent)
  BY <1>0, Elements
<1>9. SentInv'
  BY <1>0, <1>1, <1>2, <1>7, <1>8, ZenonT(60) DEF SentInv, Asks
<1>10. ClosedInv'
  BY <1>1, <1>2 DEF ClosedInv
<1>11. BusyInv'
  <2>1. busy.kind = "run" /\ busy.op = id /\ busy.runId = NotKnown
    BY <1>6 DEF Awaiting, RunningOf
  <2> QED BY <1>1, <1>2, <1>6, <1>7, <2>1 DEF BusyInv, Asks
<1>12. PendingInv'
  <2>1. AnsweredFirst(wire', id)
    BY <1>0, <1>3, <1>4, <1>6, AnsweredNow, ZenonT(60) DEF IsAnswer, IsEnd, FrameInv, FrameOK
  <2>2. \A p \in pending : sent[p].method = "run.note" => Awaiting(p) /\ p = id
    BY <1>0, <1>6 DEF PendingInv, Awaiting, RunningOf
  <2> QED BY <1>1, <2>1, <2>2 DEF PendingInv, Awaiting, RunningOf
<1>13. InboxInv'
  BY <1>1, <1>7, <1>i, InboxRead
<1>14. AliveInv'
  BY <1>0, <1>1, <1>6, <1>7 DEF AliveInv, Alive, Awaiting, RunningOf
<1>15. FrameInv'
  <2>1. ASSUME NEW i \in DOMAIN wire PROVE FrameOK(wire[i])'
    <3>1. PICK f : f = wire[i]
      OBVIOUS
    <3>2. FrameOK(f) /\ f.id \in Id /\ wire'[i] = f
      BY <1>0, <1>5, <1>8, <3>1 DEF FrameInv
    <3>3. /\ task[f.id] = "done" => task'[f.id] = "done"
          /\ task[f.id] # "none" => task'[f.id] # "none"
          /\ f.id # id => task'[f.id] = task[f.id]
      BY <1>6, <1>7, <3>2
    <3>4. ASSUME f.type = "res", f.id \in 1 .. Len(sent), sent[f.id].method = "run.cancel"
          PROVE  task'[sent[f.id].run] = "done"
      BY <1>6, <1>7, <1>8, <3>2, <3>4 DEF FrameOK
    <3>5. (\A j \in DOMAIN inbox : inbox[j] # f.id)
            => f.id # id /\ \A j \in DOMAIN inbox' : inbox'[j] # f.id
      BY <1>2
    <3> QED BY <1>1, <3>2, <3>3, <3>4, <3>5 DEF FrameOK, RunningOf
  <2>2. FrameOK(wire[n])'
    BY <1>1, <1>2, <1>4, <1>5, <1>7 DEF FrameOK
  <2> QED BY <1>5, <2>1, <2>2 DEF FrameInv
<1>16. OrderInv'
  <2> SUFFICES ASSUME NEW i \in DOMAIN wire', NEW j \in DOMAIN wire', i < j
               PROVE  ~ Clash(wire[i], wire[j])'
    BY DEF OrderInv
  <2>1. i \in DOMAIN wire
    BY <1>5
  <2>2. CASE j = n
    BY <1>4, <1>5, <2>2 DEF Clash
  <2>3. CASE j \in DOMAIN wire
    BY <1>0, <1>1, <1>5, <2>1, <2>3 DEF OrderInv, Clash
  <2> QED BY <1>5, <2>2, <2>3
<1>17. MicroInv'
  <2>1. ASSUME NEW i \in DOMAIN micro PROVE MicroOK(micro[i])'
    <3>1. MicroOK(micro[i])
      BY <1>0 DEF MicroInv
    <3>2. micro[i].id \in Id /\ micro[i].id # id
      BY <1>6, <1>8, <3>1 DEF MicroOK
    <3> QED BY <1>1, <1>4, <1>5, <1>6, <1>7, <1>8, <3>1, <3>2, ZenonT(60)
            DEF MicroOK, Awaiting, RunningOf, IsEnd
  <2> QED BY <1>0, <1>1, <2>1 DEF MicroInv
<1> QED BY <1>9, <1>10, <1>11, <1>12, <1>13, <1>14, <1>15, <1>16, <1>17 DEF Protocol

\* The other steps of the backend read a request or not, cancel a task or not and
\* send an answer or not; the interface stays as it is.
LEMMA BackendKeeps ==
  ASSUME IInv, ~closed,
         sent' = sent, busy' = busy, pending' = pending, micro' = micro, closed' = closed,
         \A r \in Id : task'[r] = task[r] \/ (r \in Alive /\ task'[r] = "cancelling"),
         inbox' = inbox \/ \E method \in Method : Asked(method) /\ inbox' = Tail(inbox),
         \/ wire' = wire
         \/ \E f \in Frame : f.type = "res" /\ FrameOK(f)' /\ wire' = Append(wire, f),
         \A c \in waiting' : Asks(c, "run.cancel"),
         \A c \in turns' : Asks(c, "chat.send")
  PROVE  Protocol'
<1>0. /\ TypeOK /\ SentInv /\ ClosedInv /\ BusyInv /\ PendingInv /\ InboxInv
      /\ AliveInv /\ FrameInv /\ OrderInv /\ MicroInv
  BY DEF IInv, Protocol
<1>1. \A r \in Id : /\ task[r] = "none" <=> task'[r] = "none"
                    /\ task[r] = "done" <=> task'[r] = "done"
                    /\ r \in Alive' => r \in Alive
  BY <1>0 DEF Alive, TypeOK
<1>2. /\ \A c \in DOMAIN sent : /\ c \in Id
                                /\ sent[c].method = "run.cancel" => sent[c].run \in Id
      /\ \A i \in DOMAIN wire : wire[i].type \in {"res", "end"} /\ wire[i].id \in Id
      /\ DOMAIN sent = 1 .. Len(sent)
  BY <1>0, Elements
<1>3. \A i \in DOMAIN inbox' : \E k \in DOMAIN inbox : inbox'[i] = inbox[k]
  <2>1. CASE \E method \in Method : Asked(method) /\ inbox' = Tail(inbox)
    BY <2>1, ReadNext
  <2> QED BY <2>1
\* What is on the wire was there before, or is the answer sent.
<1>4. \A i \in DOMAIN wire' : \/ i \in DOMAIN wire /\ wire'[i] = wire[i]
                              \/ /\ wire'[i].type = "res" /\ FrameOK(wire[i])'
                                 /\ \A j \in DOMAIN wire : j < i
                                 /\ \A j \in DOMAIN wire' : ~ (i < j)
  <2>1. ASSUME NEW f \in Frame, f.type = "res", FrameOK(f)', wire' = Append(wire, f),
               NEW i \in DOMAIN wire'
        PROVE  \/ i \in DOMAIN wire /\ wire'[i] = wire[i]
               \/ /\ wire'[i].type = "res" /\ FrameOK(wire[i])'
                  /\ \A j \in DOMAIN wire : j < i
                  /\ \A j \in DOMAIN wire' : ~ (i < j)
    <3>1. GrownBy(wire', wire, f)
      BY <1>0, <2>1, AppendGrows DEF TypeOK
    <3>2. PICK n \in Nat :
            /\ DOMAIN wire' = DOMAIN wire \cup {n} /\ wire'[n] = f
            /\ \A j \in DOMAIN wire : wire'[j] = wire[j] /\ j \in Nat /\ j < n /\ j # n
      BY <3>1 DEF GrownBy
    <3>3. CASE i = n
      <4>1. wire'[i] = f
        BY <3>2, <3>3
      <4>2. FrameOK(wire[i])'
        BY <2>1, <4>1 DEF FrameOK, RunningOf
      <4>3. \A j \in DOMAIN wire' : ~ (i < j)
        BY <3>2, <3>3
      <4> QED BY <2>1, <3>2, <3>3, <4>1, <4>2, <4>3
    <3> QED BY <3>2, <3>3
  <2> QED BY <2>1
<1>5. \A i \in DOMAIN wire : i \in DOMAIN wire' /\ wire'[i] = wire[i] /\ i \in Nat
  <2>1. ASSUME NEW f \in Frame, wire' = Append(wire, f)
        PROVE  \A i \in DOMAIN wire : i \in DOMAIN wire' /\ wire'[i] = wire[i] /\ i \in Nat
    BY <1>0, <2>1, AppendGrows DEF TypeOK, GrownBy
  <2>2. \A i \in DOMAIN wire : i \in Nat
    BY <1>0 DEF TypeOK
  <2> QED BY <2>1, <2>2
<1>6. SentInv'
  BY <1>0, <1>1, <1>2 DEF SentInv, Asks
<1>7. ClosedInv'
  BY DEF ClosedInv
<1>8. BusyInv'
  BY <1>0, <1>1, <1>2, <1>5 DEF BusyInv, Asks, IsEnd
<1>9. PendingInv'
  <2> SUFFICES ASSUME NEW id \in pending, sent[id].method = "run.note", task'[id] # "none"
               PROVE  AnsweredFirst(wire', id)
    BY <1>0 DEF PendingInv, Awaiting, RunningOf
  <2>1. AnsweredFirst(wire, id)
    BY <1>0, <1>1, <1>2 DEF PendingInv, TypeOK
  <2>2. ASSUME NEW f \in Frame, wire' = Append(wire, f) PROVE AnsweredFirst(wire', id)
    BY <1>0, <2>1, <2>2, AppendGrows, AnsweredStays DEF TypeOK
  <2> QED BY <2>1, <2>2
<1>10. InboxInv'
  <2>1. CASE inbox' = inbox
    BY <1>0, <1>1, <1>2, <2>1 DEF InboxInv
  <2>2. CASE \E method \in Method : Asked(method) /\ inbox' = Tail(inbox)
    BY <1>1, <2>2, InboxRead
  <2> QED BY <2>1, <2>2
<1>11. AliveInv'
  BY <1>0, <1>1 DEF AliveInv, Alive, RunningOf
<1>12. FrameInv'
  <2>1. ASSUME NEW i \in DOMAIN wire PROVE FrameOK(wire[i])'
    <3>1. PICK f : f = wire[i]
      OBVIOUS
    <3>2. FrameOK(f) /\ f.id \in Id /\ wire'[i] = f
      BY <1>0, <1>2, <1>5, <3>1 DEF FrameInv
    <3>3. FrameOK(f)'
      BY <1>1, <1>2, <1>3, <3>2 DEF FrameOK, RunningOf
    <3> QED BY <3>2, <3>3 DEF FrameOK, RunningOf
  <2> QED BY <1>4, <2>1 DEF FrameInv
<1>13. OrderInv'
  <2> SUFFICES ASSUME NEW i \in DOMAIN wire', NEW j \in DOMAIN wire', i < j
               PROVE  ~ Clash(wire[i], wire[j])'
    BY DEF OrderInv
  <2>1. i \in DOMAIN wire /\ wire'[i] = wire[i]
    BY <1>4
  <2>2. CASE wire'[j].type = "res"
    BY <2>2 DEF Clash
  <2>3. CASE j \in DOMAIN wire /\ wire'[j] = wire[j]
    BY <1>0, <2>1, <2>3 DEF OrderInv, Clash
  <2> QED BY <1>4, <2>2, <2>3
<1>14. MicroInv'
  <2>1. ASSUME NEW i \in DOMAIN micro PROVE MicroOK(micro[i])'
    <3>1. MicroOK(micro[i])
      BY <1>0 DEF MicroInv
    <3>2. micro[i].id \in Id
      BY <1>2, <3>1 DEF MicroOK
    <3> QED BY <1>1, <1>2, <1>4, <3>1, <3>2 DEF MicroOK, Awaiting, RunningOf, IsEnd
  <2> QED BY <1>0, <2>1 DEF MicroInv
<1> QED BY <1>6, <1>7, <1>8, <1>9, <1>10, <1>11, <1>12, <1>13, <1>14 DEF Protocol

\* An answer is a response frame.
LEMMA AnswerOK ==
  ASSUME NEW id \in Id, NEW ok \in BOOLEAN
  PROVE  Answer(id, ok) \in Frame /\ Answer(id, ok).type = "res"
BY FrameTypes DEF Answer

LEMMA RefuseNoteStep ==
  ASSUME IInv, RefuseNote
  PROVE  Protocol'
<1>0. TypeOK /\ SentInv /\ InboxInv
  BY DEF IInv, Protocol
<1>i. PICK id : id = Head(inbox)
  OBVIOUS
<1>1. /\ sent' = sent /\ busy' = busy /\ pending' = pending /\ micro' = micro
      /\ closed' = closed /\ task' = task /\ waiting' = waiting /\ turns' = turns
      /\ inbox' = Tail(inbox) /\ Asked("run.note")
      /\ wire' = Append(wire, Answer(id, FALSE))
  BY <1>i DEF RefuseNote, tuiVars, backendVars
<1>2. /\ ~closed /\ sent[id].method = "run.note" /\ id = inbox[1] /\ 1 \in DOMAIN inbox
      /\ id \in 1 .. Len(sent) /\ id \in Id
      /\ \A i \in DOMAIN inbox' : inbox'[i] # id
  BY <1>1, <1>i, ReadNext
<1>3. task[id] = "none"
  BY <1>0, <1>2 DEF InboxInv
<1>4. PICK f \in Frame : f = Answer(id, FALSE) /\ f.type = "res" /\ FrameOK(f)'
  <2>1. PICK f \in Frame : f = Answer(id, FALSE) /\ f.type = "res" /\ f.id = id /\ f.ok = FALSE
    BY <1>2, AnswerOK DEF Answer
  <2>2. FrameOK(f)'
    BY <1>1, <1>2, <1>3, <2>1 DEF FrameOK
  <2> QED BY <2>1, <2>2
<1>5. \E method \in Method : Asked(method) /\ inbox' = Tail(inbox)
  BY <1>1 DEF Method
<1>6. (\A c \in waiting' : Asks(c, "run.cancel")) /\ (\A c \in turns' : Asks(c, "chat.send"))
  BY <1>0, <1>1 DEF SentInv
<1> QED BY <1>1, <1>2, <1>4, <1>5, <1>6, BackendKeeps

LEMMA HandleCancelStep ==
  ASSUME IInv, HandleCancel
  PROVE  Protocol'
<1>0. TypeOK /\ SentInv /\ InboxInv
  BY DEF IInv, Protocol
<1>i. PICK id : id = Head(inbox)
  OBVIOUS
<1>r. PICK run : run = sent[id].run
  OBVIOUS
<1>1. /\ sent' = sent /\ busy' = busy /\ pending' = pending /\ micro' = micro
      /\ closed' = closed /\ turns' = turns
      /\ inbox' = Tail(inbox) /\ Asked("run.cancel")
      /\ IF run \in Alive
         THEN /\ task' = [task EXCEPT ![run] = "cancelling"]
              /\ waiting' = waiting \cup {id} /\ wire' = wire
         ELSE wire' = Append(wire, Answer(id, TRUE)) /\ task' = task /\ waiting' = waiting
  BY <1>i, <1>r DEF HandleCancel, tuiVars
<1>2. ~closed /\ sent[id].method = "run.cancel" /\ id \in 1 .. Len(sent) /\ id \in Id
  BY <1>1, <1>i, ReadNext
<1>3. run \in Id /\ task[run] # "none"
  BY <1>0, <1>2, <1>r, Elements DEF SentInv
<1>4. \A r \in Id : task'[r] = task[r] \/ (r \in Alive /\ task'[r] = "cancelling")
  BY <1>0, <1>1, <1>3 DEF TypeOK
<1>5. \E method \in Method : Asked(method) /\ inbox' = Tail(inbox)
  BY <1>1 DEF Method
<1>6. (\A c \in waiting' : Asks(c, "run.cancel")) /\ (\A c \in turns' : Asks(c, "chat.send"))
  BY <1>0, <1>1, <1>2 DEF SentInv, Asks
<1>7. \/ wire' = wire
      \/ \E f \in Frame : f.type = "res" /\ FrameOK(f)' /\ wire' = Append(wire, f)
  <2>1. CASE run \in Alive
    BY <1>1, <2>1
  <2>2. CASE run \notin Alive
    <3>1. PICK f \in Frame : f = Answer(id, TRUE) /\ f.type = "res" /\ f.id = id /\ f.ok
      BY <1>2, AnswerOK DEF Answer
    <3>2. task[run] = "done"
      BY <1>0, <1>3, <2>2 DEF Alive, TypeOK
    <3>3. FrameOK(f)'
      BY <1>1, <1>2, <1>r, <2>2, <3>1, <3>2 DEF FrameOK
    <3> QED BY <1>1, <2>2, <3>1, <3>3
  <2> QED BY <2>1, <2>2
<1> QED BY <1>1, <1>2, <1>4, <1>5, <1>6, <1>7, BackendKeeps

LEMMA AnswerCancelStep ==
  ASSUME IInv, NEW id \in Id, AnswerCancel(id)
  PROVE  Protocol'
<1>0. TypeOK /\ SentInv
  BY DEF IInv, Protocol
<1>r. PICK run : run = sent[id].run
  OBVIOUS
<1>1. /\ sent' = sent /\ busy' = busy /\ pending' = pending /\ micro' = micro
      /\ closed' = closed /\ turns' = turns /\ inbox' = inbox /\ task' = task
      /\ ~closed /\ id \in waiting /\ run \notin Alive /\ waiting' = waiting \ {id}
      /\ wire' = Append(wire, Answer(id, TRUE))
  BY <1>r DEF AnswerCancel, tuiVars
<1>2. id \in 1 .. Len(sent) /\ sent[id].method = "run.cancel"
  BY <1>0, <1>1 DEF SentInv, Asks
<1>3. run \in Id /\ task[run] = "done"
  BY <1>0, <1>1, <1>2, <1>r, Elements DEF SentInv, Alive, TypeOK
<1>4. PICK f \in Frame : f = Answer(id, TRUE) /\ f.type = "res" /\ f.id = id /\ f.ok
  BY AnswerOK DEF Answer
<1>5. FrameOK(f)'
  BY <1>1, <1>2, <1>r, <1>3, <1>4 DEF FrameOK
<1>6. (\A c \in waiting' : Asks(c, "run.cancel")) /\ (\A c \in turns' : Asks(c, "chat.send"))
  BY <1>0, <1>1 DEF SentInv
<1> QED BY <1>1, <1>4, <1>5, <1>6, BackendKeeps

LEMMA BeginTurnStep ==
  ASSUME IInv, BeginTurn
  PROVE  Protocol'
<1>0. TypeOK /\ SentInv
  BY DEF IInv, Protocol
<1>i. PICK id : id = Head(inbox)
  OBVIOUS
<1>1. /\ sent' = sent /\ busy' = busy /\ pending' = pending /\ micro' = micro
      /\ closed' = closed /\ waiting' = waiting /\ wire' = wire /\ task' = task
      /\ inbox' = Tail(inbox) /\ Asked("chat.send") /\ turns' = turns \cup {id}
  BY <1>i DEF BeginTurn, tuiVars
<1>2. ~closed /\ sent[id].method = "chat.send" /\ id \in 1 .. Len(sent)
  BY <1>1, <1>i, ReadNext
<1>3. (\A c \in waiting' : Asks(c, "run.cancel")) /\ (\A c \in turns' : Asks(c, "chat.send"))
  BY <1>0, <1>1, <1>2 DEF SentInv, Asks
<1>4. \E method \in Method : Asked(method) /\ inbox' = Tail(inbox)
  BY <1>1 DEF Method
<1> QED BY <1>1, <1>2, <1>3, <1>4, BackendKeeps

LEMMA EndTurnStep ==
  ASSUME IInv, NEW id \in Id, NEW ok \in BOOLEAN, EndTurn(id, ok)
  PROVE  Protocol'
<1>0. TypeOK /\ SentInv
  BY DEF IInv, Protocol
<1>1. /\ sent' = sent /\ busy' = busy /\ pending' = pending /\ micro' = micro
      /\ closed' = closed /\ waiting' = waiting /\ inbox' = inbox /\ task' = task
      /\ ~closed /\ id \in turns /\ turns' = turns \ {id}
      /\ wire' = Append(wire, Answer(id, ok))
  BY DEF EndTurn, tuiVars
<1>2. id \in 1 .. Len(sent) /\ sent[id].method = "chat.send"
  BY <1>0, <1>1 DEF SentInv, Asks
<1>3. PICK f \in Frame : f = Answer(id, ok) /\ f.type = "res" /\ f.id = id
  BY AnswerOK DEF Answer
<1>4. FrameOK(f)'
  BY <1>1, <1>2, <1>3 DEF FrameOK
<1>5. (\A c \in waiting' : Asks(c, "run.cancel")) /\ (\A c \in turns' : Asks(c, "chat.send"))
  BY <1>0, <1>1 DEF SentInv
<1> QED BY <1>1, <1>3, <1>4, <1>5, BackendKeeps
-----------------------------------------------------------------------------
(* The interface's steps.                                                  *)

\* A request is issued: by the free prompt, which it makes busy, or to cancel the
\* run the prompt is busy with.
LEMMA IssueKeeps ==
  ASSUME IInv, AtPrompt, NEW method \in Method, NEW run, Issue(method, run),
         IF method = "run.cancel"
         THEN busy.kind = "run" /\ busy.runId # NotKnown /\ run = busy.runId /\ busy' = busy
         ELSE /\ busy.kind = "none"
              /\ busy' = [kind |-> IF method = "run.note" THEN "run" ELSE "chat",
                          runId |-> NotKnown, op |-> NextId]
  PROVE  Protocol'
<1>0. /\ TypeOK /\ SentInv /\ ClosedInv /\ BusyInv /\ PendingInv /\ InboxInv
      /\ AliveInv /\ FrameInv /\ OrderInv /\ MicroInv
  BY DEF IInv, Protocol
<1>n. PICK n : n = NextId
  OBVIOUS
<1>1. /\ micro = <<>> /\ ~closed /\ n \in Id
      /\ micro' = <<>> /\ ~closed' /\ wire' = wire /\ task' = task
      /\ waiting' = waiting /\ turns' = turns /\ pending' = pending \cup {n}
  BY <1>n DEF AtPrompt, Issue, backendVars
<1>2. /\ \A c \in DOMAIN sent : /\ c \in Id
                                /\ sent[c].method = "run.cancel" => sent[c].run \in Id
      /\ \A i \in DOMAIN wire : wire[i].type \in {"res", "end"} /\ wire[i].id \in Id
      /\ \A i \in DOMAIN inbox : inbox[i] \in Id
      /\ DOMAIN sent = 1 .. Len(sent) /\ Len(sent) \in Nat
  BY <1>0, Elements
<1>3. /\ n = Len(sent) + 1 /\ n \notin DOMAIN sent
      /\ Len(sent') = n /\ DOMAIN sent' = DOMAIN sent \cup {n} /\ DOMAIN sent' = 1 .. Len(sent')
      /\ sent'[n].method = method /\ sent'[n].run = run
      /\ \A c \in DOMAIN sent : sent'[c] = sent[c] /\ c \in Nat /\ c < n /\ c # n
  <2>1. PICK q : q = [method |-> method, run |-> run]
    OBVIOUS
  <2>2. sent' = Append(sent, q) /\ q.method = method /\ q.run = run
    BY <2>1 DEF Issue
  <2>3. /\ Len(sent') = Len(sent) + 1 /\ DOMAIN sent' = 1 .. Len(sent) + 1
        /\ sent'[Len(sent) + 1] = q
        /\ \A c \in 1 .. Len(sent) : sent'[c] = sent[c]
    <3>1. sent \in Seq({sent[c] : c \in DOMAIN sent} \cup {q})
      BY <1>0 DEF TypeOK
    <3> QED BY <2>2, <3>1
  <2> QED BY <1>2, <1>n, <2>2, <2>3 DEF NextId
<1>4. GrownBy(inbox', inbox, n)
  BY <1>0, <1>1, <1>n, AppendGrows DEF TypeOK, Issue
<1>5. PICK k \in Nat :
        /\ DOMAIN inbox' = DOMAIN inbox \cup {k} /\ inbox'[k] = n
        /\ \A i \in DOMAIN inbox : inbox'[i] = inbox[i] /\ i \in Nat /\ i < k /\ i # k
  BY <1>4 DEF GrownBy
<1>6. task[n] = "none"
  BY <1>0, <1>1, <1>2, <1>3 DEF SentInv, Asks
<1>7. ASSUME method # "run.cancel"
      PROVE  /\ busy.kind = "none" /\ busy'.runId = NotKnown /\ busy'.op = n
             /\ busy'.kind = IF method = "run.note" THEN "run" ELSE "chat"
  BY <1>7, <1>n
<1>8. \A r : RunningOf(r) => method = "run.cancel" /\ busy' = busy
  BY DEF RunningOf
<1>9. SentInv'
  <2>1. method = "run.cancel" => task[run] # "none"
    BY <1>0 DEF BusyInv
  <2> QED BY <1>0, <1>1, <1>2, <1>3, <2>1 DEF SentInv, Asks
<1>10. ClosedInv'
  BY <1>1 DEF ClosedInv
<1>11. BusyInv'
  <2>1. CASE method = "run.cancel"
    BY <1>0, <1>1, <1>2, <1>3, <2>1 DEF BusyInv, Asks
  <2>2. CASE method # "run.cancel"
    <3>1. \A q \in n + 1 .. n : FALSE
      BY <1>2, <1>3
    <3> QED BY <1>1, <1>2, <1>3, <1>6, <1>7, <2>2, <3>1 DEF BusyInv, Asks, Method
  <2> QED BY <2>1, <2>2
<1>12. PendingInv'
  <2> SUFFICES ASSUME NEW id \in pending', sent'[id].method = "run.note"
               PROVE  Awaiting(id)' /\ (task'[id] # "none" => AnsweredFirst(wire', id))
    BY DEF PendingInv
  <2>1. CASE id \in pending
    <3>1. id \in DOMAIN sent
      BY <1>0, <1>2, <2>1 DEF TypeOK
    <3> QED BY <1>0, <1>1, <1>3, <1>8, <2>1, <3>1 DEF PendingInv, Awaiting, RunningOf
  <2>2. CASE id = n
    BY <1>1, <1>3, <1>6, <1>7, <2>2 DEF Awaiting, RunningOf
  <2> QED BY <1>1, <2>1, <2>2
<1>13. InboxInv'
  BY <1>0, <1>1, <1>2, <1>3, <1>5, <1>6 DEF InboxInv
<1>14. AliveInv'
  BY <1>0, <1>1, <1>8 DEF AliveInv, Alive, RunningOf
<1>15. FrameInv'
  <2>1. ASSUME NEW i \in DOMAIN wire PROVE FrameOK(wire[i])'
    <3>1. PICK f : f = wire[i]
      OBVIOUS
    <3>2. FrameOK(f) /\ f.id \in Id /\ wire'[i] = f
      BY <1>0, <1>1, <1>2, <3>1 DEF FrameInv
    <3>3. FrameOK(f)'
      BY <1>1, <1>2, <1>3, <1>5, <1>8, <3>2 DEF FrameOK, RunningOf
    <3> QED BY <3>2, <3>3 DEF FrameOK, RunningOf
  <2> QED BY <1>1, <2>1 DEF FrameInv
<1>16. OrderInv'
  BY <1>0, <1>1, <1>2, <1>3 DEF OrderInv, Clash, FrameInv, FrameOK
<1>17. MicroInv'
  BY <1>1 DEF MicroInv
<1> QED BY <1>9, <1>10, <1>11, <1>12, <1>13, <1>14, <1>15, <1>16, <1>17 DEF Protocol

LEMMA PromptSteps ==
  ASSUME IInv, StartRun \/ CancelRun \/ SendChat
  PROVE  Protocol'
<1>1. CASE StartRun
  <2>1. /\ AtPrompt /\ Issue("run.note", NotKnown) /\ busy.kind = "none"
        /\ busy' = [kind |-> "run", runId |-> NotKnown, op |-> NextId]
    BY <1>1 DEF StartRun
  <2> QED BY <2>1, IssueKeeps DEF Method
<1>2. CASE CancelRun
  <2>1. /\ AtPrompt /\ Issue("run.cancel", busy.runId) /\ busy.kind = "run"
        /\ busy.runId # NotKnown /\ busy' = busy
    BY <1>2 DEF CancelRun
  <2> QED BY <2>1, IssueKeeps DEF Method
<1>3. CASE SendChat
  <2>1. /\ AtPrompt /\ Issue("chat.send", NotKnown) /\ busy.kind = "none"
        /\ busy' = [kind |-> "chat", runId |-> NotKnown, op |-> NextId]
    BY <1>3 DEF SendChat
  <2> QED BY <2>1, IssueKeeps DEF Method
<1> QED BY <1>1, <1>2, <1>3

\* What is left of the wire when its first frame is read was on it, in that order.
LEMMA WireRead ==
  ASSUME IInv, wire # <<>>, wire' = Tail(wire)
  PROVE  /\ ShrunkTo(wire', wire) /\ Head(wire) = wire[1] /\ 1 \in DOMAIN wire
         /\ FrameOK(wire[1]) /\ wire[1].id \in Id
         /\ \A i \in DOMAIN wire : wire[i].type \in {"res", "end"} /\ wire[i].id \in Id
         /\ \A i \in DOMAIN wire' :
              /\ i \in Nat /\ 1 < i + 1 /\ i + 1 \in DOMAIN wire
              /\ wire'[i] = wire[i + 1]
              /\ FrameOK(wire'[i]) /\ ~ Clash(wire[1], wire'[i])
         /\ \A i, j \in DOMAIN wire' : i < j => ~ Clash(wire'[i], wire'[j])
<1>0. TypeOK /\ FrameInv /\ OrderInv
  BY DEF IInv, Protocol
<1>1. wire \in Seq(Frame)
  BY <1>0 DEF TypeOK
<1>2. ShrunkTo(wire', wire)
  BY <1>1, TailShrinks
<1>3. /\ Head(wire) = wire[1] /\ 1 \in DOMAIN wire
      /\ \A i \in DOMAIN wire' :
           i \in Nat /\ 1 < i + 1 /\ i + 1 \in DOMAIN wire /\ wire'[i] = wire[i + 1]
  BY <1>2 DEF ShrunkTo
<1>4. \A i, j \in DOMAIN wire' : i < j => i + 1 < j + 1
  BY <1>3
<1>5. \A i \in DOMAIN wire' : FrameOK(wire'[i]) /\ ~ Clash(wire[1], wire'[i])
  BY <1>0, <1>3 DEF FrameInv, OrderInv
<1>6. \A i, j \in DOMAIN wire' : i < j => ~ Clash(wire'[i], wire'[j])
  BY <1>0, <1>3, <1>4 DEF OrderInv
<1> QED BY <1>0, <1>2, <1>3, <1>5, <1>6, Elements DEF FrameInv

LEMMA ReceiveResponseStep ==
  ASSUME IInv, ReceiveResponse
  PROVE  Protocol'
<1>0. /\ TypeOK /\ SentInv /\ ClosedInv /\ BusyInv /\ PendingInv /\ InboxInv
      /\ AliveInv /\ FrameInv /\ OrderInv /\ MicroInv
  BY DEF IInv, Protocol
<1>f. PICK f : f = Head(wire)
  OBVIOUS
<1>i. PICK id : id = f.id
  OBVIOUS
<1>1. /\ wire # <<>> /\ wire' = Tail(wire) /\ f.type = "res"
      /\ sent' = sent /\ busy' = busy /\ closed' = closed /\ inbox' = inbox
      /\ task' = task /\ waiting' = waiting /\ turns' = turns
      /\ pending' = pending \ {id}
      /\ micro' = IF id \in pending THEN Append(micro, [id |-> id, ok |-> f.ok]) ELSE micro
  BY <1>f, <1>i DEF ReceiveResponse, backendVars
<1>2. /\ ShrunkTo(wire', wire) /\ f = wire[1] /\ FrameOK(f) /\ id \in Id
      /\ \A i \in DOMAIN wire' :
           /\ i \in Nat /\ i + 1 \in DOMAIN wire /\ wire'[i] = wire[i + 1]
           /\ FrameOK(wire'[i]) /\ ~ Clash(f, wire'[i])
      /\ \A i, j \in DOMAIN wire' : i < j => ~ Clash(wire'[i], wire'[j])
  BY <1>1, <1>f, <1>i, WireRead
<1>3. /\ f.ok \in BOOLEAN /\ id \in DOMAIN sent
      /\ sent[id].method = "run.note" =>
           /\ f.ok => task[id] # "none"
           /\ ~f.ok => task[id] = "none" /\ \A j \in DOMAIN inbox : inbox[j] # id
      /\ sent[id].method = "run.cancel" => task[sent[id].run] = "done"
  BY <1>0, <1>1, <1>2, <1>i, Elements DEF FrameOK, ShrunkTo
<1>4. /\ \A c \in DOMAIN sent : /\ c \in Id
                                /\ sent[c].method = "run.cancel" => sent[c].run \in Id
      /\ \A i \in DOMAIN wire : wire[i].type \in {"res", "end"} /\ wire[i].id \in Id
      /\ DOMAIN sent = 1 .. Len(sent)
  BY <1>0, Elements
\* What was settled before, and the promise settled now.
<1>5. /\ \A i \in DOMAIN micro : i \in DOMAIN micro' /\ micro'[i] = micro[i]
      /\ \A i \in DOMAIN micro' :
           \/ i \in DOMAIN micro /\ micro'[i] = micro[i]
           \/ /\ id \in pending /\ micro'[i].id = id /\ micro'[i].ok = f.ok
              /\ \A j \in DOMAIN micro' : j \in DOMAIN micro \/ j = i
      /\ id \in pending => \E i \in DOMAIN micro' : micro'[i].id = id
  <2>1. CASE id \notin pending
    BY <1>1, <2>1
  <2>2. CASE id \in pending
    <3>1. PICK m \in Response : m = [id |-> id, ok |-> f.ok] /\ m.id = id /\ m.ok = f.ok
      BY <1>2, <1>3, FrameTypes
    <3>2. GrownBy(micro', micro, m)
      BY <1>0, <1>1, <2>2, <3>1, AppendGrows DEF TypeOK
    <3> QED BY <2>2, <3>1, <3>2 DEF GrownBy
  <2> QED BY <2>1, <2>2
<1>6. SentInv'
  BY <1>0, <1>1 DEF SentInv, Asks
<1>7. ClosedInv'
  BY <1>0, <1>1 DEF ClosedInv, Alive
<1>8. BusyInv'
  <2>1. ASSUME NEW i \in DOMAIN wire, NEW run, IsEnd(wire[i], run)
        PROVE  \E j \in DOMAIN wire' : IsEnd(wire'[j], run)
    <3>1. i # 1
      BY <1>1, <1>2, <2>1 DEF IsEnd
    <3> QED BY <1>2, <2>1, <3>1 DEF ShrunkTo, IsEnd
  <2>2. busy.kind = "run" /\ task[busy.op] = "done" =>
          \E j \in DOMAIN wire' : IsEnd(wire'[j], busy.op)
    BY <1>0, <2>1 DEF BusyInv
  <2>3. busy.kind = "run" /\ busy.runId = NotKnown =>
          busy.op \in pending' \/ \E i \in DOMAIN micro' : micro'[i].id = busy.op
    BY <1>0, <1>1, <1>5 DEF BusyInv
  <2> QED BY <1>0, <1>1, <2>2, <2>3 DEF BusyInv, Asks
<1>9. PendingInv'
  <2> SUFFICES ASSUME NEW p \in pending, p # id, sent[p].method = "run.note"
               PROVE  Awaiting(p) /\ (task[p] # "none" => AnsweredFirst(wire', p))
    BY <1>1 DEF PendingInv, Awaiting, RunningOf
  <2>1. ~ IsAnswer(wire[1], p)
    BY <1>2, <1>i DEF IsAnswer
  <2> QED BY <1>0, <1>2, <2>1, AnsweredNext DEF PendingInv
<1>10. InboxInv'
  BY <1>0, <1>1, <1>3 DEF InboxInv
<1>11. AliveInv'
  BY <1>0, <1>1 DEF AliveInv, Alive, RunningOf
<1>12. FrameInv'
  <2>1. ASSUME NEW i \in DOMAIN wire' PROVE FrameOK(wire[i])'
    <3>1. PICK g : g = wire'[i]
      OBVIOUS
    <3>2. FrameOK(g)
      BY <1>2, <3>1
    <3> QED BY <1>1, <3>1, <3>2 DEF FrameOK, RunningOf
  <2> QED BY <2>1 DEF FrameInv
<1>13. OrderInv'
  BY <1>1, <1>2 DEF OrderInv, Clash
<1>14. MicroInv'
  <2>1. ASSUME NEW i \in DOMAIN micro PROVE MicroOK(micro[i]) /\ micro[i].id \notin pending
    BY <1>0, <2>1 DEF MicroInv, MicroOK
  <2>2. ASSUME NEW m, MicroOK(m) PROVE MicroOK(m)'
    BY <1>1, <1>2, <2>2 DEF MicroOK, Awaiting, RunningOf, IsEnd
  <2>3. ASSUME NEW m, id \in pending, m.id = id, m.ok = f.ok PROVE MicroOK(m)'
    <3>1. sent[id].method = "run.note" => Awaiting(id)
      BY <1>0, <2>3 DEF PendingInv
    <3>2. ASSUME sent[id].method = "run.cancel", NEW j \in DOMAIN wire'
          PROVE  ~ IsEnd(wire'[j], sent[id].run)
      BY <1>1, <1>2, <1>i, <3>2 DEF Clash, IsEnd
    <3> QED BY <1>1, <1>3, <1>4, <2>3, <3>1, <3>2 DEF MicroOK, Awaiting, RunningOf, IsEnd
  <2>4. ASSUME NEW i \in DOMAIN micro' PROVE MicroOK(micro[i])'
    <3>1. PICK m : m = micro'[i]
      OBVIOUS
    <3>2. MicroOK(m)'
      BY <1>5, <2>1, <2>2, <2>3, <3>1
    <3> QED BY <3>1, <3>2 DEF MicroOK, Awaiting, RunningOf
  <2>5. ASSUME NEW i \in DOMAIN micro', NEW j \in DOMAIN micro', micro'[i].id = micro'[j].id
        PROVE  i = j
    BY <1>0, <1>5, <2>1, <2>5 DEF MicroInv
  <2> QED BY <2>4, <2>5 DEF MicroInv
<1> QED BY <1>6, <1>7, <1>8, <1>9, <1>10, <1>11, <1>12, <1>13, <1>14 DEF Protocol

LEMMA ReceiveEndStep ==
  ASSUME IInv, ReceiveEnd
  PROVE  Protocol'
<1>0. /\ TypeOK /\ SentInv /\ ClosedInv /\ BusyInv /\ PendingInv /\ InboxInv
      /\ AliveInv /\ FrameInv /\ OrderInv /\ MicroInv
  BY DEF IInv, Protocol
<1>f. PICK f : f = Head(wire)
  OBVIOUS
<1>r. PICK run : run = f.id
  OBVIOUS
<1>1. /\ wire # <<>> /\ wire' = Tail(wire) /\ f.type = "end"
      /\ sent' = sent /\ closed' = closed /\ inbox' = inbox /\ pending' = pending
      /\ task' = task /\ waiting' = waiting /\ turns' = turns /\ micro' = micro
      /\ busy' = IF Foreign(run) THEN busy ELSE Idle
  BY <1>f, <1>r DEF ReceiveEnd, backendVars
<1>2. /\ f = wire[1] /\ 1 \in DOMAIN wire /\ FrameOK(f) /\ run \in Id
      /\ \A i \in DOMAIN wire' :
           /\ i \in Nat /\ i + 1 \in DOMAIN wire /\ wire'[i] = wire[i + 1]
           /\ FrameOK(wire'[i]) /\ ~ Clash(f, wire'[i])
      /\ \A i, j \in DOMAIN wire' : i < j => ~ Clash(wire'[i], wire'[j])
  BY <1>1, <1>f, <1>r, WireRead
<1>3. task[run] = "done" /\ (closed \/ RunningOf(run))
  BY <1>1, <1>2, <1>r DEF FrameOK
\* An end that arrives after the exit finds the prompt free; before it, the prompt
\* is busy with the run that ended, and nothing else of that run is outstanding.
<1>4. CASE closed
  <2>1. busy = Idle /\ pending = {} /\ Alive = {}
    BY <1>0, <1>4 DEF ClosedInv
  <2>2. busy' = busy /\ busy.kind = "none"
    BY <1>1, <2>1 DEF Idle
  <2>3. SentInv' /\ ClosedInv' /\ BusyInv' /\ PendingInv' /\ InboxInv' /\ AliveInv'
    <3>1. SentInv' /\ ClosedInv'
      BY <1>0, <1>1, <2>1, <2>2 DEF SentInv, Asks, ClosedInv, Alive
    <3>2. BusyInv' /\ PendingInv' /\ InboxInv'
      BY <1>0, <1>1, <2>1, <2>2 DEF BusyInv, PendingInv, InboxInv, Idle
    <3>3. AliveInv'
      BY <1>1, <2>1 DEF AliveInv, Alive
    <3> QED BY <3>1, <3>2, <3>3
  <2>4. ASSUME NEW i \in DOMAIN wire' PROVE FrameOK(wire[i])'
    <3>1. PICK g : g = wire'[i]
      OBVIOUS
    <3>2. FrameOK(g)
      BY <1>2, <3>1
    <3> QED BY <1>1, <1>4, <3>1, <3>2 DEF FrameOK
  <2>5. OrderInv'
    BY <1>1, <1>2 DEF OrderInv, Clash
  <2>6. MicroInv'
    BY <1>0, <1>1, <1>2, <1>4 DEF MicroInv, MicroOK
  <2> QED BY <2>3, <2>4, <2>5, <2>6 DEF Protocol, FrameInv
<1>5. CASE ~closed
  <2>1. RunningOf(run)
    BY <1>3, <1>5
  <2>2. busy' = Idle /\ busy'.kind = "none"
    BY <1>0, <1>1, <2>1 DEF BusyInv, RunningOf, Foreign, Idle
  <2>3. ASSUME NEW p \in pending PROVE sent[p].method # "run.note"
    <3> SUFFICES ASSUME sent[p].method = "run.note" PROVE FALSE
      OBVIOUS
    <3>1. p = run /\ AnsweredFirst(wire, run)
      BY <1>0, <1>3, <2>1 DEF PendingInv, Awaiting, RunningOf
    <3>2. PICK i \in DOMAIN wire : \A j \in DOMAIN wire : IsEnd(wire[j], run) => i < j
      BY <3>1 DEF AnsweredFirst
    <3>3. i < 1 /\ i \in 1 .. Len(wire) /\ Len(wire) \in Nat
      BY <1>0, <1>1, <1>2, <1>r, <3>2 DEF IsEnd, TypeOK
    <3> QED BY <3>3
  <2>4. ASSUME NEW r \in Id PROVE r \notin Alive
    BY <1>0, <1>3, <2>1 DEF AliveInv, Alive, RunningOf
  <2>5. ASSUME NEW i \in DOMAIN wire' PROVE wire'[i].type # "end"
    <3> SUFFICES ASSUME wire'[i].type = "end" PROVE FALSE
      OBVIOUS
    <3>1. RunningOf(wire'[i].id)
      BY <1>2, <1>5 DEF FrameOK
    <3>2. wire'[i].id = f.id
      BY <1>r, <2>1, <3>1 DEF RunningOf
    <3> QED BY <1>1, <1>2, <3>2 DEF Clash
  <2>6. SentInv' /\ ClosedInv' /\ BusyInv'
    BY <1>0, <1>1, <1>5, <2>2 DEF SentInv, Asks, ClosedInv, BusyInv
  <2>7. PendingInv' /\ InboxInv'
    BY <1>0, <1>1, <2>3 DEF PendingInv, InboxInv
  <2>8. AliveInv'
    BY <1>1, <2>4 DEF AliveInv, Alive
  <2>9. FrameInv'
    <3>1. ASSUME NEW i \in DOMAIN wire' PROVE FrameOK(wire[i])'
      <4>1. PICK g : g = wire'[i]
        OBVIOUS
      <4>2. FrameOK(g) /\ g.type # "end"
        BY <1>2, <2>5, <4>1
      <4> QED BY <1>1, <4>1, <4>2 DEF FrameOK
    <3> QED BY <3>1 DEF FrameInv
  <2>10. OrderInv'
    BY <1>1, <1>2 DEF OrderInv, Clash
  <2>11. MicroInv'
    <3>1. ASSUME NEW i \in DOMAIN micro PROVE MicroOK(micro[i])'
      <4>1. PICK m : m = micro[i]
        OBVIOUS
      <4>2. MicroOK(m)
        BY <1>0, <4>1 DEF MicroInv
      <4>3. Awaiting(m.id) => m.id = run
        BY <2>1 DEF Awaiting, RunningOf
      <4>4. MicroOK(m)'
        BY <1>1, <1>2, <1>3, <2>2, <4>2, <4>3 DEF MicroOK, IsEnd
      <4> QED BY <1>1, <4>1, <4>4 DEF MicroOK, Awaiting, RunningOf
    <3> QED BY <1>0, <1>1, <3>1 DEF MicroInv
  <2> QED BY <2>6, <2>7, <2>8, <2>9, <2>10, <2>11 DEF Protocol
<1> QED BY <1>4, <1>5

\* The promise whose continuation runs, and the settled promises left.
LEMMA MicroRun ==
  ASSUME IInv, micro # <<>>, micro' = Tail(micro)
  PROVE  /\ ShrunkTo(micro', micro) /\ Head(micro) = micro[1] /\ 1 \in DOMAIN micro
         /\ MicroOK(micro[1]) /\ micro[1].id \in DOMAIN sent /\ micro[1].id \in Id
         /\ micro[1].ok \in BOOLEAN
         /\ \A i \in DOMAIN micro' : MicroOK(micro'[i]) /\ micro'[i].id # micro[1].id
         /\ \A i, j \in DOMAIN micro' : micro'[i].id = micro'[j].id => i = j
<1>0. TypeOK /\ MicroInv
  BY DEF IInv, Protocol
<1>1. ShrunkTo(micro', micro)
  BY <1>0, TailShrinks DEF TypeOK
<1>2. \A i \in DOMAIN micro' :
        i \in Nat /\ i > 0 /\ i + 1 \in DOMAIN micro /\ micro'[i] = micro[i + 1]
  BY <1>1 DEF ShrunkTo
<1>3. \A i \in DOMAIN micro' : MicroOK(micro'[i]) /\ micro'[i].id # micro[1].id
  <2> TAKE i \in DOMAIN micro'
  <2>1. i + 1 # 1
    BY <1>2
  <2> QED BY <1>0, <1>1, <1>2, <2>1 DEF MicroInv, ShrunkTo
<1>4. ASSUME NEW i \in DOMAIN micro', NEW j \in DOMAIN micro', micro'[i].id = micro'[j].id
      PROVE  i = j
  <2>1. i + 1 = j + 1
    BY <1>0, <1>2, <1>4 DEF MicroInv
  <2> QED BY <1>2, <2>1
<1>5. /\ 1 \in DOMAIN micro /\ Head(micro) = micro[1]
      /\ MicroOK(micro[1]) /\ micro[1].id \in DOMAIN sent
      /\ micro[1].id \in Id /\ micro[1].ok \in BOOLEAN
  BY <1>0, <1>1, Elements DEF ShrunkTo, MicroInv, MicroOK
<1> QED BY <1>1, <1>3, <1>4, <1>5

\* A continuation leaves the prompt as it is, frees it, or tells it the run's id.
LEMMA ContinueKeeps ==
  ASSUME IInv, micro # <<>>, micro' = Tail(micro),
         UNCHANGED <<sent, pending, closed, inbox, wire, backendVars>>,
         NEW id, id = Head(micro).id,
         \/ busy' = busy /\ ~ Awaiting(id)
         \/ /\ busy' = Idle /\ ~closed /\ Alive = {}
            /\ \A i \in DOMAIN wire : wire[i].type # "end"
            /\ \A p : Awaiting(p) => p = id
         \/ /\ busy' = [busy EXCEPT !.runId = id] /\ ~closed
            /\ Awaiting(id) /\ task[id] # "none"
  PROVE  Protocol'
<1>0. /\ TypeOK /\ SentInv /\ ClosedInv /\ BusyInv /\ PendingInv /\ InboxInv
      /\ AliveInv /\ FrameInv /\ OrderInv /\ MicroInv
  BY DEF IInv, Protocol
<1>1. /\ sent' = sent /\ pending' = pending /\ closed' = closed /\ inbox' = inbox
      /\ wire' = wire /\ task' = task /\ waiting' = waiting /\ turns' = turns
  BY DEF backendVars
<1>2. /\ ShrunkTo(micro', micro) /\ id = micro[1].id /\ id \in Id
      /\ id \in DOMAIN sent /\ id \notin pending
      /\ \A i \in DOMAIN micro' : MicroOK(micro'[i]) /\ micro'[i].id # id
      /\ \A i, j \in DOMAIN micro' : micro'[i].id = micro'[j].id => i = j
  BY MicroRun DEF MicroOK
<1>3. SentInv' /\ InboxInv' /\ OrderInv'
  BY <1>0, <1>1 DEF SentInv, Asks, InboxInv, OrderInv, Clash
<1>4. \A i \in DOMAIN wire : FrameOK(wire[i])
  BY <1>0 DEF FrameInv
<1>5. CASE busy' = busy /\ ~ Awaiting(id)
  <2>1. ClosedInv' /\ AliveInv' /\ PendingInv'
    BY <1>0, <1>1, <1>5 DEF ClosedInv, Alive, AliveInv, RunningOf, PendingInv, Awaiting
  <2>2. BusyInv'
    <3>1. ASSUME busy.kind = "run", busy.runId = NotKnown, busy.op \notin pending
          PROVE  \E i \in DOMAIN micro' : micro'[i].id = busy.op
      <4>1. PICK i \in DOMAIN micro : micro[i].id = busy.op
        BY <1>0, <3>1 DEF BusyInv
      <4>2. i # 1
        BY <1>2, <1>5, <3>1, <4>1 DEF Awaiting, RunningOf
      <4>3. i - 1 \in DOMAIN micro' /\ micro'[i - 1] = micro[i]
        BY <1>2, <4>2 DEF ShrunkTo
      <4> QED BY <4>1, <4>3
    <3> QED BY <1>0, <1>1, <1>5, <3>1 DEF BusyInv, Asks
  <2>3. FrameInv'
    BY <1>1, <1>4, <1>5 DEF FrameInv, FrameOK, RunningOf
  <2>4. MicroInv'
    BY <1>1, <1>2, <1>5 DEF MicroInv, MicroOK, Awaiting, RunningOf
  <2> QED BY <1>3, <2>1, <2>2, <2>3, <2>4 DEF Protocol
<1>6. CASE /\ busy' = Idle /\ ~closed /\ Alive = {}
           /\ \A i \in DOMAIN wire : wire[i].type # "end"
           /\ \A p : Awaiting(p) => p = id
  <2>1. ClosedInv' /\ AliveInv' /\ BusyInv'
    BY <1>1, <1>6 DEF ClosedInv, Alive, AliveInv, BusyInv, Idle
  <2>2. PendingInv'
    BY <1>0, <1>1, <1>2, <1>6 DEF PendingInv
  <2>3. FrameInv'
    <3>1. ASSUME NEW i \in DOMAIN wire PROVE FrameOK(wire[i])'
      <4>1. PICK g : g = wire[i]
        OBVIOUS
      <4>2. FrameOK(g) /\ g.type # "end"
        BY <1>4, <1>6, <4>1
      <4>3. FrameOK(g)'
        BY <1>1, <4>2 DEF FrameOK
      <4> QED BY <1>1, <4>1, <4>3 DEF FrameOK
    <3> QED BY <1>1, <3>1 DEF FrameInv
  <2>4. MicroInv'
    <3>1. ASSUME NEW i \in DOMAIN micro' PROVE MicroOK(micro[i])'
      <4>1. PICK m : m = micro'[i]
        OBVIOUS
      <4>2. MicroOK(m) /\ ~ Awaiting(m.id)
        BY <1>2, <1>6, <4>1
      <4>3. busy'.kind = "none"
        BY <1>6 DEF Idle
      <4>4. MicroOK(m)'
        BY <1>1, <1>6, <4>2, <4>3 DEF MicroOK
      <4> QED BY <4>1, <4>4 DEF MicroOK, Awaiting, RunningOf
    <3> QED BY <1>2, <3>1 DEF MicroInv
  <2> QED BY <1>3, <2>1, <2>2, <2>3, <2>4 DEF Protocol
<1>7. CASE /\ busy' = [busy EXCEPT !.runId = id] /\ ~closed
           /\ Awaiting(id) /\ task[id] # "none"
  <2>1. /\ busy.kind = "run" /\ busy.op = id
        /\ busy'.kind = "run" /\ busy'.op = id /\ busy'.runId = id /\ id # NotKnown
    <3>1. busy \in Busy
      BY <1>0 DEF TypeOK
    <3>2. busy'.kind = busy.kind /\ busy'.op = busy.op /\ busy'.runId = id
      BY <1>7, <3>1 DEF Busy
    <3> QED BY <1>2, <1>7, <3>2 DEF Awaiting, RunningOf, Id, NotKnown
  <2>2. ClosedInv' /\ AliveInv' /\ BusyInv'
    <3>1. ClosedInv'
      BY <1>1, <1>7 DEF ClosedInv
    <3>2. AliveInv'
      BY <1>0, <1>1, <2>1 DEF AliveInv, Alive, RunningOf
    <3>3. BusyInv'
      BY <1>0, <1>1, <1>7, <2>1 DEF BusyInv, Asks
    <3> QED BY <3>1, <3>2, <3>3
  <2>3. PendingInv'
    BY <1>0, <1>1, <1>2, <2>1 DEF PendingInv, Awaiting, RunningOf
  <2>4. FrameInv'
    <3>1. ASSUME NEW i \in DOMAIN wire PROVE FrameOK(wire[i])'
      <4>1. PICK g : g = wire[i]
        OBVIOUS
      <4>2. FrameOK(g)
        BY <1>4, <4>1
      <4>3. FrameOK(g)'
        BY <1>1, <2>1, <4>2 DEF FrameOK, RunningOf
      <4> QED BY <1>1, <4>1, <4>3 DEF FrameOK, RunningOf
    <3> QED BY <1>1, <3>1 DEF FrameInv
  <2>5. MicroInv'
    <3>1. ASSUME NEW i \in DOMAIN micro' PROVE MicroOK(micro[i])'
      <4>1. PICK m : m = micro'[i]
        OBVIOUS
      <4>2. MicroOK(m) /\ m.id # id
        BY <1>2, <4>1
      <4>3. ~ Awaiting(m.id) /\ busy.kind # "none"
        BY <2>1, <4>2 DEF Awaiting, RunningOf
      <4>4. MicroOK(m)'
        BY <1>1, <1>7, <4>2, <4>3 DEF MicroOK
      <4> QED BY <4>1, <4>4 DEF MicroOK, Awaiting, RunningOf
    <3> QED BY <1>2, <3>1 DEF MicroInv
  <2> QED BY <1>3, <2>2, <2>3, <2>4, <2>5 DEF Protocol
<1> QED BY <1>5, <1>6, <1>7

\* Which of the three a continuation does, and what was over when it frees the prompt.
LEMMA ContinueCases ==
  ASSUME IInv, Continue, NEW id, id = Head(micro).id
  PROVE  \/ busy' = busy /\ ~ Awaiting(id)
         \/ /\ busy' = Idle /\ ~closed /\ Alive = {}
            /\ \A i \in DOMAIN wire : wire[i].type # "end"
            /\ \A p : Awaiting(p) => p = id
            /\ busy.kind = "chat" => busy.op = id
         \/ /\ busy' = [busy EXCEPT !.runId = id] /\ ~closed
            /\ Awaiting(id) /\ task[id] # "none"
<1>0. TypeOK /\ ClosedInv /\ BusyInv /\ AliveInv /\ FrameInv
  BY DEF IInv, Protocol
<1>m. PICK m : m = Head(micro)
  OBVIOUS
<1>q. PICK method, run : method = sent[id].method /\ run = sent[id].run
  OBVIOUS
<1>1. /\ micro # <<>> /\ micro' = Tail(micro) /\ m.id = id
      /\ \/ method = "run.note" /\ AfterNote(id, m.ok)
         \/ method = "run.cancel" /\ AfterCancel(run, m.ok)
         \/ method = "chat.send" /\ AfterChat(id)
  BY <1>m, <1>q DEF Continue
<1>2. MicroOK(m) /\ id \in DOMAIN sent /\ id \in Id /\ m.ok \in BOOLEAN
  BY <1>1, <1>m, MicroRun
<1>3. /\ id \in 1 .. Len(sent) /\ id \notin pending
      /\ method = "run.note" /\ ~closed =>
           /\ m.ok => task[id] # "none" /\ (busy.kind = "none" \/ Awaiting(id))
           /\ ~m.ok => task[id] = "none" /\ Awaiting(id)
      /\ method = "run.cancel" /\ m.ok =>
           /\ task[run] = "done"
           /\ \A j \in DOMAIN wire : ~ IsEnd(wire[j], run)
  BY <1>1, <1>2, <1>q DEF MicroOK
\* A prompt that runs nothing that goes on hears of no end either.
<1>4. ASSUME NEW op, ~closed, busy.kind = "run" => busy.op = op,
             busy.kind = "run" => /\ task[op] \in {"none", "done"}
                                  /\ \A j \in DOMAIN wire : task[op] = "done" => ~ IsEnd(wire[j], op)
      PROVE  Alive = {} /\ \A i \in DOMAIN wire : wire[i].type # "end"
  <2>1. ASSUME NEW r \in Alive PROVE FALSE
    BY <1>0, <1>4, <2>1 DEF AliveInv, RunningOf, Alive
  <2>2. ASSUME NEW i \in DOMAIN wire, wire[i].type = "end" PROVE FALSE
    <3>1. RunningOf(wire[i].id) /\ task[wire[i].id] = "done"
      BY <1>0, <1>4, <2>2 DEF FrameInv, FrameOK
    <3> QED BY <1>4, <2>2, <3>1 DEF RunningOf, IsEnd
  <2> QED BY <2>1, <2>2
<1>5. CASE method = "run.note"
  <2>1. AfterNote(id, m.ok)
    BY <1>1, <1>5
  <2>2. CASE closed
    <3>1. busy = Idle /\ busy.kind = "none"
      BY <1>0, <2>2 DEF ClosedInv, Idle
    <3> QED BY <1>2, <2>1, <3>1 DEF AfterNote, Awaiting, RunningOf
  <2>3. CASE ~closed /\ ~m.ok
    <3>1. busy' = Idle /\ task[id] = "none" /\ Awaiting(id)
      BY <1>3, <1>5, <2>1, <2>3 DEF AfterNote
    <3>2. Alive = {} /\ \A i \in DOMAIN wire : wire[i].type # "end"
      BY <1>4, <2>3, <3>1 DEF Awaiting, RunningOf
    <3> QED BY <2>3, <3>1, <3>2 DEF Awaiting, RunningOf
  <2>4. CASE ~closed /\ m.ok /\ busy.kind = "none"
    BY <2>1, <2>4 DEF AfterNote, Awaiting, RunningOf
  <2>5. CASE ~closed /\ m.ok /\ busy.kind # "none"
    <3>1. task[id] # "none" /\ Awaiting(id)
      BY <1>3, <1>5, <2>5
    <3>2. busy' = [busy EXCEPT !.runId = id]
      BY <2>1, <2>5 DEF AfterNote
    <3> QED BY <2>5, <3>1, <3>2
  <2> QED BY <1>2, <2>2, <2>3, <2>4, <2>5
<1>6. ASSUME method # "run.note" PROVE ~ Awaiting(id)
  BY <1>0, <1>6, <1>q DEF BusyInv, Asks, Awaiting, RunningOf
<1>7. CASE method = "run.cancel"
  <2>1. AfterCancel(run, m.ok) /\ ~ Awaiting(id)
    BY <1>1, <1>6, <1>7
  <2>2. CASE m.ok /\ busy.runId = run
    <3>1. run \in Id /\ run # NotKnown
      BY <1>0, <1>2, <1>7, <1>q, Elements DEF Id, NotKnown
    <3>2. busy.kind = "run" /\ busy.op = run
      BY <1>0, <2>2, <3>1, Elements DEF BusyInv, Idle
    <3>3. ~closed
      BY <1>0, <3>2 DEF ClosedInv, Idle
    <3>4. Alive = {} /\ \A i \in DOMAIN wire : wire[i].type # "end"
      BY <1>3, <1>4, <1>7, <2>2, <3>2, <3>3
    <3>5. busy' = Idle /\ \A p : ~ Awaiting(p)
      BY <2>1, <2>2, <3>1 DEF AfterCancel, Awaiting
    <3> QED BY <3>2, <3>3, <3>4, <3>5
  <2>3. CASE ~ (m.ok /\ busy.runId = run)
    BY <2>1, <2>3 DEF AfterCancel
  <2> QED BY <2>2, <2>3
<1>8. CASE method = "chat.send"
  <2>1. AfterChat(id) /\ ~ Awaiting(id)
    BY <1>1, <1>6, <1>8
  <2>2. CASE busy.kind = "chat" /\ HoldsChatToken(id)
    <3>1. ~closed
      BY <1>0, <2>2 DEF ClosedInv, Idle
    <3>2. Alive = {} /\ \A i \in DOMAIN wire : wire[i].type # "end"
      BY <1>4, <2>2, <3>1
    <3>3. busy' = Idle /\ \A p : ~ Awaiting(p)
      BY <2>1, <2>2 DEF AfterChat, Awaiting, RunningOf
    <3>4. busy.op = id
      <4>1. /\ busy.op \in 1 .. Len(sent) /\ sent[busy.op].method = "chat.send"
            /\ \A q \in busy.op + 1 .. Len(sent) : sent[q].method # "chat.send"
        BY <1>0, <2>2 DEF BusyInv, Asks
      <4>2. ~ (busy.op < id) /\ ~ (id < busy.op)
        BY <1>0, <1>3, <1>8, <1>q, <2>2, <4>1, Elements DEF HoldsChatToken
      <4> QED BY <1>0, <1>3, <4>1, <4>2, Elements
    <3> QED BY <3>1, <3>2, <3>3, <3>4
  <2>3. CASE ~ (busy.kind = "chat" /\ HoldsChatToken(id))
    BY <2>1, <2>3 DEF AfterChat
  <2> QED BY <2>2, <2>3
<1> QED BY <1>1, <1>5, <1>7, <1>8

LEMMA ContinueStep ==
  ASSUME IInv, Continue
  PROVE  Protocol'
<1>1. PICK id : id = Head(micro).id
  OBVIOUS
<1>2. /\ micro # <<>> /\ micro' = Tail(micro)
      /\ UNCHANGED <<sent, pending, closed, inbox, wire, backendVars>>
  BY DEF Continue
<1>3. \/ busy' = busy /\ ~ Awaiting(id)
      \/ /\ busy' = Idle /\ ~closed /\ Alive = {}
         /\ \A i \in DOMAIN wire : wire[i].type # "end"
         /\ \A p : Awaiting(p) => p = id
      \/ /\ busy' = [busy EXCEPT !.runId = id] /\ ~closed
         /\ Awaiting(id) /\ task[id] # "none"
  BY <1>1, ContinueCases
<1> QED BY <1>1, <1>2, <1>3, ContinueKeeps

LEMMA TimeoutStep ==
  ASSUME IInv, NoteAnsweredInTime, NEW id \in Id, Timeout(id)
  PROVE  Protocol'
<1>0. /\ TypeOK /\ SentInv /\ ClosedInv /\ BusyInv /\ PendingInv /\ InboxInv
      /\ AliveInv /\ FrameInv /\ OrderInv /\ MicroInv
  BY DEF IInv, Protocol
<1>1. /\ sent' = sent /\ busy' = busy /\ closed' = closed /\ inbox' = inbox
      /\ wire' = wire /\ task' = task /\ waiting' = waiting /\ turns' = turns
      /\ micro = <<>> /\ id \in pending /\ pending' = pending \ {id}
      /\ sent[id].method # "run.note" /\ id \in 1 .. Len(sent)
  BY <1>0 DEF Timeout, NoteAnsweredInTime, backendVars, TypeOK
<1>2. DOMAIN micro' = {1} /\ micro'[1].id = id /\ micro'[1].ok = FALSE
  <2>1. PICK m \in Response : m = [id |-> id, ok |-> FALSE] /\ m.id = id /\ m.ok = FALSE
    BY FrameTypes
  <2>2. micro' = <<m>>
    BY <1>1, <2>1 DEF Timeout
  <2> QED BY <2>1, <2>2
<1>3. ~closed
  BY <1>0, <1>1 DEF ClosedInv
<1>4. SentInv' /\ ClosedInv' /\ AliveInv' /\ OrderInv'
  BY <1>0, <1>1, <1>3 DEF SentInv, Asks, ClosedInv, AliveInv, Alive, RunningOf, OrderInv, Clash
<1>5. BusyInv'
  <2>1. busy.kind = "run" /\ busy.runId = NotKnown => busy.op \in pending'
    BY <1>0, <1>1 DEF BusyInv, Asks
  <2> QED BY <1>0, <1>1, <2>1 DEF BusyInv, Asks
<1>6. PendingInv' /\ InboxInv'
  BY <1>0, <1>1 DEF PendingInv, InboxInv, Awaiting, RunningOf
<1>7. FrameInv'
  BY <1>0, <1>1 DEF FrameInv, FrameOK, RunningOf
<1>8. MicroInv'
  BY <1>1, <1>2 DEF MicroInv, MicroOK
<1> QED BY <1>4, <1>5, <1>6, <1>7, <1>8 DEF Protocol

LEMMA ExitStep ==
  ASSUME IInv, Exit
  PROVE  Protocol'
<1>0. /\ TypeOK /\ SentInv /\ ClosedInv /\ BusyInv /\ PendingInv /\ InboxInv
      /\ AliveInv /\ FrameInv /\ OrderInv /\ MicroInv
  BY DEF IInv, Protocol
<1>1. /\ sent' = sent /\ wire' = wire /\ closed' /\ busy' = Idle /\ pending' = {}
      /\ inbox' = <<>> /\ waiting' = {} /\ turns' = {} /\ micro' \in Rejected
  BY DEF Exit
<1>2. \A r \in Id : /\ task[r] = "none" <=> task'[r] = "none"
                    /\ task[r] = "done" => task'[r] = "done"
                    /\ task'[r] \in {"none", "done"}
  BY <1>0 DEF Exit, Alive, TypeOK
<1>3. /\ \A c \in DOMAIN sent : /\ c \in Id
                                /\ sent[c].method = "run.cancel" => sent[c].run \in Id
      /\ \A i \in DOMAIN wire : wire[i].type \in {"res", "end"} /\ wire[i].id \in Id
      /\ DOMAIN sent = 1 .. Len(sent)
  BY <1>0, Elements
<1>4. /\ \A i \in DOMAIN micro' : micro'[i].id \in 1 .. Len(sent) /\ micro'[i].ok = FALSE
      /\ \A i, j \in DOMAIN micro' : micro'[i].id = micro'[j].id => i = j
  BY <1>0, <1>1, RejectedType DEF TypeOK
<1>5. SentInv' /\ ClosedInv' /\ AliveInv' /\ OrderInv'
  BY <1>0, <1>1, <1>2, <1>3 DEF SentInv, Asks, ClosedInv, AliveInv, Alive, OrderInv, Clash
<1>6. BusyInv' /\ PendingInv' /\ InboxInv'
  BY <1>1 DEF BusyInv, PendingInv, InboxInv, Idle
<1>7. FrameInv'
  <2>1. ASSUME NEW i \in DOMAIN wire PROVE FrameOK(wire[i])'
    <3>1. PICK f : f = wire[i]
      OBVIOUS
    <3>2. FrameOK(f) /\ f.id \in Id
      BY <1>0, <1>3, <3>1 DEF FrameInv
    <3>3. FrameOK(f)'
      BY <1>1, <1>2, <1>3, <3>2 DEF FrameOK
    <3> QED BY <1>1, <3>1, <3>3 DEF FrameOK
  <2> QED BY <1>1, <2>1 DEF FrameInv
<1>8. MicroInv'
  BY <1>1, <1>4 DEF MicroInv, MicroOK
<1> QED BY <1>5, <1>6, <1>7, <1>8 DEF Protocol
-----------------------------------------------------------------------------
(* The theorems.                                                           *)

LEMMA InitIInv == Init => IInv
<1> SUFFICES ASSUME Init PROVE IInv
  OBVIOUS
<1>1. /\ sent = <<>> /\ busy = Idle /\ pending = {} /\ micro = <<>> /\ closed = FALSE
      /\ inbox = <<>> /\ wire = <<>> /\ waiting = {} /\ turns = {}
      /\ \A r \in Id : task[r] = "none"
  BY DEF Init
<1>2. TypeOK
  <2>1. Idle \in Busy
    BY DEF Idle, Busy, NotKnown
  <2>2. <<>> \in Seq(Request) /\ <<>> \in Seq(Response) /\ <<>> \in Seq(Id) /\ <<>> \in Seq(Frame)
    OBVIOUS
  <2>3. Len(<<>>) <= MaxRequests
    OBVIOUS
  <2>4. task \in [Id -> {"none", "running", "cancelling", "done"}]
    BY DEF Init
  <2> QED BY <1>1, <2>1, <2>2, <2>3, <2>4 DEF TypeOK
<1>3. SentInv /\ ClosedInv /\ AliveInv /\ PendingInv
  BY <1>1 DEF SentInv, ClosedInv, AliveInv, Alive, PendingInv
<1>4. BusyInv /\ InboxInv /\ FrameInv /\ OrderInv /\ MicroInv
  BY <1>1 DEF BusyInv, Idle, InboxInv, FrameInv, OrderInv, MicroInv
<1> QED BY <1>2, <1>3, <1>4 DEF IInv, Protocol

LEMMA Stutter ==
  ASSUME IInv, UNCHANGED vars
  PROVE  Protocol'
<1>1. /\ sent' = sent /\ busy' = busy /\ closed' = closed /\ inbox' = inbox
      /\ wire' = wire /\ task' = task /\ waiting' = waiting /\ turns' = turns
      /\ micro' = micro /\ pending' = pending
  BY DEF vars
<1>2. /\ SentInv /\ ClosedInv /\ BusyInv /\ PendingInv /\ InboxInv
      /\ AliveInv /\ FrameInv /\ OrderInv /\ MicroInv
  BY DEF IInv, Protocol
<1>3. SentInv' /\ ClosedInv' /\ BusyInv' /\ PendingInv'
  BY <1>1, <1>2 DEF SentInv, Asks, ClosedInv, Alive, BusyInv, PendingInv, Awaiting, RunningOf
<1>4. InboxInv' /\ AliveInv' /\ OrderInv'
  BY <1>1, <1>2 DEF InboxInv, AliveInv, Alive, RunningOf, OrderInv, Clash
<1>5. FrameInv' /\ MicroInv'
  BY <1>1, <1>2 DEF FrameInv, FrameOK, RunningOf, MicroInv, MicroOK, Awaiting
<1> QED BY <1>3, <1>4, <1>5 DEF Protocol

LEMMA StepIInv ==
  ASSUME IInv, NoteAnsweredInTime, [Next]_vars
  PROVE  IInv'
<1> SUFFICES Protocol'
  BY TypeStep DEF IInv
<1>2. CASE StartRun \/ CancelRun \/ SendChat
  BY <1>2, PromptSteps
<1>3. CASE ReceiveResponse \/ ReceiveEnd \/ Continue
  BY <1>3, ReceiveResponseStep, ReceiveEndStep, ContinueStep
<1>4. CASE \E id \in Id : Timeout(id)
  BY <1>4, TimeoutStep
<1>5. CASE AcceptNote \/ RefuseNote \/ HandleCancel \/ BeginTurn
  BY <1>5, AcceptNoteStep, RefuseNoteStep, HandleCancelStep, BeginTurnStep
<1>6. CASE \E id \in Id : AnswerCancel(id)
  BY <1>6, AnswerCancelStep
<1>7. CASE \E id \in Id : EndRun(id)
  BY <1>7, EndRunStep
<1>8. CASE \E id \in Id, ok \in BOOLEAN : EndTurn(id, ok)
  BY <1>8, EndTurnStep
<1>9. CASE Exit
  BY <1>9, ExitStep
<1>10. CASE UNCHANGED vars
  BY <1>10, Stutter
<1> QED
  BY <1>2, <1>3, <1>4, <1>5, <1>6, <1>7, <1>8, <1>9, <1>10 DEF Next

\* The inductive invariant holds in every session.
THEOREM Invariant == NoteAnsweredInTime => (Spec => []IInv)
<1> SUFFICES ASSUME NoteAnsweredInTime PROVE Spec => []IInv
  OBVIOUS
<1>1. IInv /\ [Next]_vars => IInv'
  BY StepIInv
<1> QED BY <1>1, InitIInv, PTL DEF Spec

\* When the prompt is free, no note run of this interface is going on: a live run
\* and an unread run.note both keep the prompt busy (app.ts startRun).
THEOREM FreePrompt == NoteAnsweredInTime => (Spec => []IdleMeansStopped)
<1> SUFFICES ASSUME NoteAnsweredInTime PROVE Spec => []IdleMeansStopped
  OBVIOUS
<1>1. IInv => IdleMeansStopped
  <2> SUFFICES ASSUME IInv, busy.kind = "none", NEW r \in Going PROVE FALSE
    BY DEF IInv, IdleMeansStopped
  <2>1. InboxInv /\ PendingInv /\ AliveInv /\ ~ RunningOf(r)
    BY DEF IInv, Protocol, RunningOf
  <2>2. PICK i \in DOMAIN inbox : inbox[i] = r /\ sent[r].method = "run.note"
    <3>1. r \notin Alive
      BY <2>1 DEF AliveInv
    <3>2. inbox \in Seq(Id)
      BY DEF IInv, TypeOK
    <3> QED BY <3>1, <3>2 DEF Going, Contains
  <2> QED BY <2>1, <2>2 DEF InboxInv, PendingInv, Awaiting
<1> QED BY <1>1, Invariant, PTL

\* Esc cancels the run the prompt is busy with, and nothing else: the id is known
\* from the moment the answer to run.note has been handled (app.ts cancelRun).
THEOREM OwnRunCancelled == NoteAnsweredInTime => (Spec => []CancelsItsOwn)
<1> SUFFICES ASSUME NoteAnsweredInTime PROVE Spec => []CancelsItsOwn
  OBVIOUS
<1>1. IInv => CancelsItsOwn
  <2> SUFFICES ASSUME IInv, busy.kind = "run", micro = <<>>
               PROVE  busy.runId = IF busy.op \in pending THEN NotKnown ELSE busy.op
    BY DEF CancelsItsOwn
  <2>1. BusyInv /\ PendingInv
    BY DEF IInv, Protocol
  <2>2. busy.op \in pending => busy.runId = NotKnown
    BY <2>1 DEF BusyInv, PendingInv, Asks, Awaiting
  <2>3. busy.runId = NotKnown => busy.op \in pending
    BY <2>1 DEF BusyInv
  <2> QED BY <2>1, <2>2, <2>3 DEF BusyInv
<1> QED BY <1>1, Invariant, PTL

\* "Run cancelled." is true when it is shown, and the interface never waits for a
\* run that has ended and has nothing more to say (server.py _m_run_cancel).
THEOREM SameEnd == NoteAnsweredInTime => (Spec => []EndsAgree)
<1> SUFFICES ASSUME NoteAnsweredInTime PROVE Spec => []EndsAgree
  OBVIOUS
<1>1. IInv => EndsAgree
  <2> SUFFICES ASSUME IInv PROVE EndsAgree
    OBVIOUS
  <2>1. BusyInv /\ MicroInv
    BY DEF IInv, Protocol
  <2>2. ASSUME NEW i \in DOMAIN micro, sent[micro[i].id].method = "run.cancel", micro[i].ok
        PROVE  sent[micro[i].id].run \notin Alive
    BY <2>1, <2>2 DEF MicroInv, MicroOK, Alive
  <2>3. wire = <<>> /\ busy.kind = "run" => task[busy.op] # "done"
    BY <2>1 DEF BusyInv
  <2> QED BY <2>2, <2>3 DEF EndsAgree
<1> QED BY <1>1, Invariant, PTL

\* A busy prompt is cleared only by the end of what it was set for: no late event
\* and no late answer of something earlier clears it (app.ts onEvent, startRun,
\* cancelRun and sendChat).
THEOREM OwnEndClears == NoteAnsweredInTime => (Spec => ClearsItsOwn)
<1> SUFFICES ASSUME NoteAnsweredInTime PROVE Spec => ClearsItsOwn
  OBVIOUS
<1>1. ASSUME IInv, [Next]_vars, busy.kind # "none", busy'.kind = "none", ~closed'
      PROVE  busy.op \notin Going' /\ (busy.kind = "chat" => busy.op \notin pending')
  <2>0. /\ TypeOK /\ BusyInv /\ PendingInv /\ InboxInv /\ FrameInv /\ MicroInv
    BY <1>1 DEF IInv, Protocol
  <2>1. CASE ReceiveEnd
    <3>1. PICK run : run = Head(wire).id
      OBVIOUS
    <3>2. /\ wire # <<>> /\ wire' = Tail(wire) /\ Head(wire).type = "end"
          /\ ~closed /\ sent' = sent /\ inbox' = inbox /\ task' = task
      BY <1>1, <2>1 DEF ReceiveEnd, backendVars
    <3>3. task[run] = "done" /\ RunningOf(run)
      BY <1>1, <3>1, <3>2, WireRead DEF FrameOK
    <3>4. \A i \in DOMAIN inbox : sent[inbox[i]].method = "run.note" => inbox[i] # run
      BY <2>0, <3>3 DEF InboxInv
    <3>5. run \notin Alive'
      BY <3>2, <3>3 DEF Alive
    <3>6. inbox \in Seq(Id)
      BY <2>0 DEF TypeOK
    <3> QED BY <3>2, <3>3, <3>4, <3>5, <3>6 DEF RunningOf, Going, Contains
  <2>2. CASE Continue
    <3>1. PICK id : id = Head(micro).id
      OBVIOUS
    <3>2. /\ micro # <<>> /\ micro' = Tail(micro) /\ pending' = pending
          /\ sent' = sent /\ inbox' = inbox /\ task' = task
      BY <2>2 DEF Continue, backendVars
    <3>3. [busy EXCEPT !.runId = id].kind = busy.kind
      BY <2>0 DEF TypeOK, Busy
    <3>4. /\ Alive = {} /\ \A p : Awaiting(p) => p = id
          /\ busy.kind = "chat" => busy.op = id
      BY <1>1, <2>2, <3>1, <3>3, ContinueCases
    <3>5. id \notin pending
      BY <1>1, <3>1, <3>2, MicroRun DEF MicroOK
    <3>6. \A i \in DOMAIN inbox : sent[inbox[i]].method # "run.note"
      BY <2>0, <3>4, <3>5 DEF InboxInv, PendingInv
    <3>7. Alive' = {}
      BY <3>2, <3>4 DEF Alive
    <3>8. inbox \in Seq(Id)
      BY <2>0 DEF TypeOK
    <3> QED BY <3>2, <3>4, <3>5, <3>6, <3>7, <3>8 DEF Going, Contains
  <2>3. CASE StartRun \/ CancelRun \/ SendChat
    BY <1>1, <2>3 DEF StartRun, CancelRun, SendChat
  <2>4. CASE ReceiveResponse \/ \E id \in Id : Timeout(id)
    BY <1>1, <2>4 DEF ReceiveResponse, Timeout
  <2>5. CASE AcceptNote \/ RefuseNote \/ HandleCancel \/ BeginTurn
    BY <1>1, <2>5 DEF AcceptNote, RefuseNote, HandleCancel, BeginTurn, tuiVars
  <2>6. CASE \/ \E id \in Id : AnswerCancel(id) \/ EndRun(id)
             \/ \E id \in Id, ok \in BOOLEAN : EndTurn(id, ok)
    BY <1>1, <2>6 DEF AnswerCancel, EndRun, EndTurn, tuiVars
  <2>7. CASE Exit
    BY <1>1, <2>7 DEF Exit
  <2>8. CASE UNCHANGED vars
    BY <1>1, <2>8 DEF vars
  <2> QED BY <1>1, <2>1, <2>2, <2>3, <2>4, <2>5, <2>6, <2>7, <2>8 DEF Next
<1>2. IInv /\ [Next]_vars =>
        [busy.kind # "none" /\ busy'.kind = "none" /\ ~closed' =>
           /\ busy.op \notin Going'
           /\ busy.kind = "chat" => busy.op \notin pending']_vars
  BY <1>1
<1> QED BY <1>2, Invariant, PTL DEF Spec, ClearsItsOwn
=============================================================================
