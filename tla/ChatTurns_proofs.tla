-------------------------- MODULE ChatTurns_proofs --------------------------
(***************************************************************************)
(* The histories of the chat are conversations, no answered turn is lost   *)
(* and every reply goes home, for any agents and turns, any number of tool *)
(* calls and iterations and any interleaving of the handlers.              *)
(***************************************************************************)
EXTENDS ChatTurns, SequenceTheorems, TLAPS

\* What the bridge keeps is what is set; a controller was built from it.  Every
\* controller but the current one was dropped by a change of the settings.
CoreInv ==
  /\ vault \in {None, setting.vault} /\ provider \in {None, setting.key}
  /\ current # 0 => built[current] = setting
  /\ setting.vault + setting.key <= MaxBuilt - 1
  /\ Len(built) <= setting.vault + setting.key + (IF current = 0 THEN 0 ELSE 1)

Distinct(s) == \A i, j \in DOMAIN s : s[i] = s[j] => i = j
Entered(t) == at[t] \in {"model", "tools"}

\* The queue of a chat holds its turns in flight, each once, and the first of
\* them is the only one that is past the lock.
LockInv ==
  /\ \A t \in Turn : at[t] # "new" => chat[t] \in Chat
  /\ \A t \in Turn : at[t] # "new" => chat[t][1] <= Len(built)
  /\ \A a \in Chat : Distinct(queue[a])
  /\ \A a \in Chat : \A i \in DOMAIN queue[a] :
       queue[a][i] \in InFlight /\ chat[queue[a][i]] = a
  /\ \A t \in InFlight : \E i \in DOMAIN queue[chat[t]] : queue[chat[t]][i] = t
  /\ \A t \in Turn : Entered(t) => HoldsLock(t)

Alternates(s) ==
  \A i \in 1 .. Len(s) - 1 : /\ s[i].role = "assistant" <=> s[i + 1].role = "user"
                             /\ s[i].role = "assistant" <=> s[i].turn # s[i + 1].turn

\* Every tool asked for has answered, but for the last m.
Answered(s, m) ==
  \A i \in 1 .. Len(s) : \A k \in 1 .. s[i].asks :
    i + k <= Len(s) + m /\ (i + k <= Len(s) => s[i + k].role = "tool")

OnlyCallsAsk(s) == \A i \in DOMAIN s : s[i].asks # 0 => s[i].role = "call"

\* A conversation whose last turn t is not answered and awaits m tools.
Open(s, t, m) ==
  /\ s # <<>> /\ s[1].role = "user"
  /\ s[Len(s)].turn = t /\ s[Len(s)].role # "assistant"
  /\ Alternates(s) /\ Answered(s, m) /\ OnlyCallsAsk(s)

Closed(s) ==
  /\ s # <<>> => s[1].role = "user" /\ s[Len(s)].role = "assistant"
  /\ Alternates(s) /\ Answered(s, 0) /\ OnlyCallsAsk(s)

\* A history is a conversation of answered turns; the turn that holds the lock
\* has a copy of it that its own exchange extends.
TalkInv ==
  /\ \A a \in Chat : Closed(history[a])
  /\ \A a \in Chat : \A u \in In(history[a]) : at[u] = "done" /\ chat[u] = a
  /\ \A t \in Turn : Entered(t) =>
       /\ Open(messages[t], t, calls[t])
       /\ In(history[chat[t]]) \subseteq In(messages[t])
       /\ \A u \in In(messages[t]) : u = t \/ (at[u] = "done" /\ chat[u] = chat[t])
  /\ \A t \in Turn : at[t] = "done" => t \in In(history[chat[t]]) \cup cleared[chat[t]]

\* The calls that are left are those of the turn's last completion.
CallsInv == \A t \in Turn : IF at[t] = "tools" THEN calls[t] > 0 ELSE calls[t] = 0

\* The agent of a chat stays the active one until the turn is overtaken.
AuthorInv ==
  \A t \in InFlight : t \notin overtaken => active[chat[t][1]] = chat[t][2]

IInv == TypeOK /\ CoreInv /\ LockInv /\ CallsInv /\ TalkInv /\ AuthorInv
-----------------------------------------------------------------------------
\* What the next message does to a conversation.
LEMMA AppendAt ==
  ASSUME NEW S, NEW s \in Seq(S), NEW e \in S
  PROVE  /\ Append(s, e) \in Seq(S)
         /\ Len(Append(s, e)) = Len(s) + 1
         /\ Append(s, e)[Len(s) + 1] = e
         /\ \A i \in 1 .. Len(s) : Append(s, e)[i] = s[i]
OBVIOUS

LEMMA InTurns ==
  ASSUME NEW s \in Seq(Message)
  PROVE  In(s) \subseteq Turn
<1>1. \A i \in DOMAIN s : s[i] \in Message
  OBVIOUS
<1> QED BY <1>1 DEF In, Message

LEMMA InAppend ==
  ASSUME NEW s \in Seq(Message), NEW e \in Message
  PROVE  In(Append(s, e)) = In(s) \cup {e.turn}
<1>1. DOMAIN s = 1 .. Len(s) /\ DOMAIN Append(s, e) = 1 .. Len(s) + 1 /\ Len(s) \in Nat
  OBVIOUS
<1> QED BY <1>1, AppendAt DEF In

LEMMA AlternatesAppend ==
  ASSUME NEW s \in Seq(Message), NEW e \in Message, Alternates(s),
         s # <<>> => /\ s[Len(s)].role = "assistant" <=> e.role = "user"
                     /\ s[Len(s)].role = "assistant" <=> s[Len(s)].turn # e.turn
  PROVE  Alternates(Append(s, e))
<1>1. Len(s) \in Nat /\ (Len(s) > 0 => s # <<>>)
  OBVIOUS
<1> SUFFICES ASSUME NEW i \in 1 .. Len(s)
             PROVE  /\ Append(s, e)[i].role = "assistant" <=> Append(s, e)[i + 1].role = "user"
                    /\ Append(s, e)[i].role = "assistant"
                         <=> Append(s, e)[i].turn # Append(s, e)[i + 1].turn
  BY <1>1, AppendAt DEF Alternates
<1>2. CASE i = Len(s)
  BY <1>1, <1>2, AppendAt
<1>3. CASE i < Len(s)
  <2>1. i \in 1 .. Len(s) - 1 /\ i + 1 \in 1 .. Len(s)
    BY <1>1, <1>3
  <2> QED BY <2>1, AppendAt DEF Alternates
<1> QED BY <1>1, <1>2, <1>3

\* A message that is no answer, once all tools have answered, opens its own calls.
LEMMA AnsweredAsk ==
  ASSUME NEW s \in Seq(Message), NEW e \in Message, Answered(s, 0), e.asks \in Nat
  PROVE  Answered(Append(s, e), e.asks)
<1>1. Len(s) \in Nat
  OBVIOUS
<1> SUFFICES ASSUME NEW i \in 1 .. Len(s) + 1, NEW k \in 1 .. Append(s, e)[i].asks
             PROVE  /\ i + k <= Len(s) + 1 + e.asks
                    /\ i + k <= Len(s) + 1 => Append(s, e)[i + k].role = "tool"
  BY AppendAt DEF Answered
<1>2. CASE i = Len(s) + 1
  BY <1>1, <1>2, AppendAt
<1>3. CASE i \in 1 .. Len(s)
  <2>1. k \in 1 .. s[i].asks
    BY <1>3, AppendAt
  <2>2. i + k <= Len(s) /\ s[i + k].role = "tool"
    BY <1>1, <1>3, <2>1 DEF Answered
  <2>3. k \in Int /\ k >= 1
    BY <2>1
  <2> QED BY <1>1, <1>3, <2>2, <2>3, AppendAt
<1> QED BY <1>1, <1>2, <1>3

LEMMA AnsweredTool ==
  ASSUME NEW s \in Seq(Message), NEW e \in Message, NEW m \in Nat \ {0}, Answered(s, m),
         e.role = "tool", e.asks = 0
  PROVE  Answered(Append(s, e), m - 1)
<1>1. Len(s) \in Nat /\ Len(Append(s, e)) = Len(s) + 1
  OBVIOUS
<1> SUFFICES ASSUME NEW i \in 1 .. Len(s) + 1, NEW k \in 1 .. Append(s, e)[i].asks
             PROVE  /\ i + k <= Len(s) + 1 + (m - 1)
                    /\ i + k <= Len(s) + 1 => Append(s, e)[i + k].role = "tool"
  BY <1>1 DEF Answered
<1>2. i \in 1 .. Len(s) /\ k \in 1 .. s[i].asks
  BY <1>1, AppendAt
<1>3. i + k <= Len(s) + m /\ (i + k <= Len(s) => s[i + k].role = "tool")
  BY <1>2 DEF Answered
<1>4. k \in Int /\ k >= 1
  BY <1>2
<1> QED BY <1>1, <1>2, <1>3, <1>4, AppendAt

LEMMA OnlyCallsAskAppend ==
  ASSUME NEW s \in Seq(Message), NEW e \in Message, OnlyCallsAsk(s), e.asks # 0 => e.role = "call"
  PROVE  OnlyCallsAsk(Append(s, e))
<1>1. DOMAIN s = 1 .. Len(s) /\ DOMAIN Append(s, e) = 1 .. Len(s) + 1 /\ Len(s) \in Nat
  OBVIOUS
<1> QED BY <1>1, AppendAt DEF OnlyCallsAsk

\* A user's message opens a closed conversation, and calls and tools keep it open.
LEMMA UserOpens ==
  ASSUME NEW s \in Seq(Message), NEW t \in Turn, Closed(s), t \notin In(s)
  PROVE  Open(Append(s, Says(t, "user")), t, 0)
<1> DEFINE e == Says(t, "user")
<1>1. e \in Message /\ e.role = "user" /\ e.turn = t /\ e.asks = 0
  BY DEF Says, Message
<1>2. Len(s) \in Nat /\ (s # <<>> => Len(s) \in DOMAIN s)
  OBVIOUS
<1>3. s # <<>> => s[Len(s)].role = "assistant" /\ s[Len(s)].turn # t
  BY <1>2 DEF Closed, In
<1> HIDE DEF e
<1>4. Alternates(Append(s, e)) /\ OnlyCallsAsk(Append(s, e)) /\ Answered(Append(s, e), 0)
  BY <1>1, <1>3, AlternatesAppend, AnsweredAsk, OnlyCallsAskAppend DEF Closed
<1>5. Append(s, e) # <<>> /\ Append(s, e)[1].role = "user"
  BY <1>1, <1>2, AppendAt, SMTT(30) DEF Closed
<1>6. Open(Append(s, e), t, 0)
  BY <1>1, <1>2, <1>4, <1>5, AppendAt DEF Open
<1> QED BY <1>6 DEF e

LEMMA OpenExtends ==
  ASSUME NEW s \in Seq(Message), NEW t \in Turn, NEW m \in Nat, NEW n \in Nat,
         NEW e \in Message, Open(s, t, m), e.turn = t, e.role \in {"call", "tool", "assistant"},
         e.asks # 0 => e.role = "call", Answered(Append(s, e), n)
  PROVE  /\ Append(s, e) # <<>> /\ Append(s, e)[1].role = "user"
         /\ Append(s, e)[Len(Append(s, e))] = e
         /\ Alternates(Append(s, e)) /\ OnlyCallsAsk(Append(s, e))
<1>1. Len(s) \in Nat /\ Len(s) >= 1
  BY DEF Open
<1>2. Append(s, e)[1].role = "user" /\ Append(s, e)[Len(Append(s, e))] = e /\ Append(s, e) # <<>>
  BY <1>1, AppendAt DEF Open
<1>3. Alternates(Append(s, e)) /\ OnlyCallsAsk(Append(s, e))
  BY AlternatesAppend, OnlyCallsAskAppend DEF Open
<1> QED BY <1>2, <1>3

LEMMA CallOpens ==
  ASSUME NEW s \in Seq(Message), NEW t \in Turn, NEW n \in Calls, Open(s, t, 0)
  PROVE  Open(Append(s, Asks(t, n)), t, n)
<1> DEFINE e == Asks(t, n)
<1>1. e \in Message /\ e.role = "call" /\ e.turn = t /\ e.asks = n /\ n \in Nat
  BY ChatAssumption DEF Asks, Message
<1> HIDE DEF e
<1>2. Answered(Append(s, e), n)
  BY <1>1, AnsweredAsk DEF Open
<1>3. Open(Append(s, e), t, n)
  BY <1>1, <1>2, OpenExtends DEF Open
<1> QED BY <1>3 DEF e

LEMMA ToolKeepsOpen ==
  ASSUME NEW s \in Seq(Message), NEW t \in Turn, NEW m \in Nat \ {0}, Open(s, t, m)
  PROVE  Open(Append(s, Says(t, "tool")), t, m - 1)
<1> DEFINE e == Says(t, "tool")
<1>1. e \in Message /\ e.role = "tool" /\ e.turn = t /\ e.asks = 0
  BY DEF Says, Message
<1> HIDE DEF e
<1>2. Answered(Append(s, e), m - 1)
  BY <1>1, AnsweredTool DEF Open
<1>3. Open(Append(s, e), t, m - 1)
  BY <1>1, <1>2, OpenExtends DEF Open
<1> QED BY <1>3 DEF e

LEMMA ReplyCloses ==
  ASSUME NEW s \in Seq(Message), NEW t \in Turn, Open(s, t, 0)
  PROVE  Closed(Append(s, Says(t, "assistant")))
<1> DEFINE e == Says(t, "assistant")
<1>1. e \in Message /\ e.role = "assistant" /\ e.turn = t /\ e.asks = 0
  BY DEF Says, Message
<1> HIDE DEF e
<1>2. Answered(Append(s, e), 0)
  BY <1>1, AnsweredAsk DEF Open
<1>3. Closed(Append(s, e))
  BY <1>1, <1>2, OpenExtends DEF Closed
<1> QED BY <1>3 DEF e
-----------------------------------------------------------------------------
\* The queue of a lock: who comes, comes last, and who leaves was first.
Waits(q, t) == \E i \in DOMAIN q : q[i] = t

LEMMA QueueGrows ==
  ASSUME NEW q \in Seq(Turn), NEW t \in Turn, Distinct(q), ~Waits(q, t)
  PROVE  /\ Append(q, t) \in Seq(Turn) /\ Distinct(Append(q, t))
         /\ \A u \in Turn : Waits(Append(q, t), u) <=> Waits(q, u) \/ u = t
         /\ q # <<>> => Append(q, t) # <<>> /\ Head(Append(q, t)) = Head(q)
<1>1. /\ DOMAIN q = 1 .. Len(q) /\ DOMAIN Append(q, t) = 1 .. Len(q) + 1 /\ Len(q) \in Nat
      /\ Append(q, t) \in Seq(Turn)
  OBVIOUS
<1>2. Append(q, t)[Len(q) + 1] = t /\ \A i \in 1 .. Len(q) : Append(q, t)[i] = q[i]
  BY AppendAt
<1>3. \A i \in 1 .. Len(q) + 1 : i \in 1 .. Len(q) \/ i = Len(q) + 1
  BY <1>1
<1>4. \A i \in 1 .. Len(q) : q[i] # t
  BY <1>1 DEF Waits
<1>5. Distinct(Append(q, t))
  BY <1>1, <1>2, <1>3, <1>4 DEF Distinct
<1>6. \A u \in Turn : Waits(Append(q, t), u) <=> Waits(q, u) \/ u = t
  BY <1>1, <1>2, <1>3 DEF Waits
<1>7. q # <<>> => Append(q, t) # <<>> /\ Head(Append(q, t)) = Head(q)
  BY <1>1, <1>2
<1> QED BY <1>1, <1>5, <1>6, <1>7

LEMMA QueueMoves ==
  ASSUME NEW q \in Seq(Turn), Distinct(q), q # <<>>
  PROVE  /\ Tail(q) \in Seq(Turn) /\ Distinct(Tail(q))
         /\ \A u \in Turn : Waits(Tail(q), u) <=> Waits(q, u) /\ u # Head(q)
<1>1. /\ DOMAIN q = 1 .. Len(q) /\ DOMAIN Tail(q) = 1 .. Len(q) - 1 /\ Len(q) \in Nat \ {0}
      /\ Tail(q) \in Seq(Turn) /\ \A i \in 1 .. Len(q) - 1 : Tail(q)[i] = q[i + 1]
      /\ Head(q) = q[1]
  OBVIOUS
<1>2. /\ \A i \in 1 .. Len(q) - 1 : i + 1 \in 1 .. Len(q) /\ i + 1 # 1 /\ i \in Int
      /\ \A i \in 1 .. Len(q) : i # 1 => i - 1 \in 1 .. Len(q) - 1 /\ (i - 1) + 1 = i
      /\ 1 \in 1 .. Len(q)
  BY <1>1
<1>3. Distinct(Tail(q))
  BY <1>1, <1>2 DEF Distinct
<1>4. ASSUME NEW u \in Turn, Waits(Tail(q), u) PROVE Waits(q, u) /\ u # Head(q)
  BY <1>1, <1>2, <1>4 DEF Waits, Distinct
<1>5. ASSUME NEW u \in Turn, Waits(q, u), u # Head(q) PROVE Waits(Tail(q), u)
  <2>1. PICK i \in 1 .. Len(q) : q[i] = u
    BY <1>1, <1>5 DEF Waits
  <2>2. i - 1 \in 1 .. Len(q) - 1 /\ Tail(q)[i - 1] = u
    BY <1>1, <1>2, <1>5, <2>1
  <2> QED BY <1>1, <2>2 DEF Waits
<1> QED BY <1>1, <1>3, <1>4, <1>5

\* LockInv, said of the queues as sets.
LEMMA QueueOf ==
  ASSUME TypeOK, LockInv, NEW a \in Chat, NEW u \in Turn
  PROVE  Waits(queue[a], u) <=> u \in InFlight /\ chat[u] = a
BY DEF LockInv, Waits

LEMMA LockFromQueues ==
  ASSUME TypeOK',
         \A t \in Turn : at'[t] # "new" => chat'[t] \in Chat /\ chat'[t][1] <= Len(built'),
         \A a \in Chat : Distinct(queue'[a]),
         \A a \in Chat, u \in Turn : Waits(queue'[a], u) <=> u \in InFlight' /\ chat'[u] = a,
         \A t \in Turn : Entered(t)' => HoldsLock(t)'
  PROVE  LockInv'
<1>1. ASSUME NEW a \in Chat, NEW i \in DOMAIN queue'[a]
      PROVE  queue'[a][i] \in InFlight' /\ chat'[queue'[a][i]] = a
  <2>1. queue'[a][i] \in Turn
    BY DEF TypeOK
  <2> QED BY <2>1 DEF Waits
<1>2. ASSUME NEW t \in InFlight'
      PROVE  \E i \in DOMAIN queue'[chat'[t]] : queue'[chat'[t]][i] = t
  BY DEF Waits, InFlight
<1> QED BY <1>1, <1>2 DEF LockInv
-----------------------------------------------------------------------------
\* _chat_controller yields a controller made of what is set.
LEMMA BuildInv ==
  ASSUME TypeOK, CoreInv, Build
  PROVE  /\ CoreInv' /\ setting' = setting /\ setting \in Setting
         /\ vault' \in 0 .. MaxBuilt - 1 \cup {None} /\ provider' \in 0 .. MaxBuilt - 1 \cup {None}
         /\ built' \in Seq(Setting) /\ current' = ChatController /\ current' \in {0} \cup DOMAIN built'
         /\ ChatController \in Controller /\ ChatController <= Len(built')
         /\ Len(built) <= Len(built') /\ built'[ChatController] = setting
<1>0. /\ setting.vault \in Nat /\ setting.key \in Nat /\ MaxBuilt \in Nat /\ Len(built) \in Nat
      /\ setting = [vault |-> setting.vault, key |-> setting.key] /\ DOMAIN built = 1 .. Len(built)
      /\ setting.vault \in 0 .. MaxBuilt - 1 /\ setting.key \in 0 .. MaxBuilt - 1
  BY ChatAssumption DEF TypeOK, Setting
<1>1. CASE current # 0
  <2>1. ChatController = current /\ current \in 1 .. Len(built)
    BY <1>0, <1>1 DEF ChatController, TypeOK
  <2>2. Len(built) <= MaxBuilt
    BY <1>0, <1>1 DEF CoreInv
  <2>3. UNCHANGED <<setting, vault, provider, built, current>>
    BY <1>1, <2>1 DEF Build
  <2> QED BY <1>0, <1>1, <2>1, <2>2, <2>3 DEF TypeOK, CoreInv, Controller
<1>2. CASE current = 0
  <2>1. /\ TheVault = setting.vault /\ TheProvider = setting.key
        /\ ChatController = Len(built) + 1 /\ Len(built) + 1 <= MaxBuilt
    BY <1>0, <1>2 DEF CoreInv, TheVault, TheProvider, ChatController
  <2>2. /\ built' = Append(built, setting) /\ vault' = setting.vault /\ provider' = setting.key
        /\ setting' = setting /\ current' = Len(built) + 1
    BY <1>0, <1>2, <2>1 DEF Build
  <2>3. /\ built' \in Seq(Setting) /\ Len(built') = Len(built) + 1
        /\ built'[Len(built) + 1] = setting /\ DOMAIN built' = 1 .. Len(built) + 1
    BY <1>0, <2>2 DEF TypeOK
  <2> QED BY <1>0, <1>2, <2>1, <2>2, <2>3 DEF TypeOK, CoreInv, Controller
<1> QED BY <1>1, <1>2

\* What a step that leaves the turns alone must keep.
LEMMA LockKept ==
  ASSUME TypeOK, TypeOK', LockInv, UNCHANGED <<at, chat, queue>>, Len(built) <= Len(built')
  PROVE  LockInv'
<1>1. \A t \in Turn : at[t] # "new" => chat[t][1] \in Int
  BY DEF LockInv, Chat, Controller
<1>2. Len(built) \in Nat /\ Len(built') \in Nat
  BY DEF TypeOK
<1>3. \A t \in Turn : at'[t] # "new" => chat'[t][1] <= Len(built')
  BY <1>1, <1>2 DEF LockInv
<1> QED BY <1>3 DEF LockInv, InFlight, Entered, HoldsLock

LEMMA TalkKept ==
  ASSUME TalkInv, UNCHANGED <<at, chat, history, messages, calls, cleared>>
  PROVE  TalkInv'
BY DEF TalkInv, Entered

LEMMA CallsKept ==
  ASSUME CallsInv, UNCHANGED <<at, calls>>
  PROVE  CallsInv'
BY DEF CallsInv

LEMMA AuthorKept ==
  ASSUME AuthorInv, UNCHANGED <<at, chat, active, overtaken>>
  PROVE  AuthorInv'
BY DEF AuthorInv, InFlight
-----------------------------------------------------------------------------
\* The active agent changes: the turns in flight with another are overtaken.
LEMMA ActivateInv ==
  ASSUME TypeOK, AuthorInv, NEW a \in Agent, Activate(a), ChatController \in Controller
  PROVE  /\ active' \in [Controller -> Agent \cup {None}] /\ overtaken' \subseteq Turn
         /\ \A t \in InFlight : t \notin overtaken' => active'[chat[t][1]] = chat[t][2]
         /\ active'[ChatController] = a
<1>1. active' = [active EXCEPT ![ChatController] = a]
  BY DEF Activate
<1>2. ASSUME NEW t \in InFlight, t \notin overtaken'
      PROVE  active'[chat[t][1]] = chat[t][2]
  <2>1. t \notin overtaken /\ (chat[t][1] = ChatController => chat[t][2] = a)
    BY <1>2 DEF Activate
  <2>2. active[chat[t][1]] = chat[t][2]
    BY <1>2, <2>1 DEF AuthorInv
  <2> QED BY <1>1, <2>1, <2>2 DEF TypeOK
<1> QED BY <1>1, <1>2 DEF TypeOK, Activate, InFlight

LEMMA SelectInv ==
  ASSUME IInv, NEW a \in Agent, Select(a)
  PROVE  IInv'
<1>1. Build /\ Activate(a) /\ UNCHANGED <<history, queue, at, chat, messages, left, calls, cleared>>
  BY DEF Select, session
<1>2. TypeOK'
  BY <1>1, BuildInv, ActivateInv DEF IInv, TypeOK
<1>3. CoreInv' /\ LockInv' /\ CallsInv' /\ TalkInv'
  BY <1>1, <1>2, BuildInv, LockKept, CallsKept, TalkKept DEF IInv
<1>4. AuthorInv'
  BY <1>1, BuildInv, ActivateInv DEF IInv, AuthorInv, InFlight
<1> QED BY <1>2, <1>3, <1>4 DEF IInv

\* A setting changes: what was resolved from it is forgotten.
LEMMA SettingInv ==
  ASSUME IInv, VaultInit \/ AuthPersist
  PROVE  IInv'
<1>0. /\ setting.vault \in Nat /\ setting.key \in Nat /\ MaxBuilt \in Nat /\ Len(built) \in Nat
      /\ setting = [vault |-> setting.vault, key |-> setting.key]
      /\ setting.vault + setting.key + 1 <= MaxBuilt - 1
  BY ChatAssumption DEF IInv, TypeOK, Setting, VaultInit, AuthPersist, MayChange
<1>1. /\ current' = 0
      /\ UNCHANGED <<built, active, history, queue, at, chat, messages, left, calls, cleared,
                     overtaken>>
  BY DEF VaultInit, AuthPersist, session
<1>2. /\ setting' \in Setting /\ setting'.vault + setting'.key = setting.vault + setting.key + 1
      /\ vault' \in {None, setting'.vault} /\ provider' \in {None, setting'.key}
  <2>1. CASE VaultInit
    <3>1. setting' = [vault |-> setting.vault + 1, key |-> setting.key]
      BY <1>0, <2>1 DEF VaultInit
    <3>2. vault' = None /\ provider' = provider
      BY <2>1 DEF VaultInit
    <3> QED BY <1>0, <3>1, <3>2 DEF IInv, CoreInv, Setting
  <2>2. CASE AuthPersist
    <3>1. setting' = [vault |-> setting.vault, key |-> setting.key + 1]
      BY <1>0, <2>2 DEF AuthPersist
    <3>2. provider' = None /\ vault' = vault
      BY <2>2 DEF AuthPersist
    <3> QED BY <1>0, <3>1, <3>2 DEF IInv, CoreInv, Setting
  <2> QED BY <2>1, <2>2
<1>3. CoreInv'
  BY <1>0, <1>1, <1>2 DEF IInv, CoreInv
<1>4. TypeOK'
  BY <1>0, <1>1, <1>2 DEF IInv, TypeOK, Setting
<1>5. LockInv' /\ CallsInv' /\ TalkInv' /\ AuthorInv'
  BY <1>0, <1>1, <1>4, LockKept, CallsKept, TalkKept, AuthorKept DEF IInv
<1> QED BY <1>0, <1>3, <1>4, <1>5 DEF IInv

\* A history is forgotten; the turn that has a copy of it keeps the copy.
LEMMA ClearInv ==
  ASSUME IInv, NEW a \in Agent, Clear(a)
  PROVE  IInv'
<1> DEFINE target == <<ChatController, a>>
<1>1. /\ Build /\ UNCHANGED <<active, queue, at, chat, messages, left, calls, overtaken>>
      /\ history' = [history EXCEPT ![target] = <<>>]
      /\ cleared' = [cleared EXCEPT ![target] = @ \cup In(history[target])]
  BY DEF Clear, Forget, session
<1>2. target \in Chat /\ CoreInv'
  BY <1>1, BuildInv DEF IInv, Chat
<1> HIDE DEF target
<1>3. In(history[target]) \subseteq Turn
  BY <1>2, InTurns DEF IInv, TypeOK
<1>4. TypeOK'
  <2>1. history' \in [Chat -> Seq(Message)]
    <3>1. history \in [Chat -> Seq(Message)] /\ <<>> \in Seq(Message)
      BY DEF IInv, TypeOK
    <3> QED BY <1>1, <3>1
  <2>2. cleared' \in [Chat -> SUBSET Turn]
    BY <1>1, <1>3 DEF IInv, TypeOK
  <2> QED BY <1>1, <2>1, <2>2, BuildInv DEF IInv, TypeOK
<1>5. LockInv' /\ CallsInv' /\ AuthorInv'
  BY <1>1, <1>4, BuildInv, LockKept, CallsKept, AuthorKept DEF IInv
<1>6. /\ Closed(<<>>) /\ In(<<>>) = {}
      /\ \A c \in Chat : history'[c] = IF c = target THEN <<>> ELSE history[c]
      /\ \A c \in Chat : In(history'[c]) \subseteq In(history[c])
      /\ \A c \in Chat : In(history[c]) \cup cleared[c] = In(history'[c]) \cup cleared'[c]
  <2>1. Closed(<<>>) /\ In(<<>>) = {}
    BY DEF Closed, Alternates, Answered, OnlyCallsAsk, In
  <2>2. \A c \in Chat : history'[c] = IF c = target THEN <<>> ELSE history[c]
    BY <1>1 DEF IInv, TypeOK
  <2>3. \A c \in Chat : cleared'[c] = IF c = target THEN cleared[c] \cup In(history[c]) ELSE cleared[c]
    BY <1>1 DEF IInv, TypeOK
  <2> QED BY <2>1, <2>2, <2>3
<1>7. TalkInv'
  <2>1. \A c \in Chat : Closed(history'[c])
    BY <1>6 DEF IInv, TalkInv
  <2>2. \A c \in Chat : \A u \in In(history'[c]) : at'[u] = "done" /\ chat'[u] = c
    BY <1>1, <1>6 DEF IInv, TalkInv
  <2>3. ASSUME NEW t \in Turn, Entered(t)'
        PROVE  /\ Open(messages'[t], t, calls'[t])
               /\ In(history'[chat'[t]]) \subseteq In(messages'[t])
               /\ \A u \in In(messages'[t]) : u = t \/ (at'[u] = "done" /\ chat'[u] = chat'[t])
    <3>1. Entered(t) /\ chat[t] \in Chat
      BY <1>1, <2>3 DEF Entered, IInv, LockInv
    <3> QED BY <1>1, <1>6, <3>1 DEF IInv, TalkInv
  <2>4. ASSUME NEW t \in Turn, at'[t] = "done"
        PROVE  t \in In(history'[chat'[t]]) \cup cleared'[chat'[t]]
    <3>1. chat[t] \in Chat /\ t \in In(history[chat[t]]) \cup cleared[chat[t]]
      BY <1>1, <2>4 DEF IInv, LockInv, TalkInv
    <3> QED BY <1>1, <1>6, <3>1
  <2> QED BY <2>1, <2>2, <2>3, <2>4 DEF TalkInv
<1> QED BY <1>2, <1>4, <1>5, <1>7 DEF IInv
-----------------------------------------------------------------------------
\* A new turn queues for the lock of its chat.
LEMMA SendInv ==
  ASSUME IInv, NEW t \in Turn, NEW a \in Agent, Send(t, a)
  PROVE  IInv' /\ built'[chat'[t][1]] = setting
<1> DEFINE home == <<ChatController, a>>
<1>1. /\ at[t] = "new" /\ Build /\ Activate(a)
      /\ chat' = [chat EXCEPT ![t] = home]
      /\ queue' = [queue EXCEPT ![home] = Append(@, t)]
      /\ at' = [at EXCEPT ![t] = "locked"]
      /\ UNCHANGED <<history, messages, left, calls, cleared>>
  BY DEF Send, Goto, session
<1>2. /\ home \in Chat /\ CoreInv' /\ home[1] = ChatController /\ home[2] = a
      /\ ChatController <= Len(built') /\ built'[ChatController] = setting
  BY <1>1, BuildInv DEF IInv, Chat
<1> HIDE DEF home
<1>3. /\ at'[t] = "locked" /\ chat'[t] = home /\ t \notin InFlight /\ t \in InFlight'
      /\ \A u \in Turn \ {t} : at'[u] = at[u] /\ chat'[u] = chat[u]
      /\ \A u \in Turn \ {t} : u \in InFlight <=> u \in InFlight'
      /\ \A u \in Turn : Entered(u)' <=> Entered(u) /\ u # t
      /\ ~Entered(t)
  BY <1>1 DEF IInv, TypeOK, InFlight, Entered
<1>4. /\ Append(queue[home], t) \in Seq(Turn) /\ Distinct(Append(queue[home], t))
      /\ \A u \in Turn : Waits(Append(queue[home], t), u) <=> Waits(queue[home], u) \/ u = t
      /\ queue[home] # <<>> => /\ Append(queue[home], t) # <<>>
                               /\ Head(Append(queue[home], t)) = Head(queue[home])
  <2>1. queue[home] \in Seq(Turn) /\ Distinct(queue[home]) /\ ~Waits(queue[home], t)
    BY <1>2, <1>3, QueueOf DEF IInv, TypeOK, LockInv
  <2> HIDE DEF Distinct, Waits
  <2> QED BY <2>1, QueueGrows
<1>5. \A c \in Chat : queue'[c] = IF c = home THEN Append(queue[home], t) ELSE queue[c]
  BY <1>1, <1>2 DEF IInv, TypeOK
<1>6. TypeOK'
  <2>1. at' \in [Turn -> {"new", "locked", "model", "tools", "failed", "done"}]
    BY <1>1 DEF IInv, TypeOK
  <2>2. chat' \in [Turn -> Chat \cup {NoChat}] /\ queue' \in [Chat -> Seq(Turn)]
    BY <1>1, <1>2, <1>4 DEF IInv, TypeOK
  <2> QED BY <1>1, <2>1, <2>2, BuildInv, ActivateInv DEF IInv, TypeOK
<1>7. LockInv'
  <2>1. ASSUME NEW u \in Turn, at'[u] # "new"
        PROVE  chat'[u] \in Chat /\ chat'[u][1] <= Len(built')
    <3>1. CASE u = t
      BY <1>2, <1>3, <3>1
    <3>2. CASE u # t
      <4>1. chat'[u] \in Chat /\ chat'[u][1] <= Len(built)
        BY <1>3, <2>1, <3>2 DEF IInv, LockInv
      <4>2. Len(built) <= Len(built') /\ Len(built) \in Nat /\ Len(built') \in Nat
        BY <1>1, BuildInv DEF IInv, TypeOK
      <4>3. chat'[u][1] \in Int
        BY <4>1 DEF Chat, Controller
      <4> QED BY <4>1, <4>2, <4>3
    <3> QED BY <3>1, <3>2
  <2>2. \A c \in Chat : Distinct(queue'[c])
    BY <1>4, <1>5 DEF IInv, LockInv
  <2>3. ASSUME NEW c \in Chat, NEW u \in Turn
        PROVE  Waits(queue'[c], u) <=> u \in InFlight' /\ chat'[u] = c
    BY <1>2, <1>3, <1>4, <1>5, QueueOf DEF IInv
  <2>4. ASSUME NEW u \in Turn, Entered(u)' PROVE HoldsLock(u)'
    <3>1. Entered(u) /\ u # t /\ chat'[u] = chat[u] /\ HoldsLock(u) /\ chat[u] \in Chat
      BY <1>3, <2>4 DEF IInv, LockInv, Entered
    <3> QED BY <1>4, <1>5, <3>1 DEF HoldsLock
  <2> HIDE DEF Distinct, Waits, Entered, HoldsLock
  <2> QED BY <1>6, <2>1, <2>2, <2>3, <2>4, LockFromQueues
<1>8. TalkInv'
  <2>1. \A c \in Chat : \A u \in In(history[c]) : at'[u] = "done" /\ chat'[u] = c
    <3>1. \A c \in Chat : \A u \in In(history[c]) : u \in Turn /\ at[u] = "done" /\ chat[u] = c
      BY InTurns DEF IInv, TalkInv, TypeOK
    <3> QED BY <1>1, <1>3, <3>1
  <2>2. ASSUME NEW u \in Turn, Entered(u)'
        PROVE  /\ Open(messages[u], u, calls[u])
               /\ In(history[chat'[u]]) \subseteq In(messages[u])
               /\ \A v \in In(messages[u]) : v = u \/ (at'[v] = "done" /\ chat'[v] = chat'[u])
    <3>1. Entered(u) /\ u # t /\ at'[u] = at[u] /\ chat'[u] = chat[u]
      BY <1>3, <2>2
    <3>2. \A v \in In(messages[u]) : v \in Turn /\ (v = u \/ (at[v] = "done" /\ chat[v] = chat[u]))
      BY <3>1, InTurns DEF IInv, TalkInv, TypeOK
    <3>3. \A v \in In(messages[u]) : v = u \/ (at'[v] = "done" /\ chat'[v] = chat'[u])
      BY <1>1, <1>3, <3>1, <3>2
    <3> QED BY <3>1, <3>3 DEF IInv, TalkInv
  <2>3. \A u \in Turn : at'[u] = "done" => u \in In(history[chat'[u]]) \cup cleared[chat'[u]]
    BY <1>3 DEF IInv, TalkInv
  <2> QED BY <1>1, <2>1, <2>2, <2>3 DEF IInv, TalkInv
<1>9. CallsInv'
  BY <1>1, <1>3 DEF IInv, CallsInv
<1>10. AuthorInv'
  <2>1. \A u \in InFlight : u \notin overtaken' => active'[chat[u][1]] = chat[u][2]
    BY <1>1, BuildInv, ActivateInv DEF IInv
  <2>2. active'[chat'[t][1]] = chat'[t][2]
    BY <1>1, <1>2, <1>3, BuildInv, ActivateInv DEF IInv
  <2> QED BY <1>3, <2>1, <2>2 DEF AuthorInv, InFlight
<1> QED BY <1>2, <1>3, <1>6, <1>7, <1>8, <1>9, <1>10 DEF IInv
-----------------------------------------------------------------------------
\* The turn that holds the lock goes on with its exchange.
LEMMA ExchangeInv ==
  ASSUME IInv, TypeOK', NEW t \in InFlight, HoldsLock(t), NEW place \in {"model", "tools"},
         Goto(t, place), NEW m \in Seq(Message), NEW n \in Nat,
         messages' = [messages EXCEPT ![t] = m], calls' = [calls EXCEPT ![t] = n],
         UNCHANGED <<core, active, history, queue, chat, cleared, overtaken>>,
         Open(m, t, n), IF place = "model" THEN n = 0 ELSE n > 0,
         In(history[chat[t]]) \subseteq In(m),
         \A u \in In(m) : u = t \/ (at[u] = "done" /\ chat[u] = chat[t])
  PROVE  IInv'
<1>1. /\ t \in Turn /\ at'[t] = place /\ messages'[t] = m /\ calls'[t] = n
      /\ at[t] # "done" /\ at[t] # "new" /\ at'[t] # "done" /\ at'[t] # "new"
      /\ \A u \in Turn \ {t} : at'[u] = at[u] /\ messages'[u] = messages[u] /\ calls'[u] = calls[u]
      /\ InFlight' = InFlight
      /\ \A u \in Turn \ {t} : Entered(u)' <=> Entered(u)
  BY DEF IInv, TypeOK, InFlight, Goto, Entered
<1>2. UNCHANGED <<setting, vault, provider, built, current, active, history, queue, chat, cleared,
                  overtaken>>
  BY DEF core
<1>3. CoreInv' /\ AuthorInv'
  BY <1>1, <1>2 DEF IInv, CoreInv, AuthorInv
<1>0. CallsInv'
  BY <1>1 DEF IInv, CallsInv
<1>4. LockInv'
  <2>1. ASSUME NEW u \in Turn, Entered(u)' PROVE HoldsLock(u)'
    <3>1. HoldsLock(u)
      BY <1>1, <2>1 DEF IInv, LockInv
    <3> QED BY <1>2, <3>1 DEF HoldsLock
  <2>2. \A u \in Turn : at'[u] # "new" => at[u] # "new"
    BY <1>1
  <2> QED BY <1>1, <1>2, <2>1, <2>2 DEF IInv, LockInv
<1>5. TalkInv'
  <2>1. \A u \in Turn : at[u] = "done" <=> at'[u] = "done"
    BY <1>1
  <2>2. \A c \in Chat : \A u \in In(history'[c]) : at'[u] = "done" /\ chat'[u] = c
    <3>1. \A c \in Chat : \A u \in In(history[c]) : u \in Turn /\ at[u] = "done" /\ chat[u] = c
      BY InTurns DEF IInv, TalkInv, TypeOK
    <3> QED BY <1>2, <2>1, <3>1
  <2>3. ASSUME NEW u \in Turn, Entered(u)'
        PROVE  /\ Open(messages'[u], u, calls'[u])
               /\ In(history'[chat'[u]]) \subseteq In(messages'[u])
               /\ \A v \in In(messages'[u]) : v = u \/ (at'[v] = "done" /\ chat'[v] = chat'[u])
    <3>1. CASE u = t
      <4>1. \A v \in In(m) : v \in Turn
        BY InTurns
      <4> QED BY <1>1, <1>2, <2>1, <3>1, <4>1
    <3>2. CASE u # t
      <4>1. Entered(u) /\ messages'[u] = messages[u] /\ calls'[u] = calls[u] /\ at'[u] = at[u]
        BY <1>1, <2>3, <3>2
      <4>2. \A v \in In(messages[u]) : v \in Turn
        BY InTurns DEF IInv, TypeOK
      <4> QED BY <1>2, <2>1, <4>1, <4>2 DEF IInv, TalkInv
    <3> QED BY <3>1, <3>2
  <2>4. \A u \in Turn : at'[u] = "done" => u \in In(history'[chat'[u]]) \cup cleared'[chat'[u]]
    BY <1>2, <2>1 DEF IInv, TalkInv
  <2> QED BY <1>2, <2>2, <2>3, <2>4 DEF IInv, TalkInv
<1> QED BY <1>0, <1>3, <1>4, <1>5 DEF IInv

LEMMA EnterInv ==
  ASSUME IInv, NEW t \in Turn, Enter(t)
  PROVE  IInv'
<1> DEFINE m == Append(history[chat[t]], Says(t, "user"))
<1>1. /\ at[t] = "locked" /\ t \in InFlight /\ HoldsLock(t)
      /\ messages' = [messages EXCEPT ![t] = m] /\ Goto(t, "model")
      /\ left' = [left EXCEPT ![t] = MaxIterations]
      /\ UNCHANGED <<core, active, history, queue, chat, calls, cleared, overtaken>>
  BY DEF Enter, MayEnter, InFlight
<1>2. /\ chat[t] \in Chat /\ history[chat[t]] \in Seq(Message)
      /\ Closed(history[chat[t]])
      /\ \A u \in In(history[chat[t]]) : at[u] = "done" /\ chat[u] = chat[t]
  BY <1>1 DEF IInv, TypeOK, LockInv, TalkInv
<1>3. Says(t, "user") \in Message /\ Says(t, "user").turn = t
  BY DEF Says, Message
<1>4. m \in Seq(Message) /\ Open(m, t, 0) /\ In(m) = In(history[chat[t]]) \cup {t}
  BY <1>1, <1>2, <1>3, UserOpens, InAppend
<1> HIDE DEF m
<1>5. TypeOK'
  BY <1>1, <1>4, ChatAssumption DEF IInv, TypeOK, Goto, core
<1>6. calls' = [calls EXCEPT ![t] = 0]
  BY <1>1 DEF IInv, TypeOK, CallsInv
<1> QED BY <1>1, <1>2, <1>4, <1>5, <1>6, ExchangeInv

LEMMA WantsToolsInv ==
  ASSUME IInv, NEW t \in Turn, NEW n \in Calls, WantsTools(t, n)
  PROVE  IInv'
<1> DEFINE m == Append(messages[t], Asks(t, n))
<1>1. /\ at[t] = "model" /\ t \in InFlight /\ HoldsLock(t) /\ Entered(t) /\ left[t] > 0
      /\ messages' = [messages EXCEPT ![t] = m] /\ Goto(t, "tools")
      /\ left' = [left EXCEPT ![t] = @ - 1] /\ calls' = [calls EXCEPT ![t] = n]
      /\ UNCHANGED <<core, active, history, queue, chat, cleared, overtaken>>
  BY DEF WantsTools, InFlight, Entered, IInv, LockInv
<1>2. /\ messages[t] \in Seq(Message) /\ Open(messages[t], t, 0)
      /\ In(history[chat[t]]) \subseteq In(messages[t])
      /\ \A u \in In(messages[t]) : u = t \/ (at[u] = "done" /\ chat[u] = chat[t])
  <2>1. messages[t] \in Seq(Message) /\ calls[t] = 0
    BY <1>1 DEF IInv, TypeOK, CallsInv
  <2> QED BY <1>1, <2>1 DEF IInv, TalkInv
<1>3. Asks(t, n) \in Message /\ Asks(t, n).turn = t /\ n \in Nat /\ n > 0
  BY ChatAssumption DEF Asks, Message
<1>4. m \in Seq(Message) /\ Open(m, t, n) /\ In(m) = In(messages[t]) \cup {t}
  BY <1>2, <1>3, CallOpens, InAppend
<1> HIDE DEF m
<1>5. TypeOK'
  <2>1. left' \in [Turn -> 0 .. MaxIterations]
    BY <1>1, ChatAssumption DEF IInv, TypeOK
  <2>2. at' \in [Turn -> {"new", "locked", "model", "tools", "failed", "done"}]
    BY <1>1 DEF IInv, TypeOK, Goto
  <2> QED BY <1>1, <1>3, <1>4, <2>1, <2>2 DEF IInv, TypeOK, core
<1> QED BY <1>1, <1>2, <1>3, <1>4, <1>5, ExchangeInv

LEMMA ToolReturnsInv ==
  ASSUME IInv, NEW t \in Turn, ToolReturns(t)
  PROVE  IInv'
<1> DEFINE m == Append(messages[t], Says(t, "tool"))
           n == calls[t] - 1
           place == IF calls[t] = 1 THEN "model" ELSE "tools"
<1>1. /\ at[t] = "tools" /\ t \in InFlight /\ HoldsLock(t) /\ Entered(t)
      /\ messages' = [messages EXCEPT ![t] = m] /\ Goto(t, place)
      /\ calls' = [calls EXCEPT ![t] = n]
      /\ UNCHANGED <<core, active, history, queue, chat, left, cleared, overtaken>>
  BY DEF ToolReturns, InFlight, Entered, IInv, LockInv
<1>2. /\ messages[t] \in Seq(Message) /\ calls[t] \in Nat \ {0} /\ Open(messages[t], t, calls[t])
      /\ In(history[chat[t]]) \subseteq In(messages[t])
      /\ \A u \in In(messages[t]) : u = t \/ (at[u] = "done" /\ chat[u] = chat[t])
  BY <1>1 DEF IInv, TypeOK, TalkInv, CallsInv
<1>3. Says(t, "tool") \in Message /\ Says(t, "tool").turn = t
  BY DEF Says, Message
<1>4. m \in Seq(Message) /\ Open(m, t, n) /\ In(m) = In(messages[t]) \cup {t}
  BY <1>2, <1>3, ToolKeepsOpen, InAppend
<1>5. n \in Nat /\ place \in {"model", "tools"} /\ IF place = "model" THEN n = 0 ELSE n > 0
  BY <1>2
<1> HIDE DEF m, n, place
<1>6. TypeOK'
  <2>1. at' \in [Turn -> {"new", "locked", "model", "tools", "failed", "done"}]
    BY <1>1, <1>5 DEF IInv, TypeOK, Goto
  <2> QED BY <1>1, <1>4, <1>5, <2>1 DEF IInv, TypeOK, core
<1> QED BY <1>1, <1>2, <1>4, <1>5, <1>6, ExchangeInv
-----------------------------------------------------------------------------
\* The turn that holds the lock ends, with its reply in the history or without.
LEMMA LeaveInv ==
  ASSUME IInv, NEW t \in Turn, at[t] = "model", Release(t), Discard(t),
         NEW place \in {"done", "failed"}, Goto(t, place), UNCHANGED <<core, active, chat, cleared>>,
         NEW h \in Seq(Message), history' = [history EXCEPT ![chat[t]] = h], Closed(h),
         In(history[chat[t]]) \subseteq In(h),
         \A u \in In(h) : (u = t /\ place = "done") \/ (at[u] = "done" /\ chat[u] = chat[t]),
         place = "done" => t \in In(h)
  PROVE  IInv'
<1> DEFINE home == chat[t]
           q == queue[home]
<1>1. /\ at'[t] = place /\ at' = [at EXCEPT ![t] = place] /\ t \in InFlight /\ t \notin InFlight'
      /\ ~Entered(t)' /\ Entered(t)
      /\ \A u \in Turn \ {t} : at'[u] = at[u]
      /\ \A u \in Turn \ {t} : u \in InFlight' <=> u \in InFlight
      /\ \A u \in Turn \ {t} : Entered(u)' <=> Entered(u)
  BY DEF IInv, TypeOK, InFlight, Entered, Goto
<1>2. /\ UNCHANGED <<setting, vault, provider, built, current, active, chat, cleared>>
      /\ queue' = [queue EXCEPT ![home] = Tail(q)]
      /\ messages' = [messages EXCEPT ![t] = <<>>]
      /\ left' = [left EXCEPT ![t] = 0] /\ calls' = [calls EXCEPT ![t] = 0]
      /\ overtaken' = overtaken \ {t}
  BY DEF core, Release, Discard
<1>3. home \in Chat /\ q \in Seq(Turn) /\ q # <<>> /\ Head(q) = t /\ Distinct(q)
  BY <1>1 DEF IInv, TypeOK, LockInv, HoldsLock
<1> HIDE DEF home, q
<1>4. /\ Tail(q) \in Seq(Turn) /\ Distinct(Tail(q))
      /\ \A u \in Turn : Waits(Tail(q), u) <=> Waits(q, u) /\ u # t
  BY <1>3, QueueMoves
<1>5. /\ \A c \in Chat : queue'[c] = IF c = home THEN Tail(q) ELSE queue[c]
      /\ \A c \in Chat : history'[c] = IF c = home THEN h ELSE history[c]
  BY <1>2, <1>3 DEF IInv, TypeOK, home
<1>6. TypeOK'
  <2>1. at' \in [Turn -> {"new", "locked", "model", "tools", "failed", "done"}]
    BY <1>1 DEF IInv, TypeOK
  <2>2. queue' \in [Chat -> Seq(Turn)]
    BY <1>2, <1>4 DEF IInv, TypeOK
  <2>3. history' \in [Chat -> Seq(Message)]
    BY DEF IInv, TypeOK
  <2>4. messages' \in [Turn -> Seq(Message)]
    <3>1. <<>> \in Seq(Message) /\ messages \in [Turn -> Seq(Message)]
      BY DEF IInv, TypeOK
    <3> QED BY <1>2, <3>1
  <2>5. left' \in [Turn -> 0 .. MaxIterations] /\ calls' \in [Turn -> Nat]
    BY <1>2, ChatAssumption DEF IInv, TypeOK
  <2> QED BY <1>2, <2>1, <2>2, <2>3, <2>4, <2>5 DEF IInv, TypeOK
<1>7. CoreInv' /\ CallsInv' /\ AuthorInv'
  <2>1. CallsInv'
    BY <1>1, <1>2 DEF IInv, TypeOK, CallsInv
  <2>2. ASSUME NEW u \in InFlight', u \notin overtaken' PROVE active'[chat'[u][1]] = chat'[u][2]
    <3>1. u \in Turn \ {t} /\ u \in InFlight /\ u \notin overtaken
      BY <1>1, <1>2, <2>2 DEF InFlight
    <3> QED BY <1>2, <3>1 DEF IInv, AuthorInv
  <2> QED BY <1>2, <2>1, <2>2 DEF IInv, CoreInv, AuthorInv
<1>8. LockInv'
  <2>1. \A u \in Turn : at'[u] # "new" => chat'[u] \in Chat /\ chat'[u][1] <= Len(built')
    BY <1>1, <1>2 DEF IInv, LockInv, Entered
  <2>2. \A c \in Chat : Distinct(queue'[c])
    BY <1>4, <1>5 DEF IInv, LockInv
  <2>3. ASSUME NEW c \in Chat, NEW u \in Turn
        PROVE  Waits(queue'[c], u) <=> u \in InFlight' /\ chat'[u] = c
    <3>1. Waits(queue[c], u) <=> u \in InFlight /\ chat[u] = c
      BY QueueOf DEF IInv
    <3>2. u = t => (chat[u] = c <=> c = home)
      BY DEF home
    <3> QED BY <1>1, <1>2, <1>4, <1>5, <3>1, <3>2 DEF q
  <2>4. ASSUME NEW u \in Turn, Entered(u)' PROVE HoldsLock(u)'
    <3>1. u # t /\ Entered(u) /\ HoldsLock(u) /\ chat[u] \in Chat
      BY <1>1, <2>4 DEF IInv, LockInv, Entered
    <3>2. chat[u] # home
      BY <1>3, <3>1 DEF HoldsLock, q
    <3> QED BY <1>2, <1>5, <3>1, <3>2 DEF HoldsLock
  <2> HIDE DEF Distinct, Waits, Entered, HoldsLock
  <2> QED BY <1>6, <2>1, <2>2, <2>3, <2>4, LockFromQueues
<1>9. TalkInv'
  <2>1. /\ \A u \in Turn : at[u] = "done" => at'[u] = "done"
        /\ \A u \in Turn \ {t} : at'[u] = "done" => at[u] = "done"
        /\ at'[t] = "done" => place = "done"
    BY <1>1
  <2>2. \A c \in Chat : Closed(history'[c])
    BY <1>5 DEF IInv, TalkInv
  <2>3. ASSUME NEW c \in Chat, NEW u \in In(history'[c])
        PROVE  at'[u] = "done" /\ chat'[u] = c
    <3>1. CASE c = home
      <4>1. u \in In(h) /\ u \in Turn
        BY <1>5, <2>3, <3>1, InTurns
      <4> QED BY <1>1, <1>2, <2>1, <3>1, <4>1 DEF home
    <3>2. CASE c # home
      <4>1. u \in Turn /\ at[u] = "done" /\ chat[u] = c
        BY <1>5, <2>3, <3>2, InTurns DEF IInv, TypeOK, TalkInv
      <4> QED BY <1>2, <2>1, <4>1
    <3> QED BY <3>1, <3>2
  <2>4. ASSUME NEW u \in Turn, Entered(u)'
        PROVE  /\ Open(messages'[u], u, calls'[u])
               /\ In(history'[chat'[u]]) \subseteq In(messages'[u])
               /\ \A v \in In(messages'[u]) : v = u \/ (at'[v] = "done" /\ chat'[v] = chat'[u])
    <3>1. u # t /\ Entered(u) /\ HoldsLock(u) /\ chat[u] \in Chat
      BY <1>1, <2>4 DEF IInv, LockInv, Entered
    <3>2. chat[u] # home
      BY <1>3, <3>1 DEF HoldsLock, q
    <3>3. messages'[u] = messages[u] /\ calls'[u] = calls[u] /\ history'[chat'[u]] = history[chat[u]]
      BY <1>2, <1>5, <3>1, <3>2 DEF IInv, TypeOK
    <3>4. /\ Open(messages[u], u, calls[u]) /\ In(history[chat[u]]) \subseteq In(messages[u])
          /\ \A v \in In(messages[u]) : v = u \/ (at[v] = "done" /\ chat[v] = chat[u])
      BY <3>1 DEF IInv, TalkInv
    <3>5. \A v \in In(messages[u]) : v \in Turn
      BY InTurns DEF IInv, TypeOK
    <3>6. chat'[u] = chat[u] /\ \A v \in Turn : chat'[v] = chat[v]
      BY <1>2
    <3>7. \A v \in In(messages[u]) : v = u \/ (at'[v] = "done" /\ chat'[v] = chat'[u])
      BY <2>1, <3>4, <3>5, <3>6
    <3> QED BY <3>3, <3>4, <3>7
  <2>5. ASSUME NEW u \in Turn, at'[u] = "done"
        PROVE  u \in In(history'[chat'[u]]) \cup cleared'[chat'[u]]
    <3>1. CASE u = t
      BY <1>2, <1>3, <1>5, <2>1, <2>5, <3>1 DEF home
    <3>2. CASE u # t
      <4>1. chat[u] \in Chat /\ u \in In(history[chat[u]]) \cup cleared[chat[u]]
        BY <2>1, <2>5, <3>2 DEF IInv, TalkInv, LockInv
      <4>2. chat[u] = home => In(history[chat[u]]) \subseteq In(h)
        BY DEF home
      <4> QED BY <1>2, <1>5, <4>1, <4>2
    <3> QED BY <3>1, <3>2
  <2> QED BY <2>2, <2>3, <2>4, <2>5 DEF TalkInv
<1> QED BY <1>6, <1>7, <1>8, <1>9 DEF IInv

LEMMA ReplyInv ==
  ASSUME IInv, NEW t \in Turn, Reply(t)
  PROVE  /\ IInv' /\ \A a \in Chat : history'[a] # history[a] => a = chat[t]
         /\ t \notin overtaken => Author(t) = chat[t][2]
<1> DEFINE h == Append(messages[t], Says(t, "assistant"))
<1>1. /\ at[t] = "model" /\ Entered(t) /\ t \in InFlight /\ Release(t) /\ Discard(t)
      /\ history' = [history EXCEPT ![chat[t]] = h]
      /\ Goto(t, "done") /\ UNCHANGED <<core, active, chat, cleared>>
  BY DEF Reply, Home, Entered, InFlight
<1>2. messages[t] \in Seq(Message) /\ calls[t] = 0 /\ history \in [Chat -> Seq(Message)]
  BY <1>1 DEF IInv, TypeOK, CallsInv
<1>3. /\ Open(messages[t], t, 0) /\ In(history[chat[t]]) \subseteq In(messages[t])
      /\ \A u \in In(messages[t]) : u = t \/ (at[u] = "done" /\ chat[u] = chat[t])
  BY <1>1, <1>2 DEF IInv, TalkInv
<1>4. Says(t, "assistant") \in Message /\ Says(t, "assistant").turn = t
  BY DEF Says, Message
<1>5. h \in Seq(Message) /\ Closed(h) /\ In(h) = In(messages[t]) \cup {t}
  BY <1>2, <1>3, <1>4, ReplyCloses, InAppend
<1> HIDE DEF h
<1>6. IInv'
  BY <1>1, <1>3, <1>5, LeaveInv
<1>7. \A a \in Chat : history'[a] # history[a] => a = chat[t]
  BY <1>1, <1>2
<1>8. t \notin overtaken => Author(t) = chat[t][2]
  BY <1>1 DEF IInv, AuthorInv, Author, Home
<1> QED BY <1>6, <1>7, <1>8

LEMMA FailInv ==
  ASSUME IInv, NEW t \in Turn, Fail(t)
  PROVE  IInv'
<1> DEFINE h == history[chat[t]]
<1>1. /\ at[t] = "model" /\ Entered(t) /\ Release(t) /\ Discard(t)
      /\ Goto(t, "failed") /\ UNCHANGED <<core, active, history, chat, cleared>>
  BY DEF Fail, Entered
<1>2. chat[t] \in Chat /\ h \in Seq(Message) /\ Closed(h)
  BY <1>1 DEF IInv, LockInv, TypeOK, TalkInv
<1>3. \A u \in In(h) : at[u] = "done" /\ chat[u] = chat[t]
  BY <1>2 DEF IInv, TalkInv
<1>4. history' = [history EXCEPT ![chat[t]] = h]
  BY <1>1 DEF IInv, TypeOK
<1> HIDE DEF h
<1>5. In(history[chat[t]]) \subseteq In(h)
  BY DEF h
<1> QED BY <1>1, <1>2, <1>3, <1>4, <1>5, LeaveInv

\* In the words of the properties.
LEMMA NextInv ==
  ASSUME IInv, [Next]_vars
  PROVE  IInv'
<1>1. ASSUME NEW a \in Agent, Select(a) \/ Clear(a) PROVE IInv'
  BY <1>1, SelectInv, ClearInv
<1>2. CASE VaultInit \/ AuthPersist
  BY <1>2, SettingInv
<1>3. ASSUME NEW t \in Turn, NEW a \in Agent, Send(t, a) PROVE IInv'
  BY <1>3, SendInv
<1>4. ASSUME NEW t \in Turn,
             \/ Enter(t) \/ (\E n \in Calls : WantsTools(t, n)) \/ ToolReturns(t)
             \/ Reply(t) \/ Fail(t)
      PROVE  IInv'
  BY <1>4, EnterInv, WantsToolsInv, ToolReturnsInv, ReplyInv, FailInv
<1>5. CASE UNCHANGED vars
  <2>1. UNCHANGED <<setting, vault, provider, built, current, active, history, queue, at, chat,
                    messages, left, calls, cleared, overtaken>>
    BY <1>5 DEF vars, core
  <2>2. TypeOK' /\ CoreInv'
    BY <2>1 DEF IInv, TypeOK, CoreInv
  <2>3. Len(built) <= Len(built')
    BY <2>1 DEF IInv, TypeOK
  <2> QED BY <2>1, <2>2, <2>3, LockKept, CallsKept, TalkKept, AuthorKept DEF IInv
<1> QED BY <1>1, <1>2, <1>3, <1>4, <1>5 DEF Next

LEMMA InitInv == Init => IInv
<1> SUFFICES ASSUME Init PROVE IInv
  OBVIOUS
<1>1. /\ MaxBuilt \in Nat \ {0} /\ MaxIterations \in Nat
      /\ <<>> \in Seq(Setting) /\ <<>> \in Seq(Turn) /\ <<>> \in Seq(Message) /\ Len(<<>>) = 0
  BY ChatAssumption
<1>2. TypeOK
  <2>1. built \in Seq(Setting) /\ current = 0 /\ setting \in Setting
    BY <1>1 DEF Init, Setting
  <2>2. /\ history \in [Chat -> Seq(Message)] /\ queue \in [Chat -> Seq(Turn)]
        /\ messages \in [Turn -> Seq(Message)]
    BY <1>1 DEF Init
  <2>3. /\ active \in [Controller -> Agent \cup {None}] /\ chat \in [Turn -> Chat \cup {NoChat}]
        /\ cleared \in [Chat -> SUBSET Turn] /\ left \in [Turn -> 0 .. MaxIterations]
        /\ calls \in [Turn -> Nat] /\ overtaken \subseteq Turn
        /\ at \in [Turn -> {"new", "locked", "model", "tools", "failed", "done"}]
    BY <1>1 DEF Init
  <2> QED BY <2>1, <2>2, <2>3 DEF Init, TypeOK
<1>3. CoreInv
  BY <1>1 DEF Init, CoreInv
<1>4. LockInv
  BY DEF Init, LockInv, Distinct, Entered, InFlight
<1>5. CallsInv /\ AuthorInv
  BY DEF Init, CallsInv, AuthorInv, InFlight
<1>6. TalkInv
  BY DEF Init, TalkInv, Entered, In, Closed, Alternates, Answered, OnlyCallsAsk
<1> QED BY <1>2, <1>3, <1>4, <1>5, <1>6 DEF IInv

LEMMA InvHolds == Spec => []IInv
BY InitInv, NextInv, PTL DEF Spec

LEMMA ClosedIsWhole ==
  ASSUME NEW s \in Seq(Message), Closed(s)
  PROVE  Whole(s)
<1>1. Len(s) \in Nat /\ (s # <<>> => Len(s) >= 1) /\ Last(s) = s[Len(s)]
  BY DEF Last
<1>2. ASSUME NEW i \in 1 .. Len(s) - 1, NEW k \in 1 .. s[i].asks
      PROVE  i + k <= Len(s) /\ s[i + k].role = "tool"
  <2>1. i \in 1 .. Len(s) /\ k \in Int
    BY <1>1
  <2> QED BY <1>1, <1>2, <2>1 DEF Closed, Answered
<1> QED BY <1>1, <1>2 DEF Closed, Whole, Alternates

\* However the sends, the failures and the clears interleave, the history of every
\* agent of every controller is a conversation: the lock of the agent is what keeps
\* the copy a turn works on and the history it replaces from drifting apart.
THEOREM Conversations == Spec => []HistoryWhole
<1>1. IInv => HistoryWhole
  BY ClosedIsWhole DEF IInv, TypeOK, TalkInv, HistoryWhole
<1> QED BY <1>1, InvHolds, PTL

\* A failed turn is in no history and an answered one stays until it is cleared.
THEOREM Remembered == Spec => []AnsweredIsRemembered
<1>1. ASSUME IInv, NEW t \in Turn, at[t] = "failed" PROVE t \notin In(history[chat[t]])
  <2>1. chat[t] \in Chat
    BY <1>1 DEF IInv, LockInv
  <2> QED BY <1>1, <2>1 DEF IInv, TalkInv
<1>2. IInv => AnsweredIsRemembered
  BY <1>1 DEF IInv, TalkInv, AnsweredIsRemembered
<1> QED BY <1>2, InvHolds, PTL

\* A turn is sent with the vault and the key that are set, its reply changes the
\* history of its own chat only, and names the agent it was sent to unless another
\* was selected with that controller meanwhile.
THEOREM RepliesGoHome == Spec => TurnStaysHome
<1> DEFINE Stays(t) ==
      /\ at[t] = "new" /\ at'[t] = "locked" => built'[chat'[t][1]] = setting
      /\ at[t] # "done" /\ at'[t] = "done" =>
           /\ \A a \in Chat : history'[a] # history[a] => a = chat[t]
           /\ t \notin overtaken => Author(t) = chat[t][2]
<1>1. ASSUME IInv, Next, NEW t \in Turn PROVE Stays(t)
  <2>0. at \in [Turn -> {"new", "locked", "model", "tools", "failed", "done"}]
    BY <1>1 DEF IInv, TypeOK
  <2>1. ASSUME NEW a \in Agent, Select(a) \/ Clear(a) PROVE at' = at
    BY <2>1 DEF Select, Clear
  <2>2. CASE VaultInit \/ AuthPersist
    BY <2>2 DEF VaultInit, AuthPersist
  <2>3. ASSUME NEW u \in Turn, NEW a \in Agent, Send(u, a) PROVE Stays(t)
    <3>1. at' = [at EXCEPT ![u] = "locked"] /\ built'[chat'[u][1]] = setting
      BY <1>1, <2>3, SendInv DEF Send, Goto
    <3>2. CASE t = u
      BY <2>0, <3>1, <3>2
    <3>3. CASE t # u
      BY <2>0, <3>1, <3>3
    <3> QED BY <3>2, <3>3
  <2>4. ASSUME NEW u \in Turn, Enter(u) \/ (\E n \in Calls : WantsTools(u, n)) \/ ToolReturns(u)
        PROVE  Stays(t)
    <3>1. \E place \in {"model", "tools"} : at' = [at EXCEPT ![u] = place]
      BY <2>4 DEF Enter, WantsTools, ToolReturns, Goto
    <3>2. at'[t] \in {at[t], "model", "tools"}
      BY <2>0, <3>1
    <3> QED BY <3>2
  <2>5. ASSUME NEW u \in Turn, Reply(u) PROVE Stays(t)
    <3>1. at' = [at EXCEPT ![u] = "done"]
      BY <2>5 DEF Reply, Goto
    <3>2. CASE t = u
      BY <1>1, <2>0, <2>5, <3>1, <3>2, ReplyInv
    <3>3. CASE t # u
      BY <2>0, <3>1, <3>3
    <3> QED BY <3>2, <3>3
  <2>6. ASSUME NEW u \in Turn, Fail(u) PROVE Stays(t)
    <3>1. at' = [at EXCEPT ![u] = "failed"]
      BY <2>6 DEF Fail, Goto
    <3>2. at'[t] \in {at[t], "failed"}
      BY <2>0, <3>1
    <3> QED BY <3>2
  <2> QED BY <1>1, <2>1, <2>2, <2>3, <2>4, <2>5, <2>6 DEF Next
<1>2. IInv /\ [Next]_vars => [\A t \in Turn : Stays(t)]_vars
  BY <1>1
<1> QED BY <1>2, InvHolds, PTL DEF Spec, TurnStaysHome
=============================================================================
