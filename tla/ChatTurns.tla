------------------------------ MODULE ChatTurns ------------------------------
(***************************************************************************)
(* Chat with the agents of a vault: the bridge's chat handlers             *)
(* (bridge/server.py), AgentChatController (chat.py) with its lock per     *)
(* agent, and the tool loop of a Session (session.py).                     *)
(*                                                                         *)
(* A turn is one chat.send request.  A message is abstracted to its role   *)
(* and the turn it belongs to; "call" is an assistant message that asks    *)
(* for that many tools.  The bridge builds its controller when a request   *)
(* needs one, from the vault and the provider it keeps; vault.init and     *)
(* auth.persist make it forget one of these, and the controller with it.   *)
(* The next controller has no history, while the turns of the old one go   *)
(* on with it.                                                             *)
(***************************************************************************)
EXTENDS Naturals, SequencesExt, FiniteSets

CONSTANTS Agent,          \* the agents of the vault
          Turn,           \* the chat.send requests, numbered as they arrive
          MaxIterations,  \* MAX_TOOL_ITERATIONS
          Calls,          \* bound: how many tools one assistant message may ask for
          MaxBuilt,       \* bound: controllers built
          None            \* no agent selected, nothing kept

ASSUME ChatAssumption ==
    /\ MaxIterations \in Nat \ {0}
    /\ Calls \subseteq Nat \ {0}
    /\ MaxBuilt \in Nat \ {0}
    /\ None \notin Agent
    /\ Turn \subseteq Nat

Controller == 1 .. MaxBuilt
Chat == Controller \X Agent    \* controller.chats[agent]
NoChat == <<0, None>>

\* The vaults the user has had made, and the keys he has stored, counted.
Setting == [vault : 0 .. MaxBuilt - 1, key : 0 .. MaxBuilt - 1]

VARIABLES setting,    \* the vault and the key to be used from now on
          vault,      \* self._vault
          provider,   \* self._provider, by its key
          built,      \* the controllers built so far, by what they were built from
          current,    \* the one of them self._chat stands for, or 0
          active,     \* controller.active
          history,    \* chats[agent].history
          queue,      \* the turns that hold (first) or await the agent's lock
          at,         \* where each turn is
          chat,       \* the chat a turn was sent to
          messages,   \* session.messages
          left,       \* iterations of the tool loop that are left
          calls,      \* tool calls of the last completion that are left
          cleared,    \* history dropped by chat.clear: the turns in it
          overtaken   \* history: turns in flight when another agent was selected

core == <<setting, vault, provider, built, current>>
session == <<messages, left, calls>>
vars == <<core, active, history, queue, at, chat, messages, left, calls,
          cleared, overtaken>>

Message == [turn : Turn, role : {"user", "call", "tool", "assistant"}, asks : Calls \cup {0}]

TypeOK ==
    /\ setting \in Setting
    /\ vault \in 0 .. MaxBuilt - 1 \cup {None} /\ provider \in 0 .. MaxBuilt - 1 \cup {None}
    /\ built \in Seq(Setting) /\ current \in {0} \cup DOMAIN built
    /\ active \in [Controller -> Agent \cup {None}]
    /\ history \in [Chat -> Seq(Message)]
    /\ queue \in [Chat -> Seq(Turn)]
    /\ at \in [Turn -> {"new", "locked", "model", "tools", "failed", "done"}]
    /\ chat \in [Turn -> Chat \cup {NoChat}]
    /\ messages \in [Turn -> Seq(Message)]
    /\ left \in [Turn -> 0 .. MaxIterations]
    /\ calls \in [Turn -> Nat]
    /\ cleared \in [Chat -> SUBSET Turn]
    /\ overtaken \subseteq Turn

Init ==
    /\ setting = [vault |-> 0, key |-> 0] /\ vault = None /\ provider = None
    /\ built = <<>> /\ current = 0
    /\ active = [c \in Controller |-> None]
    /\ history = [a \in Chat |-> <<>>]
    /\ queue = [a \in Chat |-> <<>>]
    /\ at = [t \in Turn |-> "new"]
    /\ chat = [t \in Turn |-> NoChat]
    /\ messages = [t \in Turn |-> <<>>]
    /\ left = [t \in Turn |-> 0]
    /\ calls = [t \in Turn |-> 0]
    /\ cleared = [a \in Chat |-> {}]
    /\ overtaken = {}

Says(t, role) == [turn |-> t, role |-> role, asks |-> 0]
Asks(t, n) == [turn |-> t, role |-> "call", asks |-> n]
Goto(t, place) == at' = [at EXCEPT ![t] = place]
In(s) == {s[i].turn : i \in DOMAIN s}
HoldsLock(t) == queue[chat[t]] # <<>> /\ Head(queue[chat[t]]) = t
InFlight == {t \in Turn : at[t] \in {"locked", "model", "tools"}}
-----------------------------------------------------------------------------
\* _load_vault and _get_provider
TheVault == IF vault = None THEN setting.vault ELSE vault
TheProvider == IF provider = None THEN setting.key ELSE provider

\* _chat_controller, which every chat request begins with.
ChatController == IF current = 0 THEN Len(built) + 1 ELSE current

Build ==
    /\ current' = ChatController
    /\ IF current # 0 THEN UNCHANGED <<setting, vault, provider, built>>
       ELSE /\ vault' = TheVault /\ provider' = TheProvider
            /\ built' = Append(built, [vault |-> TheVault, key |-> TheProvider])
            /\ UNCHANGED setting

\* The active agent changes under the turns of this controller.
Activate(a) ==
    /\ active' = [active EXCEPT ![ChatController] = a]
    /\ overtaken' = overtaken \cup
                      {t \in InFlight : chat[t][1] = ChatController /\ chat[t][2] # a}

\* chat.select, and the select of a chat.send that names an agent.
Select(a) ==
    /\ Build /\ Activate(a)
    /\ UNCHANGED <<history, queue, at, chat, session, cleared>>

MayChange == setting.vault + setting.key < MaxBuilt - 1

\* vault.init: the new vault replaces whatever was resolved before.
VaultInit ==
    /\ MayChange
    /\ setting' = [setting EXCEPT !.vault = @ + 1]
    /\ vault' = None /\ current' = 0
    /\ UNCHANGED <<provider, built, active, history, queue, at, chat, session, cleared,
                   overtaken>>

\* auth.persist.  Mutant: the controller stays, and with it the old provider.
AuthPersist_KeepsChat ==
    /\ MayChange
    /\ setting' = [setting EXCEPT !.key = @ + 1]
    /\ provider' = None
    /\ UNCHANGED <<vault, built, current, active, history, queue, at, chat, session,
                   cleared, overtaken>>

AuthPersist ==
    /\ MayChange
    /\ setting' = [setting EXCEPT !.key = @ + 1]
    /\ provider' = None /\ current' = 0
    /\ UNCHANGED <<vault, built, active, history, queue, at, chat, session, cleared,
                   overtaken>>

\* chat.send up to the lock: the agent is the active one of this moment.
Send(t, a) ==
    /\ at[t] = "new" /\ \A u \in Turn : u < t => at[u] # "new"
    /\ Build /\ Activate(a)
    /\ chat' = [chat EXCEPT ![t] = <<ChatController, a>>]
    /\ queue' = [queue EXCEPT ![<<ChatController, a>>] = Append(@, t)]
    /\ Goto(t, "locked")
    /\ UNCHANGED <<history, session, cleared>>

\* Mutant: two sends against one chat at a time.
MayEnter_Always(t) == TRUE

MayEnter(t) == HoldsLock(t)

\* Inside the lock: a Session on a copy of the history, and the user's message.
Enter(t) ==
    /\ at[t] = "locked" /\ MayEnter(t)
    /\ messages' = [messages EXCEPT ![t] = Append(history[chat[t]], Says(t, "user"))]
    /\ left' = [left EXCEPT ![t] = MaxIterations]
    /\ Goto(t, "model")
    /\ UNCHANGED <<core, active, history, queue, chat, calls, cleared, overtaken>>

\* The completion asks for n tools.
WantsTools(t, n) ==
    /\ at[t] = "model" /\ left[t] > 0
    /\ messages' = [messages EXCEPT ![t] = Append(@, Asks(t, n))]
    /\ left' = [left EXCEPT ![t] = @ - 1]
    /\ calls' = [calls EXCEPT ![t] = n]
    /\ Goto(t, "tools")
    /\ UNCHANGED <<core, active, history, queue, chat, cleared, overtaken>>

\* Mutant: the loop goes back to the model after the first of several tools.
ToolReturns_First(t) ==
    /\ at[t] = "tools"
    /\ messages' = [messages EXCEPT ![t] = Append(@, Says(t, "tool"))]
    /\ calls' = [calls EXCEPT ![t] = 0]
    /\ Goto(t, "model")
    /\ UNCHANGED <<core, active, history, queue, chat, left, cleared, overtaken>>

\* A tool answers, or its error is the answer.
ToolReturns(t) ==
    /\ at[t] = "tools"
    /\ messages' = [messages EXCEPT ![t] = Append(@, Says(t, "tool"))]
    /\ calls' = [calls EXCEPT ![t] = @ - 1]
    /\ Goto(t, IF calls[t] = 1 THEN "model" ELSE "tools")
    /\ UNCHANGED <<core, active, history, queue, chat, left, cleared, overtaken>>

\* The turn that holds the lock leaves it to the next in the queue.
Release(t) == queue' = [queue EXCEPT ![chat[t]] = Tail(@)]

\* The Session is dropped.
Discard(t) ==
    /\ overtaken' = overtaken \ {t}
    /\ messages' = [messages EXCEPT ![t] = <<>>]
    /\ left' = [left EXCEPT ![t] = 0]
    /\ calls' = [calls EXCEPT ![t] = 0]

\* Mutant of Home and Author: the handler asks the bridge for its controller again.
Home_Current(t) == <<ChatController, chat[t][2]>>

\* The chat a reply is stored in, and the agent it is shown under: the handler
\* reads the active agent again.
Home(t) == chat[t]
Author(t) == active[Home(t)[1]]

\* The completion is the reply: the session's messages become the history, and
\* the lock is released.
Reply(t) ==
    /\ at[t] = "model" /\ left[t] > 0
    /\ history' = [history EXCEPT ![Home(t)] = Append(messages[t], Says(t, "assistant"))]
    /\ Release(t) /\ Discard(t)
    /\ Goto(t, "done")
    /\ UNCHANGED <<core, active, chat, cleared>>

\* Mutant: the lock is not released when the turn raises.
Fail_KeepsLock(t) ==
    /\ at[t] = "model"
    /\ Goto(t, "failed")
    /\ UNCHANGED <<core, active, history, queue, chat, session, cleared, overtaken>>

\* The provider raises, or the tool loop has no iteration left.
Fail(t) ==
    /\ at[t] = "model"
    /\ Release(t) /\ Discard(t)
    /\ Goto(t, "failed")
    /\ UNCHANGED <<core, active, history, chat, cleared>>

\* AgentChatController.clear
Forget(target) ==
    /\ history' = [history EXCEPT ![target] = <<>>]
    /\ cleared' = [cleared EXCEPT ![target] = @ \cup In(history[target])]

\* chat.clear, for a named agent or the active one.
Clear(a) ==
    /\ Build /\ Forget(<<ChatController, a>>)
    /\ UNCHANGED <<active, queue, at, chat, session, overtaken>>

Next ==
    \/ \E a \in Agent : Select(a) \/ Clear(a)
    \/ VaultInit \/ AuthPersist
    \/ \E t \in Turn : \/ \E a \in Agent : Send(t, a)
                       \/ Enter(t)
                       \/ \E n \in Calls : WantsTools(t, n)
                       \/ ToolReturns(t) \/ Reply(t) \/ Fail(t)

\* The provider and the tools answer or time out, and an asyncio.Lock is fair.
Fairness == \A t \in Turn : /\ WF_vars(Enter(t))
                            /\ WF_vars(ToolReturns(t))
                            /\ WF_vars(\/ Reply(t) \/ Fail(t)
                                       \/ \E n \in Calls : WantsTools(t, n))

Spec == Init /\ [][Next]_vars
FairSpec == Spec /\ Fairness
-----------------------------------------------------------------------------
\* What a provider requires of a conversation: each turn runs from one user
\* message to one assistant message without another in between, and a message
\* that asks for n tools is followed by the answers of n tools.
Whole(s) ==
    /\ s # <<>> => s[1].role = "user" /\ Last(s).role = "assistant"
    /\ \A i \in 1 .. Len(s) - 1 :
         /\ s[i].role = "assistant" <=> s[i + 1].role = "user"
         /\ s[i].role = "assistant" <=> s[i].turn # s[i + 1].turn
         /\ \A k \in 1 .. s[i].asks : i + k <= Len(s) /\ s[i + k].role = "tool"

\* However the sends, failures and clears interleave, the history of an agent is
\* a conversation (chat.py:55-57: no user/user/assistant/assistant orderings),
\* and the state is of its type.
HistoryWhole == TypeOK /\ \A a \in Chat : Whole(history[a])

\* A failed turn leaves no trace in the history (chat.py:97-98), and no turn is
\* lost: what was answered is part of the agent's memory until it is cleared,
\* although a later turn replaces the whole history.
AnsweredIsRemembered ==
    \A t \in Turn :
        /\ at[t] = "failed" => t \notin In(history[chat[t]])
        /\ at[t] = "done" => t \in In(history[chat[t]]) \cup cleared[chat[t]]

\* A turn is sent to an agent of the vault and with the key that are set at the
\* time, and it stays with that chat, though another agent be selected and another
\* controller built while it awaits the provider: only that memory changes with a
\* reply, and the reply names the agent it was sent to, unless another was selected
\* with the same controller meanwhile (Bridge._m_vault_init, "leaving it cached meant
\* /agent resolved against the old vault's agents").
TurnStaysHome ==
    [][\A t \in Turn :
         /\ at[t] = "new" /\ at'[t] = "locked" => built'[chat'[t][1]] = setting
         /\ at[t] # "done" /\ at'[t] = "done" =>
              /\ \A a \in Chat : history'[a] # history[a] => a = chat[t]
              /\ t \notin overtaken => Author(t) = chat[t][2]]_vars

\* A turn that was sent is answered or fails, whatever waits for the same agent.
TurnEnds == \A t \in Turn : at[t] = "locked" ~> at[t] \in {"done", "failed"}
=============================================================================
