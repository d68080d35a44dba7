# Avicenna in TLA+

Avicenna writes notes into an Obsidian vault with language models. A Python
backend (`src/avicenna`) runs a pipeline of stages for each note, keeps chats with
the agents of the vault, and speaks JSON lines over two pipes with a terminal
interface in TypeScript (`src/tui`). This directory holds TLA+ models of its
concurrent and fault-prone parts, TLC configurations that check them, and TLAPS
proofs about them. Paths below are relative to the repository; line numbers are
those of the sources beside this directory.

    tlc -workers 2 -config MCEventBus.cfg EventBus.tla
    tlc -workers 2 -config MCNoteEdits.cfg MCNoteEdits.tla
    tlapm NoteRuns_proofs.tla

## 1. The system and its parts

| Part | State | Operations | What is hard about it |
|---|---|---|---|
| Key pool (`keypool.py`) | list of keys, round-robin index, quarantine set | `next`, `quarantine` | shared by every provider call of the process |
| Provider retry loop (`providers/mistral.py`, the same loop in `gemini.py`) | per call: current key, attempt, keys tried, rotations, last error | `complete` | 429, 401, 5xx and timeouts of many calls over one pool; two nested budgets |
| Event bus (`bus.py`) | sequence number, list of bounded queues | `subscribe`, `emit`, `close`, `drain` | back-pressure, cancellation of waiting emitters |
| Pipeline (`pipeline/stage.py`, `run.py`, `stages.py`, `resume.py`, `sections.py`, `preflight.py`) | `RunContext`; on disk the chunks, manifests, resume pointer and notes | a chain of stages, resume, clean-up | kills and cancellations at any point, threads that outlive their run, look-then-write on the disk |
| Chat (`chat.py`, `session.py`) | active agent, history and lock per agent, messages of the turn in flight | `select`, `send`, `clear`, tool loop | turns, selects and clears of several requests interleave at every await, and the controller is replaced under a turn |
| Bridge (`bridge/server.py`) | table of run tasks, cached vault, provider, chat, `_stopping` | one handler per method, event pump, teardown | requests are handled concurrently, a run outlives its request, the pump and its queue outlive the loop |
| Interface (`tui/src/app.ts`, `bridge.ts`) | busy state, active agent, pending requests, the child process | spawn, prompt, Esc, commands, time budgets, stop | late answers and late events of something given up, promises nobody settles |
| Vault index (`vault/index.py`) over the embedding provider (`providers/google_embedding.py`) | note hashes and vectors, in memory and in `index.json`; per call the requests on their way and the list of results | `index`, `rebuild`, `query`, `embed` | edits during the embedding call, failed calls, torn saves, answers out of order |
| Tagging (`stages.py`, `tagging.py`, `vault/registry.py`, `drift.py`, `entities.py`) | per run: registry, mints, attempt; on disk `taxonomy.json` | ladder of attempts, resolve, mint, persist, the `entities` command | several writers of one file, a vocabulary that exists in two copies, repeated persist |
| Note edits (`stages.py`: `_write_back`, transitions, tags written, format, linking) | one note on disk | rewrite under a truncation guard | the note is read before an await and written after it, while the user edits it |
| Note text (`structure.py`, `normalise.py`, `transitions.py`, `linking.py`) | none | passes over the lines of a note | five passes count the same headings and fences, each on its own, and one undoes what another relies on |
| Tools and MCP, settings, routing, CLI, scripts | little or none | | mostly pure functions and I/O |

How they interact. The interface sends requests; the bridge answers short ones in
place and spawns a task for each, and a second task for a note run. A run calls
providers through the retry loop, which takes keys from the pool; it emits events
on the bus; the bridge's pump drains one queue of the bus and writes the events on
the pipe, where the interface uses the last one of a run to free its prompt.
Several section tasks of one run, and a chat turn beside it, share pool and bus.
Runs of different processes share the vault's files and nothing else.

Correctness of each part, in a sentence: the pool is fair and its quarantine
final; a call uses its attempts and ends; an event that is not a log line reaches
every subscriber in order; a note on disk is complete, and work that reached the
disk is in a note or can be resumed; a chat history is always a well-formed
conversation; the prompt is free exactly when nothing it started goes on; the
vocabulary of the vault is only added to, and only with what was meant for it; the
index never answers with a vector of a text that is gone; the late stages add to a
note and lose nothing of it, neither the model's text nor the user's; every promise
of the interface is settled, and no backend outlives it.

## 2. The modules

All models use one grain: a handler of the event loop runs to its next `await` in
one step. Where a kill in the middle of such a stretch leaves something on disk,
the stretch is cut at that place; so are the writes of `last_run.json`,
`index.json` and (by the user) `taxonomy.json` in place. Texts, prompts and payloads are abstracted to
what the properties tell apart.

**KeyRing**: the state of the pool (`index`, `quarantined`) and the arithmetic of the round
robin. A key is its position, the index is kept modulo the number of keys. **KeyPool**: `next`
(`Take`) and `quarantine` as single steps, since the lock in `next` guards code without an await.
**KeyQueue** is what the pool promises: a queue whose first key is served and goes
to its end, and from which a refused key drops out. `KeyPool!ImplementsQueue` is
the refinement: the order of the queue is the distance from the index.

**ProviderRetry**: `complete()` for many calls over one pool. A call is on the wire,
asleep before a rotation, or asleep before a plain retry; `LoopHead` is the code
between waking up and the next request, with its two exits. One turn of
`RateLimitRotate` that finds no fresh key stands for the whole turn of
`pool.next()` calls the code makes (`LastLive`). Clocks are left out: when there is a
budget it may be found spent at any loop head after the first request, and
`outcome = "budget"` stands for `last_exc` or the `TransientError` raised there.
`used`, the keys used since the last sleep, is history.

**EventBus**: queues with the list of everything ever put in them and how much was
taken, the walk of `emit` over the live subscriber list, and the putters of
`asyncio.Queue`, modelled as the bus uses them: `get` wakes the oldest putter, which
looks at the queue again when it runs, and a cancelled putter passes its wake-up on.
An event is a `LogMessage` of level debug or info, one of level warning or error, or
anything else; `Droppable` makes no difference between the first two, as `emit` does not.

**NoteRuns**: the disk as seen by runs of all processes over time. `pc` names the
stage, `ctx` the fields of `RunContext` that decide what happens, `writer` the
threads of `_write_chunk`, which survive a cancellation and not a kill. A plan is
named by the run that declared it, a chunk by the plan it was written for, so that
mixing the chunks of two plans is visible. A pointer that does not parse is one without
entries (`NoIndex`), which is how every reader takes it. The clean-up rewrites it in
place: `BeginRewrite` empties it, `EndRewrite` fills it from `index`; a kill in between
leaves it empty or torn, and an `OSError` of either is swallowed (`ForgetRefused`,
`RewriteRefused`). `latest` is history, and so is `adrift`, the topics such a rewrite has
lost or left behind. Two assumptions are
named in the module: `Settled` (a thread's file write takes less time than the model
call of the resume that would write the same section again), and `Overlap`
(whether two runs may be active at once; one interface keeps them apart, which is
what `RunSession!IdleMeansStopped` says, while two processes do not). The fresh
branch of `plan_sections` (resume.py:156-162) is not reached by the command line or
the bridge with chunks on disk, because `unique_slug` avoids such a slug.

**NoteText** (no state): the passes over a note. A note is a sequence of lines, and a
line what the passes can tell about it: heading (level, number, text), fence,
paragraph word or link, blank, rule, and the lines of the table of contents, the
transitions and the related section. `Assembled`, `Normalise`, `ApplyStructure`,
`Splice`, `LinkMentions`, `AppendRelated`, `Unwrapped` and the helpers below them keep the code's
order and its disagreements: `Strict` and `Loose` are its two notions of a fence. What a line
may say is the constant `Text`; how a word is shaped is left to `Sanitised`, `LastWord`,
`NameLike` and `Unlinkable`. The operators were compared with the Python functions on several
thousand random notes, without a difference.

**NoteEdits** uses NoteText for the stages between assembly and the end of the run: each reads
the file, holds what it read over its awaits, and writes through `_write_back`, with
its truncation guard and its choice of a frontmatter; the user saves the note at any
moment, body or frontmatter, or removes the frontmatter. `placed`, `linked`, `saved` and
`bared` are history.

**RunSession**: interface, two pipes and backend. A request's id is also the id of
the run or the chat turn it creates. `busy` is the App's state, with the request it
was set for added as history; `pending` the client's promises; `micro` the settled
promises whose continuation has not run: frames of one chunk are routed before any
of them, and no key or timer is handled while there is one. An event is on the wire
in the step that emits it: the pump is woken before anybody who waits for the end of
the task, and the queue of 1000 events has room, so no answer overtakes the last
event of a run. `TimesOut` says which budgets may run out, `MayExit` whether the
backend may die.

**BridgeLife**: the same two processes from spawn to exit: `start()` and readiness, the
exit listener, `request` with its budget, `stop()` with its kill, the backend's reader
thread, handlers, pump, queue and teardown. What requests mean is RunSession's part; here
one is answered or not, and may start the run whose events fill the queue.

**ChatTurns**: `chat.send` from the handler through the agent's lock and the tool
loop to the write-back of the history, with `select` and `clear` at any time. The
bridge's lazily built controller is part of it: `vault.init` and `auth.persist` make the
bridge forget its vault or provider, and the controller, under turns that go on
with the old one.

**VaultIndex**: one index object per process life. A note's text is one of a few
values; the vectors of its chunks are the pair of note and text. `Scan` is the
synchronous first half of `index()`, `Embedded` or `EmbedFails` the end of its only
await, `BeginSave` and `EndSave` the truncation and the rewrite of the file.

**Embedding** puts the provider under that await: batches one after the other, the
fall-back to single requests under a semaphore, retries, answers in any order, and the list
of results that is zipped with the notes by position. `ImplementsIndex` is the
refinement: the steps of the provider are stutters of VaultIndex, the last one
`Embedded` or `EmbedFails`.

**Tagging**: one tagging stage per run, the entities command and the user's editor
over one `taxonomy.json`. A tag is a word, its spelling (with the final s that
`_normalize` cuts, or without) and a given name. `Reply` is a whole turn of the
ladder from the parsed reply to the resolved line; the replies are first reduced to
the arrays they can be made into (`Arrays`). `persist` is cut at its reads and writes
(`Read`, `Write`, `Replace`), because other processes use the same file and the same
`.part` name; inside one process it is one step, which is one of the behaviours.
`Written` is what it may write: the file as it is now with the mints appended
(`Appended`), or the registry's own copy (`Overwritten`), when the file does not parse and when the
edit gives up on one that does. `laid` says whether the file has a themes array and its members
stand on lines of their own; only one of which that is not so may be given up. The
wait for the drift oracle is no step, since nothing others do can be seen through it;
what it answers is a choice (`Merges`). The note's tags are taken to be written with
the end of the stage. Categories, domain, marker and malformed tags are left out.

**TaxonomyText** (no state): the edit of the JSON text that keeps the user's layout, over
tokens: where a member is found, where an item and its comma go, and the counts.
`Tagging!Appended` is what it has to amount to unless it gives up, which it may only do
on a text whose members are not on lines of their own: so `SurgicalEdits` in `MCTagging`. It was compared with `registry.py` on the 1080 cases of that property.

`MCNoteRuns`, `MCVaultIndex` and `MCEmbedding` add symmetry sets, `MCNoteEdits` the
notes and `MCTagging` the tags and layouts of their instances. Operators named
`X_Something` above a definition `X` are mutants: plausible mistakes in `X` that the
property beside them in `PROJECT.json` must catch; no specification uses them.

How they compose: KeyPool and ProviderRetry take keys with the operators of KeyRing; Embedding is
VaultIndex with the provider in the place of one step; NoteEdits uses NoteText and MCTagging
puts TaxonomyText beside Tagging. NoteRuns ends a note where NoteEdits begins (`Placed`);
RunSession, BridgeLife and ChatTurns see the same two processes as a prompt, as processes
and as conversations. Their product is far beyond TLC, and they meet in few
places: the end of a run (an event RunSession waits for, and NoteRuns promises), the queue of the
pump (1000 places in RunSession, full in BridgeLife), and the answer of `chat.send`.

## 3. What is checked

| Run | Properties | Bounds | States |
|---|---|---|---|
| `key_pool` | `ImplementsQueue` | 4 keys; complete | 762 |
| `provider_retry` | `NeverUnreachable`, `BurstBound`, `PoolSurvivesBadKeys`, `StaleKeyOnlyOnRetry`, `CallEnds` | 2 calls, 3 keys of which 2 are refused, 2 attempts, budget on | 427,000 |
| `event_bus` | `BlockingNeverLost`, `EmitterOrder`, `EmitEnds` | 2 emitters and the closer, 2 queues of size 1, 3 events of 3 sorts | 1,191,000 |
| `note_runs` | `NoteWhole`, `InterruptedRunResumable`, `ChunksOutliveRuns`, `CleanExit`, `NothingReplaced` | 3 runs of 2 topics in sequence, 2 headings, 3 slugs, 3 note names, every failure, kill, refused write of the pointer and resume | 5,994,000 |
| `run_session` | `IdleMeansStopped`, `CancelsItsOwn`, `EndsAgree`, `ClearsItsOwn`, `BusyEnds` | 5 requests, budgets of run.cancel and chat.send may run out, backend may die | 565,000 |
| `bridge_life` | `PromisesSettle`, `EmitGoesOn`, `BackendEnds` | 2 requests, a queue of 2, backend may be killed | 18,000 |
| `chat_turns` | `HistoryWhole`, `AnsweredIsRemembered`, `TurnStaysHome`, `TurnEnds` | 3 turns, 2 agents, 2 tool rounds of 2 calls, 2 controllers | 609,000 |
| `note_edits` | `TocResolves`, `TransitionsInPlace`, `TextKept`, `LinkedOnce`, `EditsKept` | 3 plans, every pair of 5 section texts, 2 saves of the user | 286,000 |
| `vault_index` | `NothingStale`, `KeepsUnchanged`, `OnlyFailureForgets`, `ImplementsIndex` | 3 notes, 2 texts, batches of 2, 2 tries, 2 requests at a time | 613,000 |
| `tagging` | `OnlyStaleTypesMinted`, `PersistKeeps`, `MintedBeforeValidated`, `StageEnds`, `SurgicalEdits` | 1 run, the entities command and 1 edit; 2 attempts, 1 tag per slot, 2 themes (1 on file), 2 types, 1 surname, 2 layouts; 1080 layouts and mints for the edit | 644,000 |
| `note_edits_rules` | `RulesSettle` fails | as `note_edits`, without the user | |
| `vault_index_forgets` | `NothingForgotten` fails | 2 notes, 2 texts | |

What they show. `key_pool`: the walk over a list with quarantined holes is a queue.
`provider_retry`: the rotation bound never cuts a call short or reaches the "unreachable"
error; at most 2n-1 requests between two sleeps (n keys); refused keys do not fail a call
while another is left; a quarantined key is used by a plain retry only; every call ends.
`event_bus`: every event but a dropped log line, warnings among them, reaches every subscriber, in the order of its
emitter, and waiting emitters go on when subscribers read. `note_runs`: notes are whole,
chunks are deleted only once in a note, an interrupted run can be resumed until a rewrite
of the pointer is cut short, a finished run leaves nothing but the entry it was refused to
drop and drops no other's, no note or plan is replaced.
`run_session`: a free prompt means no run goes on; Esc names the right run; both sides
agree on what ended, a confirmed cancel included; a busy state is only cleared by its own end,
and it does not last for ever. `bridge_life`: every promise of the client is settled whatever
hangs or dies; no run waits for ever in an emit while the backend lives; a backend ends when
its interface is gone. `chat_turns`: histories are conversations, answered turns are
remembered, failed ones leave no trace, a turn is sent with the vault and key of the
moment and its reply stays in the chat it was asked in, every turn ends. `note_edits`: every
entry of the table of contents has its heading, transitions stand below the heading they were
written for, nothing of the text is lost, moved or rewritten but blank lines, rules and lines that only
repeat a heading, no name is linked twice, what the user saves while no stage holds the note stays. `vault_index`: no stale vector,
unchanged notes are not embedded again, only a failed call loses a note, and the provider
brings every note the vector of its own text or raises. `tagging`: a run mints only a
type that its vault still holds and the file has lost, never a proposed theme or a name;
a persist keeps what it read, if the file's members stand on lines of their own; minted themes are on file when validated; the stage ends;
the edit of the text is exactly the append that the rest of the module takes it for.

`TypeOK` is a conjunct of one property of each module: `BlockingNeverLost`, `NoteWhole`,
`IdleMeansStopped`, `EmitGoesOn`, `HistoryWhole`, `OnlyStaleTypesMinted`, and for the provider
`ImplementsIndex`; for every module but `BridgeLife` it is proved.

Some properties hold under a condition, which they state. `InterruptedRunResumable` holds
as long as no resume was handed the plan of another topic (`ResumesItsTopic`), which the pointer allows,
and not in the middle of a rewrite of the pointer, nor of a topic that is `adrift`; the part of `CleanExit` about
the run's own pointer entries leaves out an `adrift` topic too. `PersistKeeps` leaves out a
file with its members on one line, which the fall-back may overwrite. `TextKept` and `TransitionsInPlace` leave out notes
whose code blocks have an info string like `c++` (`PlainFences`); with `EditsKept` they also
leave out a plan with a heading "Related Notes" (`~Clashes`), whose section is stripped with any
fence in it, and a note the user took the frontmatter from (`~bared`), where only the inside of a
code block may be left; section 5 says what the code does then. `EditsKept` says nothing of a body
saved while a stage holds the note: it is overwritten. `TurnStaysHome` holds the named author to
the agent asked unless another was selected meanwhile. `PromisesSettle` leaves out the
promise of `start()` on a protocol mismatch, and an interface that has ended.

Why these bounds are enough. One key is refused, one good and one refused again is
the least pool in which a rotation passes a quarantined key and comes back; two
calls are needed to quarantine a key under a sleeper, and a third adds no new kind of
interference, as calls meet only in the pool. A queue of size one is full after one
event, so two emitters already line up, are woken, cancelled and overtaken. Three
runs are the least in which a run is interrupted, resumed and followed by another;
two topics let them meet at one slug. The fifth request of `run_session` is the one
that reuses the prompt after a note run, its cancel, a chat and its late end. In
`bridge_life` one request may hang while the other runs, and two places are the least
in which a queue is neither empty nor full. Three turns make a queue behind a lock; the second
controller is the one whose turns must not meet those of the first. The five texts of
`note_edits` are a name to link, one with markup that links cannot hold, a code block with what looks
like a heading and a heading repeated, a text with rules, and one with links already; two sections
are enough for an index to be off by one, and two saves for one to come before a write and one after.
Three notes are the least with two batches of unequal size. In `tagging` the two
other writers of the file are the command and the user; a second attempt is enough
to persist twice, two types to mint twice, and a validator is present, so that lines
are refused (without one, `Accept` is the only outcome). Bounds that stand for one of
the code: `Attempts` (3), `MaxHeadings` (40), `MaxCopy` (999), `MaxIterations` (8), `Capacity`
(1000), `BatchSize` (100), `MaxRetries` and `MaxConcurrency` of the providers. `MaxSeq`, `MaxSlug`,
`MaxRequests`, `MaxProposed`, `MaxBuilt`, `Calls` and `MaxEdits` only make the instance finite.

Fairness. `ProviderRetry`: a request is answered or times out (`timeout_ms`) and a
sleep ends; calls need not start. `EventBus`: runnable tasks run, and a subscriber
that is not in `Stuck` reads. `RunSession`: both event loops read their pipes; runs
and turns end because each provider call does (that is `CallEnds`) and the loops
around them are bounded; no key is pressed and no timer fires by fairness.
`BridgeLife`: both event loops turn, pipes are read and timers fire; the backend
boots, because `start()` has no time budget and would otherwise wait for ever; no handler need
answer, no run need emit or end, nobody need quit. `ChatTurns`: providers and tools
answer or time out, `asyncio.Lock` is first come, first served. `NoteEdits`: the run goes
on. `Tagging`: a run that has begun goes on, because the tagger's call ends and the
validator's tool has a timeout. Deadlock is checked in `provider_retry`, where every call runs to its
end; the other systems may stop when their bounded inputs are used up or every
process is idle, so their configurations switch the check off.

## 4. What is proved

`ProviderRetry_proofs`, about the pool (`KeyPool`): `Fair`, `ForLife` and the refinement `PoolIsQueue`, for any
number of keys, from the facts of the ring: distances are distinct, `next()` returns the nearest live key, and returning a key moves the
others nearer by the same amount. That every
other live key has had its turn is not inductive: it speaks of history. The strengthening
(`Queue`) is that a live key which has not had its turn since `k` had it lies nearer to
the index than `k`; so `next()` reaches it before `k` comes round again. For `PoolIsQueue`,
"nearer to the index" is an order (`Steps` is injective), taking the first key turns it by one key,
and a quarantined key leaves it as it was for the others.

`ProviderRetry_proofs`, about the calls: for any number of keys, calls and attempts, `TypeCorrect`,
`Invariant`, `RotationCapNeverBites` (two attempts or more), `PoolSurvives`,
`StaleKeys`, `BurstBounded`. The invariant counts: every turn of a call's loop is paid for by an
attempt, by a key newly tried, or by a key quarantined since the call started
(`RotationBound`); with `CallShape` (the pool only shrinks, a call's key is one it
tried) this keeps `rotation` below `live * attempts`. `BurstBound` needs the same count again,
for requests since the last sleep (`BurstPaid`): one for each key tried, and one more for
each key that was live at the start and is refused by now, the own key left out.

`EventBus_proofs`: `NeverLost` and `HeardInOrder`, for any emitters, subscribers, capacity and number of
events. A woken putter may find the queue full again, be overtaken or be cancelled, so both properties
speak of where a task is, not of where it waits. The strengthening: a parked task is among the putters of
just the queue it stands at, once (`Queues`); what it holds it has put in every queue it has
passed (`DeliveredInv`), and what it has put in the queues before it is older (`OrderInv`).

`ChatTurns_proofs`: `Conversations`, `Remembered` and `RepliesGoHome`, for any agents and turns, any number of
calls and rounds. Two handlers that share a history would break it at any await; the strengthening is that
the first of an agent's queue is the only turn past the lock (`LockInv`), that its messages are the history
followed by its own open exchange (`TalkInv`, `CallsInv`), and that a controller but the current one was dropped
by a change of the settings, which counts the controllers (`CoreInv`).

`RunSession_proofs`: `FreePrompt`, `OwnRunCancelled`, `SameEnd` and `OwnEndClears`, for any number of requests, any
budgets but one, and a backend that may die. The properties relate the prompt to the tasks, and
between them lie two pipes and the promises that have settled and not continued. The
strengthening `Protocol` says what may lie there: which frames are true of the tasks (`FrameInv`), that
nothing follows the end of a run that speaks of it as going on (`OrderInv`), what a continuation may find when it
runs (`MicroInv`), and what the prompt waits for (`BusyInv`, `PendingInv`). Their hypothesis is
`NoteAnsweredInTime`: run.note is not among the methods whose budget runs out; it is answered at once, and
its "budget covers dispatch, not generation" (`bridge.ts:52`). TLC refutes the properties without it, and
section 5 says how.

`NoteRuns_proofs`: `WholeNotes`, `ResumeFinds`, `ChunksKept`, `LeavesNothing` and `ReplacesNothing`, for any
number of runs, topics, domains, slugs, headings and note names. The strengthening turns on the
sidecar of a slug: as long as it is on disk, every chunk is of its plan, every `.part` file of one of
its sections, and every thread that still has its `.part` file writes that plan; without a sidecar there is nothing
of the slug (`SlugInv`). So a thread that outlived its run cannot bring a chunk back after the clean-up, whose
`.part` file is gone. `DiskOK` and `NoteOK` say what each stage of the run in hand relies on, and `LatestInv`,
`PlanInv` what the pointer leads to, and `RewriteInv` that what a rewrite is about to put there leads every
other topic to where the pointer led it; that two runs with one plan and different topics have met for good
(`TopicsStay`) makes the condition of `InterruptedRunResumable` usable. The hypothesis is `~Overlap`: one run at a time, in one
process or in several. Two at once may choose one slug or one note name between looking and
writing, and the properties fail (section 5); that one interface keeps its runs apart is `FreePrompt`.

`Embedding_proofs`, about both modules of the index. Of VaultIndex, for any notes and texts, `IndexNeverStale`,
`UnchangedIsKept`, `OnlyFailures`: the strengthening (`Queue`) is that the awaited vectors are those of
hashes already stored, and that nothing is awaited outside the embedding call. Of Embedding,
`ProviderImplementsIndex` and, from it, `NeverStaleOverProvider`, for any notes,
texts, size of a batch, number of tries and of requests at a time: the strengthening
(`Placed`) is that each place of the list of results holds nothing or the vector of the very text
the place is for; when none is missing, the list zipped with the texts is what
`VaultIndex!Embedded` stores.

`Tagging_proofs`: `Closed`, `Surgical` and `ValidatedAfterMint`, for any number of runs beside the command and
the user, any words, replies and edits. The resolve loop is followed tag by tag: `LoopInv` says what every
turn keeps when the tags it meets are entities, themes on record or types of the vault (`ArraysType` shows that
no reply makes others), and the states the loop passes through exist because no least number of tags can be without
them (`LoopExists`). The strengthening says that a registry holds its own mints (`StageInv`), which are
types it has lost (`MintInv`), that the one part file is one of the texts its writer may write, appended or
overwritten, as long as the writer is about to put it in place (`PartInv`), and that what a run has put there holds its mints even after the user
and others have written over it, because nobody else's text carries its name (`SavedInv`).

`NoteEdits_proofs`: `Invariant`, `UserKeeps`, `LinksOnce`, `TocFound`, `TextStays` and
`TransitionsStay`, with the invariants, the readers and the hypotheses in `NoteInvariants`, for any texts, plans, sections, names,
answers and edits. What a recursive pass computes cannot be proved by induction over its
text, but each pass is defined by a recursion up to the length of the text, which has a
solution (`Recursion`), and a predicate kept by every step holds at its end (`UpTo`). The first
argument counts: how often a line is in a text (`Count`). Every pass writes each line as often
as it read it, blanks, rules and what the pass itself adds aside; from that follow what a
stage may have lost of the user's lines and how many links a name has. The invariant says where a note is (`Phases`), what of its
frontmatter and of the user's line in it is left (`Headed`, `Fielded`), that what the user saved while no
stage held the note is in the note and in what is about to be written (`Lined`), that no name gets a second
link (`FewLinks`), and that what was linked just now is not in the related section too (`Parted`). `TocFound` needs the headings one by one:
`TocInv` says that a note has no lines of a table before formatting, and that every entry of the one it
gets has its numbered heading from then on. Its hypotheses: no section's text comes with a
table of contents or numbered headings of its own (`PlainChunks`), sanitising is done in one go (`SafeIsSafe`), and
the user left the note its frontmatter (`~bared`), without which a body may be unwrapped like an answer.

`TextStays` is about the order of the lines, which counting cannot see. Its argument reads a text line by
line: a reader (`Reader`, `Fed`) goes from state to state and knows which fence is open. One collects
what the text says outside code and copies code (`WordReader`: what `Words` computes, `WordsRead`), one
the texts of the sections, one where the first title stands. A pass that adds or leaves out only lines
which tell a reader nothing outside code, and changes others into lines that mean the same to it, leaves
it in the state it was in; this is shown once for inserting, filtering, replacing and trimming lines (`FedSame`,
`FedFlatten`, `FedLines`, `FedMore`, `FedTrimEnd`) and then of every pass (`FedNormalise`,
`FedSplice`, `FedStructure`, `FedMentions`, `FedAppend`). The formatter needs the other two readers: what it leaves
out repeats a heading assembly wrote only as long as the sections are assembly's, and its table stands outside code
only because the first title does. `TextInv` therefore keeps all three readings until the formatter, the first from
then on. Its hypotheses beside those of `TocFound`: the text assembly wrote does not end within a code
block (`Closes`), in which what is added later would be code; and the last segment of a name is its own last
segment (`LastIsLast`), or a link would show less than the line said.

`TransitionsStay` uses readers again. A `PlaceReader` counts the sections outside code as it goes and is
lost for good when it meets a transition that is not right below its heading. Before the formatter the heading
is the one the count has reached (`Ordered`), after it the one with the number of the transition (`Laid`);
`OrderLaid` says that the first gives the second as long as no heading is numbered, and `PlaceStructure` that the
formatter, which counts for itself, numbers them alike. `PlaceSpliced` says that the splice puts every
transition where the reader expects it; every other pass leaves the reader as it was. `PlaceInv` says which of
the two holds at which stage, of the note, of what a stage holds and of what it is about to write. Its hypotheses: those
of `TocFound`, and no section comes with a transition of its own (`UnwovenChunks`).

The proofs assume the named assumptions on the constants (`NumKeysAssumption`,
`ConstantsAssumption`, `BusAssumption`, `ChatAssumption`, `SessionAssumption`, `NoteRunsAssumption`, `NoneAssumption`,
`IndexAssumption`, `ProviderAssumption`, `TaggingAssumption`, `TextAssumption`, `NoteEditsAssumption`), each as weak as the constructors' checks and the module
constants allow; beyond bounds that are not zero they say that `None` is none of the values it stands
beside, and that the words of a vault are finitely many. The inductive invariants were model-checked on the instances of the runs before they were proved. What the theorems
about notes ask of the texts is an assumption of `MCNoteEdits` (`Hypotheses`), and holds of the texts it runs with.

Only model-checked: the liveness properties (`CallEnds`, `EmitEnds`, `BusyEnds`, `PromisesSettle`,
`EmitGoesOn`, `BackendEnds`, `TurnEnds`, `StageEnds`), since fairness and `ENABLED` are beyond
the prover; `SurgicalEdits`, whose `TaxonomyText` declares recursive operators; of `NoteEdits`, `TextKept`
for a text that ends in a code block, and `TocResolves` for a note that the user took the frontmatter from.

## 5. Where code and comments disagree

Two runs end in a counterexample, each against a sentence of the repository.

* `vault_index_forgets`: "a note edited in Obsidian invalidates by hash on the next
  index pass" (`index.py:8`). The hash is stored before the embedding call; when that
  raises, later passes skip the note.
* `note_edits_rules`: "the transformation is idempotent" (`normalise.py:20`). A rule
  between two paragraphs loses a blank line with each pass over the note (`normalise.py:109`).

Others showed while the models were written, and have no run of their own.

* Bus: "a slow subscriber cannot starve a fast one" (`bus.py:3`), but `emit` waits at the
  first full queue before it reaches the next one. "LogMessage is droppable (level debug/info),
  everything else blocks the emitter" (`bus.py:4`), but `emit` asks for the class of the event
  and not for its level (`bus.py:37`): on a full queue a warning or an error is dropped too, such
  as "tagger failed" (`stages.py:1359`). `BlockingNeverLost` states what the code does; with the
  docstring's notion of droppable it fails.
* Providers: the burst of requests is bounded by twice what `mistral.py:147` promises; with one
  attempt, the "unreachable" error can be raised after a 429, a 401 and a 429; a quarantined key is
  still used by a plain retry. A read timeout is not mapped in `google_embedding.py`.
* Runs: a run resumed after its note was placed writes a second note of the same plan
  (`stages.py:913`, `stages.py:941`), where `stages.py:2055` expects the resume to re-enter the first.
  Two processes in one vault can choose one slug and one note name. "Drop this run's entry from
  the resume pointer" (`stages.py:2229`) rewrites the entries of all topics in place
  (`stages.py:2246`), while `write_manifest` replaces the file: a kill or an error in the middle leaves one that does
  not parse, `find_resumable`, "the manifest to resume for `topic`" (`resume.py:132`), then finds none for any
  topic although the sidecars are there, and the next manifest begins the index anew (`resume.py:91`).
  An `OSError` is swallowed (`stages.py:2251`): a run completes and leaves the entry it should drop.
* Chat and bridge: the author of a reply is read after the turn (`server.py:416`); `/clear` is undone by
  a turn in flight; "Guarded like startRun" (`app.ts:591`) does not hold after a run.note that timed
  out, whose end frees the prompt of a chat turn (`app.ts:1107`); a protocol mismatch leaves `start()`
  pending (`bridge.ts:255`); the end of `asyncio.run` joins the reader thread, which waits for a line.
* Tagging: after the fall-back "the file is still written correctly, just reformatted"
  (`registry.py:811`), but what is written is the registry's copy, also over a text that parses and
  whose layout made the edit give up (`registry.py:389`, `registry.py:418`, `registry.py:444`, then
  `registry.py:833`): what the user or another process added since the copy was loaded is lost. "Themes and types are inferred by the harness, per note, and accumulated"
  (`registry.py:3`), but `assemble_tag_array` keeps only themes the registry already has; a new
  name is stored without its final s (`registry.py:765`, against `tests/test_tagging.py:271`); the surgical
  edit writes a count of 1 where `self.raw` counted up (`registry.py:819`); the guard may return a key
  with spaces in it as the tag (`registry.py:561`, `registry.py:650`).
* Note text: after a fence such as ```` ```c++ ```` two passes disagree on what is code; `_resolve_wikilinks`
  unwraps `[[..]]` inside code; a stray first-level heading is demoted and listed in the table of
  contents unsanitised (`structure.py:18`), and a second pass then changes the note again; a planned
  heading "Related Notes" is stripped by the linking stage; once the user has deleted the
  frontmatter, a note that is one code block is unwrapped like a model's answer.
* Interface: `Composer.lineStart` at caret 0 with a leading newline (`composer.ts:226`); the history
  walk is trapped on an entry that is the prefix of a command (`app.ts:310`); a late answer of the
  local stub moves the onboarding on under a validation (`app.ts:789`); `pendingQuit` outlives the
  notice of it (`app.ts:261`).

## 6. What is not modelled, and what could come next

Not modelled. Settings, secrets, vault loading and routing, `load_pool` and the factories of the
providers, which run once before anything concurrent. The MCP client: `attach_mcp` is
called by the tests only. Message conversion, JSON framing and the protocol's encoding; the
line editor, rendering and onboarding of the interface, single-threaded and reached by unit
tests; printing and argument parsing of the command line. The tools, MCP servers, model providers and the
file system itself are external: they appear as steps that answer, fail or do not answer. The
chunking of a note and the ranking of a query, pure functions of the index. The MOC, which
the vault's own script writes. The maintenance scripts. Clocks, everywhere.
Of the modelled parts: the section semaphore and the two attempts of a section, the cache
file of the drift oracle, categories, domains and markers of the registry, the detection of a vault's
frontmatter schema, single requests that outlive a failed gather in the embedding provider.

Next, in order: the section tasks with their semaphore and attempts, shown to implement the
section steps of NoteRuns; the drift cache, with its whole-file replacement; routing
score, settings precedence and plan parsing as operators against reference definitions.
Abstract specifications worth stating: the session as a lock with one holder, a run as "a plan becomes one
note". Theorems to come: the bounds of the queues of `EventBus`.

`PROJECT.json` lists every part with its state, and every hazard with the properties that
cover it or the reason why none does.
