------------------------------ MODULE NoteRuns ------------------------------
(***************************************************************************)
(* What note-generation runs do to the disk: the chunks, manifests and the *)
(* resume pointer in a vault's _tmp directory, and the notes placed in the *)
(* vault (avicenna/pipeline: stages.py, resume.py, sections.py,            *)
(* preflight.py).                                                          *)
(*                                                                         *)
(* A run is one execute_run() in some process.  Between two awaits it is   *)
(* one action, except where a kill in the middle would leave something     *)
(* behind: the two replaces of write_manifest, the unlinks of the cleanup, *)
(* the .part file of a chunk and the rewrite of the pointer in place are   *)
(* steps of their own.  A chunk is written by a thread, which outlives the *)
(* cancellation of its run but not the death of its process.               *)
(*                                                                         *)
(* Text is abstracted to where it comes from.  A plan (the heading list of *)
(* a pre-flight) is named by the run that declared it, and a chunk holds   *)
(* the plan it was written for.  The model may propose the same slug for   *)
(* any topic; slug k stands for that base with the suffix -k.              *)
(***************************************************************************)
EXTENDS Integers, FiniteSets

CONSTANTS Run,          \* runs, over all processes and restarts
          Topic,        \* topics the user asks for
          Domain,       \* domains with a folder in the vault
          Override,     \* --domain, or the domain of the folder the user is in
          MaxSlug,      \* bound: slugs of one base
          MaxHeadings,  \* bound: headings of a plan (the code refuses over 40)
          MaxCopy,      \* bound: notes of one name in a folder (the code: 999)
          Overlap       \* whether a run may start while another is active

ASSUME NoteRunsAssumption ==
  /\ MaxSlug \in Nat \ {0} /\ MaxHeadings \in Nat \ {0} /\ MaxCopy \in Nat \ {0}
  /\ Overlap \in BOOLEAN

Slug == 1 .. MaxSlug
Heading == 1 .. MaxHeadings
Path == Domain \X Topic \X (1 .. MaxCopy)

CONSTANTS Last,         \* the "__last__" key of last_run.json
          None          \* no slug, no domain, no plan, no file
VARIABLES chunk,        \* {slug}_chunk_{i}.md
          part,         \* the {slug}_chunk_{i}.md.part files on disk
          manifest,     \* {slug}_manifest.json
          pointer,      \* last_run.json: topic, or Last, to slug
          note,         \* the notes in the vault
          writer,       \* threads in _write_chunk: [run, slug, i, plan]
          pc,           \* where each run is
          ctx,          \* its RunContext
          todo,         \* the sections it has yet to generate
          swept,        \* how many chunks its cleanup has deleted
          index,        \* what its rewrite of last_run.json is about to write
          latest,       \* history: the last run to enter a topic in the pointer,
                        \* until it deletes its manifest
          adrift        \* history: topics whose entry was lost or left behind by a
                        \* rewrite of last_run.json that was cut short or refused,
                        \* and that no run has entered since

disk == <<chunk, part, manifest, pointer, note>>
vars == <<disk, writer, pc, ctx, todo, swept, index, latest, adrift>>

\* What last_run.json holds.  A file that is missing and one that does not parse are
\* alike: each reader takes either for no entries at all.
Pointer == [Topic \cup {Last} -> Slug \cup {None}]
NoIndex == [t \in Topic \cup {Last} |-> None]
Manifest == [plan : Run, topic : Topic, domain : Domain, n : Heading]
Note == [plan : Run, n : Heading, parts : [Heading -> Run \cup {None}], by : Run]
Context == [topic : Topic, override : Override, resume : BOOLEAN,
            slug : Slug \cup {None}, plan : Run \cup {None}, n : Heading \cup {0},
            domain : Domain \cup {None}, dest : Path \cup {None},
            parts : [Heading -> Run \cup {None}]]

ASSUME NoneAssumption ==
  /\ Last \notin Topic
  /\ None \notin Run \cup Domain \cup Nat \cup Manifest \cup Note \cup Context
  /\ Override \subseteq Domain \cup {None}

\* Runs between two awaits and runs in the middle of a synchronous stretch.
Waiting == {"route", "preflight", "approve", "manifest", "plan", "sections",
            "assembly", "place", "finish", "cleanup"}
MidStep == {"pointer", "sweep", "unmanifest", "forget", "rewrite"}
Active == Waiting \cup MidStep
Ended == {"complete", "failed", "crashed"}

TypeOK ==
  /\ chunk \in [Slug \X Heading -> Run \cup {None}]
  /\ part \in SUBSET (Slug \X Heading)
  /\ manifest \in [Slug -> Manifest \cup {None}]
  /\ pointer \in Pointer
  /\ note \in [Path -> Note \cup {None}]
  /\ writer \in SUBSET [run : Run, slug : Slug, i : Heading, plan : Run]
  /\ pc \in [Run -> {"new"} \cup Active \cup Ended]
  /\ ctx \in [Run -> Context \cup {None}]
  /\ todo \in [Run -> SUBSET Heading]
  /\ swept \in [Run -> 0 .. MaxHeadings]
  /\ index \in [Run -> Pointer]
  /\ latest \in [Topic -> Run \cup {None}]
  /\ adrift \in SUBSET Topic

Init ==
  /\ chunk = [x \in Slug \X Heading |-> None]
  /\ part = {}
  /\ manifest = [s \in Slug |-> None]
  /\ pointer = NoIndex
  /\ note = [p \in Path |-> None]
  /\ writer = {}
  /\ pc = [r \in Run |-> "new"]
  /\ ctx = [r \in Run |-> None]
  /\ todo = [r \in Run |-> {}]
  /\ swept = [r \in Run |-> 0]
  /\ index = [r \in Run |-> NoIndex]
  /\ latest = [t \in Topic |-> None]
  /\ adrift = {}

Goto(r, place) == pc' = [pc EXCEPT ![r] = place]
-----------------------------------------------------------------------------
(* Start, ResumeStage, RoutingStage.                                       *)

\* find_resumable: the slug the pointer has for the topic, if its manifest loads.
\* (An empty topic, the frontend's bare /resume, is replaced by the topic of the
\* manifest of Last before the run starts.)
Resumable(t) == pointer[t] # None /\ manifest[pointer[t]] # None

Blank(t, o, res) ==
  [topic |-> t, override |-> o, resume |-> res, slug |-> None, plan |-> None,
   n |-> 0, domain |-> None, dest |-> None,
   parts |-> [i \in Heading |-> None]]

\* ResumeStage: a resume takes slug, headings and domain from the manifest; with
\* nothing to resume it goes on as a fresh run.
Begun(t, o, res) ==
  LET c == Blank(t, o, res)
      m == manifest[pointer[t]]
  IN IF res /\ Resumable(t)
     THEN [c EXCEPT !.slug = pointer[t], !.plan = m.plan, !.n = m.n, !.domain = m.domain]
     ELSE c

\* execute_run up to RoutingStage.
Start(r, t, o, res) ==
  /\ pc[r] = "new"
  /\ Overlap \/ \A q \in Run : pc[q] \notin Active
  /\ ctx' = [ctx EXCEPT ![r] = Begun(t, o, res)]
  /\ Goto(r, "route")
  /\ UNCHANGED <<disk, writer, todo, swept, latest, adrift, index>>

\* The bridge's bare /resume: the topic comes from the manifest of Last.
StartLast(r, o) ==
  /\ pointer[Last] # None /\ manifest[pointer[Last]] # None
  /\ Start(r, manifest[pointer[Last]].topic, o, TRUE)

\* RoutingStage: an explicit domain wins over the manifest's, which wins over the
\* classifier and the scorer.
RoutingDecision(c) ==
  CASE c.override # None -> {c.override}
    [] c.override = None /\ c.domain # None -> {c.domain}
    [] OTHER -> Domain

Route(r) ==
  /\ pc[r] = "route"
  /\ \E d \in RoutingDecision(ctx[r]) : ctx' = [ctx EXCEPT ![r].domain = d]
  /\ Goto(r, IF ctx[r].plan = None THEN "preflight" ELSE "manifest")
  /\ UNCHANGED <<disk, writer, todo, swept, latest, adrift, index>>
-----------------------------------------------------------------------------
(* PreflightStage, ManifestStage, SectionsStage.                           *)

HasChunks(s) == \E i \in Heading : chunk[s, i] # None

\* Mutant of SlugTaken: only the chunks count.
SlugTaken_ByChunks(s) == HasChunks(s)

\* unique_slug: the first suffix with neither a manifest nor a chunk on disk.
SlugTaken(s) == manifest[s] # None \/ HasChunks(s)

\* The model answered: the plan is parsed and its slug chosen.
Preflight(r) ==
  /\ pc[r] = "preflight"
  /\ \E s \in Slug, n \in Heading :
       /\ ~SlugTaken(s)
       /\ \A k \in 1 .. s - 1 : SlugTaken(k)
       /\ ctx' = [ctx EXCEPT ![r].slug = s, ![r].n = n, ![r].plan = r]
  /\ Goto(r, "approve")
  /\ UNCHANGED <<disk, writer, todo, swept, latest, adrift, index>>

\* on_plan: the user, or the bridge, approves the plan.
Approve(r) ==
  /\ pc[r] = "approve"
  /\ Goto(r, "manifest")
  /\ UNCHANGED <<disk, writer, ctx, todo, swept, latest, adrift, index>>

\* write_manifest, first replace: the sidecar.
WriteManifest(r) ==
  /\ pc[r] = "manifest"
  /\ manifest' = [manifest EXCEPT ![ctx[r].slug] =
       [plan |-> ctx[r].plan, topic |-> ctx[r].topic,
        domain |-> ctx[r].domain, n |-> ctx[r].n]]
  /\ Goto(r, "pointer")
  /\ UNCHANGED <<chunk, part, pointer, note, writer, ctx, todo, swept, latest, adrift, index>>

\* write_manifest, second replace: the pointer, with the entries that were there; of
\* one that does not parse none is kept.
WritePointer(r) ==
  /\ pc[r] = "pointer"
  /\ pointer' = [pointer EXCEPT ![ctx[r].topic] = ctx[r].slug, ![Last] = ctx[r].slug]
  /\ latest' = [latest EXCEPT ![ctx[r].topic] = r]
  /\ adrift' = adrift \ {ctx[r].topic}
  /\ Goto(r, "plan")
  /\ UNCHANGED <<chunk, part, manifest, note, writer, ctx, todo, swept, index>>

\* plan_sections keeps a chunk that is there and has no .part beside it.
Retained(s, i) == chunk[s, i] # None /\ <<s, i>> \notin part

\* The start of SectionsStage: which sections to generate.  A resume unlinks the
\* .part of every section it does not keep.
PlanSections(r) ==
  /\ pc[r] = "plan"
  /\ LET s == ctx[r].slug
         missing == {i \in 1 .. ctx[r].n : ~(ctx[r].resume /\ Retained(s, i))}
     IN /\ todo' = [todo EXCEPT ![r] = missing]
        /\ part' = part \ (IF ctx[r].resume THEN {s} \X missing ELSE {})
  /\ Goto(r, "sections")
  /\ UNCHANGED <<chunk, manifest, pointer, note, writer, ctx, swept, latest, adrift, index>>
-----------------------------------------------------------------------------
(* The section tasks and their threads.                                    *)

\* The thread of a cancelled run may still be writing when a resume looks at the
\* disk, but it is done before the resume has a text of its own for the section:
\* a write takes less time than a call of the model.
Settled(s, i) == \A w \in writer : <<w.slug, w.i>> # <<s, i>>

\* The model wrote section i: its thread opens the .part file.
BeginWrite(r, i) ==
  /\ pc[r] = "sections" /\ i \in todo[r]
  /\ Settled(ctx[r].slug, i)
  /\ todo' = [todo EXCEPT ![r] = @ \ {i}]
  /\ part' = part \cup {<<ctx[r].slug, i>>}
  /\ writer' = writer \cup {[run |-> r, slug |-> ctx[r].slug, i |-> i, plan |-> ctx[r].plan]}
  /\ UNCHANGED <<chunk, manifest, pointer, note, pc, ctx, swept, latest, adrift, index>>

\* The thread replaces the chunk by its .part; if somebody unlinked that, the
\* replace raises, and gather swallows the exception.
EndWrite(w) ==
  /\ w \in writer
  /\ writer' = writer \ {w}
  /\ part' = part \ {<<w.slug, w.i>>}
  /\ chunk' = IF <<w.slug, w.i>> \in part
              THEN [chunk EXCEPT ![<<w.slug, w.i>>] = w.plan] ELSE chunk
  /\ UNCHANGED <<manifest, pointer, note, pc, ctx, todo, swept, latest, adrift, index>>

\* Section i failed twice.
SectionFails(r, i) ==
  /\ pc[r] = "sections" /\ i \in todo[r]
  /\ todo' = [todo EXCEPT ![r] = @ \ {i}]
  /\ UNCHANGED <<disk, writer, pc, ctx, swept, latest, adrift, index>>

\* gather: every section task of the run has ended.
SectionsDone(r) ==
  /\ pc[r] = "sections" /\ todo[r] = {}
  /\ \A w \in writer : w.run # r
  /\ Goto(r, "assembly")
  /\ UNCHANGED <<disk, writer, ctx, todo, swept, latest, adrift, index>>
-----------------------------------------------------------------------------
(* AssemblyStage and the stages that work on the note.                     *)

\* Mutant of Present: one chunk is enough.
Present_Any(r) == \E i \in 1 .. ctx[r].n : chunk[ctx[r].slug, i] # None

Present(r) == \A i \in 1 .. ctx[r].n : chunk[ctx[r].slug, i] # None

\* Mutant of Free: the first name, whatever is there.
Free_Always(d, t, k) == TRUE

\* _note_destination: the first name in the domain's folder that is free.
Free(d, t, k) == note[<<d, t, k>>] = None

\* Gate, read the chunks, choose the name of the note.
Assemble(r) ==
  /\ pc[r] = "assembly"
  /\ Present(r)
  /\ \E k \in 1 .. MaxCopy :
       /\ Free(ctx[r].domain, ctx[r].topic, k)
       /\ \A j \in 1 .. k - 1 : ~Free(ctx[r].domain, ctx[r].topic, j)
       /\ ctx' = [ctx EXCEPT
            ![r].dest = <<ctx[r].domain, ctx[r].topic, k>>,
            ![r].parts = [i \in Heading |-> IF i <= ctx[r].n
                            THEN chunk[ctx[r].slug, i] ELSE None]]
  /\ Goto(r, "place")
  /\ UNCHANGED <<disk, writer, todo, swept, latest, adrift, index>>

\* PipelineAbort("assembly"): a chunk is missing.
Incomplete(r) ==
  /\ pc[r] = "assembly"
  /\ ~Present(r)
  /\ Goto(r, "failed")
  /\ UNCHANGED <<disk, writer, ctx, todo, swept, latest, adrift, index>>

\* After the events in between: os.replace onto the chosen name.
PlaceNote(r) ==
  /\ pc[r] = "place"
  /\ note' = [note EXCEPT ![ctx[r].dest] =
       [plan |-> ctx[r].plan, n |-> ctx[r].n, parts |-> ctx[r].parts, by |-> r]]
  /\ Goto(r, "finish")
  /\ UNCHANGED <<chunk, part, manifest, pointer, writer, ctx, todo, swept, latest, adrift, index>>

\* Transitions, word count, tags, format, links, MOC: none of them touches _tmp.
Finish(r) ==
  /\ pc[r] = "finish"
  /\ Goto(r, "cleanup")
  /\ UNCHANGED <<disk, writer, ctx, todo, swept, latest, adrift, index>>
-----------------------------------------------------------------------------
(* CleanupStage: delete the chunks in order, then the sidecar, then forget. *)

\* Mutant of BeginSweep: the clean-up does not wait for the note.
BeginSweep_Early(r) ==
  /\ pc[r] \in {"place", "cleanup"}
  /\ Goto(r, "sweep")
  /\ UNCHANGED <<disk, writer, ctx, todo, swept, latest, adrift, index>>

BeginSweep(r) ==
  /\ pc[r] = "cleanup"
  /\ Goto(r, "sweep")
  /\ UNCHANGED <<disk, writer, ctx, todo, swept, latest, adrift, index>>

\* Mutant of SweepChunk: the range ends one short.
SweepChunk_OneShort(r) ==
  /\ pc[r] = "sweep"
  /\ LET x == <<ctx[r].slug, swept[r] + 1>> IN
       /\ chunk' = [y \in DOMAIN chunk |-> IF y = x THEN None ELSE chunk[y]]
       /\ part' = part \ {x}
  /\ swept' = [swept EXCEPT ![r] = @ + 1]
  /\ pc' = IF swept[r] + 1 >= ctx[r].n - 1 THEN [pc EXCEPT ![r] = "unmanifest"] ELSE pc
  /\ UNCHANGED <<manifest, pointer, note, writer, ctx, todo, latest, adrift, index>>

SweepChunk(r) ==
  /\ pc[r] = "sweep" /\ swept[r] < ctx[r].n
  /\ LET x == <<ctx[r].slug, swept[r] + 1>> IN
       /\ chunk' = [chunk EXCEPT ![x] = None]
       /\ part' = part \ {x}
  /\ swept' = [swept EXCEPT ![r] = @ + 1]
  /\ pc' = IF swept[r] + 1 = ctx[r].n THEN [pc EXCEPT ![r] = "unmanifest"] ELSE pc
  /\ UNCHANGED <<manifest, pointer, note, writer, ctx, todo, latest, adrift, index>>

SweepManifest(r) ==
  /\ pc[r] = "unmanifest"
  /\ manifest' = [manifest EXCEPT ![ctx[r].slug] = None]
  /\ latest' = [latest EXCEPT ![ctx[r].topic] = IF @ = r THEN None ELSE @]
  /\ Goto(r, "forget")
  /\ UNCHANGED <<chunk, part, pointer, note, writer, ctx, todo, swept, adrift, index>>

\* _forget_last_run pops the topic, and Last if it is this run's slug.
Dropped(r) ==
  [pointer EXCEPT ![ctx[r].topic] = None, ![Last] = IF @ = ctx[r].slug THEN None ELSE @]

\* Nothing left to point at: the file goes.  A pointer that does not parse stays.
ForgetLastRun(r) ==
  /\ pc[r] = "forget" /\ Dropped(r) = NoIndex
  /\ pointer' = NoIndex
  /\ Goto(r, "complete")
  /\ UNCHANGED <<chunk, part, manifest, note, writer, ctx, todo, swept, latest, adrift, index>>

\* Other entries are left: write_text opens last_run.json itself, which empties it.
BeginRewrite(r) ==
  /\ pc[r] = "forget" /\ Dropped(r) # NoIndex
  /\ pointer' = NoIndex
  /\ index' = [index EXCEPT ![r] = Dropped(r)]
  /\ Goto(r, "rewrite")
  /\ UNCHANGED <<chunk, part, manifest, note, writer, ctx, todo, swept, latest, adrift>>

EndRewrite(r) ==
  /\ pc[r] = "rewrite"
  /\ pointer' = index[r]
  /\ index' = [index EXCEPT ![r] = NoIndex]
  /\ Goto(r, "complete")
  /\ UNCHANGED <<chunk, part, manifest, note, writer, ctx, todo, swept, latest, adrift>>

\* An OSError is swallowed.  Of the read, the unlink or the open: the entries stay.
ForgetRefused(r) ==
  /\ pc[r] = "forget" /\ pointer # NoIndex
  /\ adrift' = adrift \cup {ctx[r].topic}
  /\ Goto(r, "complete")
  /\ UNCHANGED <<disk, writer, ctx, todo, swept, latest, index>>

\* Of the write, into the emptied file: every entry is lost.
RewriteRefused(r) ==
  /\ pc[r] = "rewrite"
  /\ adrift' = Topic
  /\ index' = [index EXCEPT ![r] = NoIndex]
  /\ Goto(r, "complete")
  /\ UNCHANGED <<disk, writer, ctx, todo, swept, latest>>
-----------------------------------------------------------------------------
\* A stage raises, the plan is declined, or the run is cancelled: RunFailed, and
\* _tmp is left as it is.  Threads go on.  Between two awaits only a call on the
\* file system raises, and none of _forget_last_run.
Fail(r) ==
  /\ pc[r] \in Active \ {"forget", "rewrite"}
  /\ Goto(r, "failed")
  /\ todo' = [todo EXCEPT ![r] = {}]
  /\ UNCHANGED <<disk, writer, ctx, swept, latest, adrift, index>>

\* The process of the run dies, with its threads, at any point.  In the middle of
\* the rewrite it leaves an empty pointer, or half of one.
Crash(r) ==
  /\ pc[r] \in Active
  /\ Goto(r, "crashed")
  /\ todo' = [todo EXCEPT ![r] = {}]
  /\ writer' = {w \in writer : w.run # r}
  /\ adrift' = IF pc[r] = "rewrite" THEN Topic ELSE adrift
  /\ UNCHANGED <<disk, ctx, swept, latest, index>>

Step(r) ==
  \/ Route(r) \/ Preflight(r) \/ Approve(r)
  \/ WriteManifest(r) \/ WritePointer(r) \/ PlanSections(r)
  \/ \E i \in Heading : BeginWrite(r, i) \/ SectionFails(r, i)
  \/ SectionsDone(r) \/ Assemble(r) \/ Incomplete(r) \/ PlaceNote(r) \/ Finish(r)
  \/ BeginSweep(r) \/ SweepChunk(r) \/ SweepManifest(r)
  \/ ForgetLastRun(r) \/ BeginRewrite(r) \/ EndRewrite(r)
  \/ ForgetRefused(r) \/ RewriteRefused(r)

Next ==
  \/ \E r \in Run, o \in Override :
       \/ \E t \in Topic, res \in BOOLEAN : Start(r, t, o, res)
       \/ StartLast(r, o)
  \/ \E r \in Run : Step(r) \/ Fail(r) \/ Crash(r)
  \/ \E w \in writer : EndWrite(w)

Spec == Init /\ [][Next]_vars
-----------------------------------------------------------------------------
Notes == {note[p] : p \in {q \in Path : note[q] # None}}

\* A note on disk has all its sections, each written for the plan of the run that
\* assembled it, whatever was cancelled, killed and resumed before; and the state is of its type.
NoteWhole == TypeOK /\ \A x \in Notes : \A i \in 1 .. x.n : x.parts[i] = x.plan

\* Work is not lost: a section that reached the disk is deleted only once it is
\* in a note.
ChunksOutliveRuns ==
  [][\A x \in Slug \X Heading :
       chunk[x] # None /\ chunk'[x] = None =>
         \E y \in Notes : y.parts[x[2]] = chunk[x]]_vars

\* resume.py:132: find_resumable returns "the manifest to resume for topic".
ResumesItsTopic ==
  \A r \in Run : ctx[r] # None => (ctx[r].plan # None =>
    ctx[ctx[r].plan].topic = ctx[r].topic)

NoRewrite == \A r \in Run : pc[r] # "rewrite"

\* As long as the last run of a topic that reached the disk has not deleted its
\* manifest, a resume of the topic finds that run's plan, unless a rewrite of the
\* pointer in place was killed or refused half-way since the run entered its topic:
\* that loses the entries of every topic.  (Once a resume has been misled to another
\* topic's plan, see ResumesItsTopic, all bets are off.)
InterruptedRunResumable ==
  ResumesItsTopic /\ NoRewrite => \A t \in Topic \ adrift : latest[t] # None =>
    /\ Resumable(t)
    /\ manifest[pointer[t]].topic = t
    /\ manifest[pointer[t]].plan = ctx[latest[t]].plan

\* A run that completes leaves none of its files, nor its pointer entries unless the
\* system refused to write the pointer, which the run does not report; and the entry
\* it drops is its own ("this run's entry from the resume pointer", stages.py:2229),
\* as long as runs do not overlap: the code pops the topic whatever slug it has.
\* That the others' entries outlive the rewrite is InterruptedRunResumable.
CleanExit ==
  [][\A r \in Run :
       LET s == ctx[r].slug
           t == ctx[r].topic
       IN /\ pc[r] = "forget" /\ pointer' # pointer => pointer[t] = s
          /\ pc[r] # "complete" /\ pc'[r] = "complete" =>
               /\ manifest'[s] = None
               /\ \A i \in Heading : chunk'[s, i] = None /\ <<s, i>> \notin part'
               /\ t \notin adrift' => pointer'[t] = None /\ pointer'[Last] # s]_vars

\* As long as runs do not overlap, a run never replaces a note that is already
\* there ("Never returns a path that already holds a note", _note_destination),
\* nor the sidecar of another plan (resume.py:4-5, "bump the slug when manifest or
\* chunks already exist"), though both look at the disk long before they write.
NothingReplaced ==
  [][/\ \A p \in Path : note[p] # None => note'[p] = note[p]
     /\ \A s \in Slug : manifest[s] # None /\ manifest'[s] # None =>
          manifest'[s].plan = manifest[s].plan]_vars
=============================================================================
