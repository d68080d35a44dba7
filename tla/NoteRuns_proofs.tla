--------------------------- MODULE NoteRuns_proofs ---------------------------
(***************************************************************************)
(* Proofs about what the runs leave on the disk, for any number of runs,   *)
(* topics, domains, slugs, headings and copies, killed, cancelled and      *)
(* resumed at any point, as long as two runs do not overlap: two runs at a *)
(* time may choose one slug or one note name, and the properties are false *)
(* then.  One interface keeps its runs apart (IdleMeansStopped, module     *)
(* RunSession).  Threads of a run that failed do overlap with the next.    *)
(*                                                                         *)
(* IInv is inductive.  The sidecar of a slug is the key to it: as long as  *)
(* it is on disk, chunks, .part files and threads that still count are of  *)
(* the plan it has, and without it there are none.  While the pointer is   *)
(* rewritten in place, what is about to be written answers for it.         *)
(***************************************************************************)
EXTENDS NoteRuns, TLAPS

USE NoteRunsAssumption, NoneAssumption

\* The sidecar of its slug is that of the run's plan.
Own(r) ==
  /\ manifest[ctx[r].slug] # None
  /\ manifest[ctx[r].slug].plan = ctx[r].plan /\ manifest[ctx[r].slug].n = ctx[r].n

Gone(s, i) == chunk[<<s, i>>] = None /\ <<s, i>> \notin part

\* Stages in which the sidecar on disk was written by the run, and those in which
\* the pointer was as well.
Entered == {"plan", "sections", "assembly", "place", "finish", "cleanup", "sweep", "unmanifest"}
Claimed == Entered \cup {"pointer"}

\* What a run's context holds when.
CtxOK(r) ==
  /\ pc[r] = "new" => ctx[r] = None
  /\ pc[r] # "new" => ctx[r] \in Context
  /\ pc[r] = "preflight" => ctx[r].plan = None
  /\ pc[r] \in Active \ {"preflight"} /\ (pc[r] = "route" => ctx[r].plan # None) =>
       ctx[r].slug \in Slug /\ ctx[r].plan \in Run /\ ctx[r].n \in Heading
  /\ pc[r] \in Active \ {"route"} => ctx[r].domain \in Domain
  /\ pc[r] = "sections" => todo[r] \subseteq 1 .. ctx[r].n
  /\ pc[r] \notin {"sweep", "unmanifest", "forget", "rewrite"} \cup Ended => swept[r] = 0

\* What the disk holds for a run when.
DiskOK(r) ==
  /\ pc[r] = "route" /\ ctx[r].plan # None => Own(r)
  /\ pc[r] = "approve" => manifest[ctx[r].slug] = None
  /\ pc[r] = "manifest" => manifest[ctx[r].slug] = None \/ Own(r)
  /\ pc[r] \in Claimed => Own(r) /\ manifest[ctx[r].slug].topic = ctx[r].topic
  /\ pc[r] \in Entered => pointer[ctx[r].topic] = ctx[r].slug /\ latest[ctx[r].topic] = r
  /\ pc[r] = "forget" => /\ manifest[ctx[r].slug] = None
                         /\ pointer[ctx[r].topic] = ctx[r].slug /\ latest[ctx[r].topic] = None
  /\ pc[r] = "sweep" => \A i \in 1 .. swept[r] : Gone(ctx[r].slug, i)
  /\ pc[r] = "unmanifest" => \A i \in 1 .. ctx[r].n : Gone(ctx[r].slug, i)

\* The note on its way to the vault, and the note that is there.
NoteOK(r) ==
  /\ pc[r] = "place" => /\ ctx[r].dest \in Path /\ note[ctx[r].dest] = None
                        /\ \A i \in 1 .. ctx[r].n : ctx[r].parts[i] = ctx[r].plan
  /\ pc[r] \in {"finish", "cleanup", "sweep"} =>
       \E p \in Path : note[p] # None /\ \A i \in 1 .. ctx[r].n : note[p].parts[i] = ctx[r].plan

Alone == \A q, r \in Run : pc[q] \in Active /\ pc[r] \in Active => q = r

\* What is on disk for a slug is of the plan of its sidecar; without a sidecar
\* there is nothing, and a thread of another plan has lost its .part file.
SlugInv ==
  /\ \A s \in Slug, i \in Heading :
       /\ chunk[<<s, i>>] # None => /\ manifest[s] # None /\ i <= manifest[s].n
                                    /\ chunk[<<s, i>>] = manifest[s].plan
       /\ <<s, i>> \in part => manifest[s] # None /\ i <= manifest[s].n
  /\ \A w \in writer : <<w.slug, w.i>> \in part => manifest[w.slug].plan = w.plan

WholeInv == \A p \in Path : note[p] # None => \A i \in 1 .. note[p].n : note[p].parts[i] = note[p].plan

\* Only runs that have begun declare plans.
PlanInv ==
  /\ \A s \in Slug : manifest[s] # None => pc[manifest[s].plan] # "new"
  /\ \A r \in Run : pc[r] # "new" /\ ctx[r].plan # None => pc[ctx[r].plan] # "new"

\* The last run to enter a topic in the pointer is a run of that topic.
LatestInv ==
  \A t \in Topic : latest[t] # None =>
    pc[latest[t]] # "new" /\ ctx[latest[t]].plan \in Run /\ ctx[latest[t]].topic = t

\* The rewrite of the pointer in place: what is about to be written leads the other
\* topics to where the pointer led them.
RewriteInv ==
  \A r \in Run : pc[r] = "rewrite" =>
    /\ manifest[ctx[r].slug] = None
    /\ index[r][ctx[r].topic] = None /\ index[r][Last] # ctx[r].slug
    /\ ResumesItsTopic => \A t \in Topic \ adrift : latest[t] # None =>
         /\ index[r][t] \in Slug /\ manifest[index[r][t]] # None
         /\ manifest[index[r][t]].topic = t
         /\ manifest[index[r][t]].plan = ctx[latest[t]].plan

RunInv == \A r \in Run : CtxOK(r) /\ DiskOK(r) /\ NoteOK(r)

IInv ==
  /\ TypeOK /\ Alone /\ RunInv /\ SlugInv /\ WholeInv
  /\ PlanInv /\ LatestInv /\ RewriteInv /\ InterruptedRunResumable
-----------------------------------------------------------------------------
(* Types.                                                                  *)

\* A context with some of its fields set.
LEMMA ContextSet ==
  ASSUME NEW c \in Context
  PROVE  /\ \A d \in Domain : LET e == [c EXCEPT !.domain = d] IN
              /\ e \in Context /\ e.domain = d /\ e.topic = c.topic /\ e.plan = c.plan
              /\ e.slug = c.slug /\ e.n = c.n /\ e.dest = c.dest /\ e.parts = c.parts
         /\ \A s \in Slug, n \in Heading, p \in Run :
              LET e == [c EXCEPT !.slug = s, !.n = n, !.plan = p] IN
              /\ e \in Context /\ e.domain = c.domain /\ e.topic = c.topic /\ e.plan = p
              /\ e.slug = s /\ e.n = n
         /\ \A x \in Path, f \in [Heading -> Run \cup {None}] :
              LET e == [c EXCEPT !.dest = x, !.parts = f] IN
              /\ e \in Context /\ e.domain = c.domain /\ e.topic = c.topic /\ e.plan = c.plan
              /\ e.slug = c.slug /\ e.n = c.n /\ e.dest = x /\ e.parts = f
<1>1. ASSUME NEW d \in Domain
      PROVE  LET e == [c EXCEPT !.domain = d] IN
             /\ e \in Context /\ e.domain = d /\ e.topic = c.topic /\ e.plan = c.plan
             /\ e.slug = c.slug /\ e.n = c.n /\ e.dest = c.dest /\ e.parts = c.parts
  BY DEF Context
<1>2. ASSUME NEW s \in Slug, NEW n \in Heading, NEW p \in Run
      PROVE  LET e == [c EXCEPT !.slug = s, !.n = n, !.plan = p] IN
             /\ e \in Context /\ e.domain = c.domain /\ e.topic = c.topic /\ e.plan = p
             /\ e.slug = s /\ e.n = n
  BY DEF Context
<1>3. ASSUME NEW x \in Path, NEW f \in [Heading -> Run \cup {None}]
      PROVE  LET e == [c EXCEPT !.dest = x, !.parts = f] IN
             /\ e \in Context /\ e.domain = c.domain /\ e.topic = c.topic /\ e.plan = c.plan
             /\ e.slug = c.slug /\ e.n = c.n /\ e.dest = x /\ e.parts = f
  BY DEF Context
<1> QED BY <1>1, <1>2, <1>3

\* The context a run starts with: blank, or with what the manifest has.
LEMMA StartContext ==
  ASSUME TypeOK, NEW t \in Topic, NEW o \in Override, NEW res \in BOOLEAN, NEW c,
         c = Begun(t, o, res)
  PROVE  /\ c \in Context /\ c.topic = t
         /\ \/ c.plan = None
            \/ /\ c.slug \in Slug /\ manifest[c.slug] # None
               /\ c.plan = manifest[c.slug].plan /\ c.n = manifest[c.slug].n
               /\ c.plan \in Run /\ c.n \in Heading
<1>1. PICK b \in Context : /\ b = Blank(t, o, res) /\ b.topic = t /\ b.plan = None
  <2>1. /\ o \in Domain \cup {None} /\ 0 \in Heading \cup {0}
        /\ [i \in Heading |-> None] \in [Heading -> Run \cup {None}]
    OBVIOUS
  <2>2. Blank(t, o, res) \in Context
    BY <2>1 DEF Blank, Context
  <2>3. Blank(t, o, res).topic = t /\ Blank(t, o, res).plan = None
    BY DEF Blank
  <2> QED BY <2>2, <2>3
<1>2. CASE ~ (res /\ Resumable(t))
  BY <1>1, <1>2 DEF Begun
<1>3. CASE res /\ Resumable(t)
  <2>1. PICK s \in Slug : s = pointer[t]
    BY <1>3 DEF Resumable, TypeOK, Pointer
  <2>2. PICK m \in Manifest : m = manifest[s] /\ manifest[s] # None
    BY <1>3, <2>1 DEF Resumable, TypeOK
  <2>3. m.plan \in Run /\ m.n \in Heading /\ m.domain \in Domain
    BY DEF Manifest
  <2>4. c = [b EXCEPT !.slug = s, !.plan = m.plan, !.n = m.n, !.domain = m.domain]
    BY <1>1, <1>3, <2>1, <2>2 DEF Begun
  <2>5. c \in Context /\ c.topic = t /\ c.slug = s /\ c.plan = m.plan /\ c.n = m.n
    BY <1>1, <2>3, <2>4, ZenonT(60) DEF Context
  <2> QED BY <2>2, <2>3, <2>5
<1> QED BY <1>2, <1>3

LEMMA StartType ==
  ASSUME IInv, NEW r \in Run, NEW t \in Topic, NEW o \in Override, NEW res \in BOOLEAN,
         Start(r, t, o, res)
  PROVE  TypeOK'
<1>0. TypeOK
  BY DEF IInv
<1>1. PICK c \in Context : ctx' = [ctx EXCEPT ![r] = c]
  BY <1>0, StartContext DEF Start
<1>2. pc' = [pc EXCEPT ![r] = "route"] /\ "route" \in Active
  BY DEF Start, Goto, Active, Waiting
<1> QED BY <1>0, <1>1, <1>2 DEF Start, TypeOK, disk

\* The steps of a run that has begun.
LEMMA StepType ==
  ASSUME IInv, NEW r \in Run, Step(r) \/ Fail(r) \/ Crash(r)
  PROVE  TypeOK'
<1>0. TypeOK /\ CtxOK(r)
  BY DEF IInv, RunInv
<1>p. \A x \in Active \cup Ended : [pc EXCEPT ![r] = x] \in [Run -> {"new"} \cup Active \cup Ended]
  BY <1>0 DEF TypeOK
<1>a. /\ Waiting \subseteq Active /\ MidStep \subseteq Active
      /\ "complete" \in Ended /\ "failed" \in Ended /\ "crashed" \in Ended
  BY DEF Active, Ended
<1>w. /\ {"route", "preflight", "approve", "manifest", "plan", "sections", "assembly",
          "place", "finish", "cleanup"} = Waiting
      /\ {"pointer", "sweep", "unmanifest", "forget", "rewrite"} = MidStep
  BY DEF Waiting, MidStep
<1>c. ASSUME pc[r] \in Active
      PROVE  ctx[r] \in Context
  BY <1>0, <1>c DEF CtxOK, Active, Waiting, MidStep
<1>1. CASE Route(r)
  <2>1. PICK d \in Domain : ctx' = [ctx EXCEPT ![r].domain = d]
    <3>1. ctx[r] \in Context
      BY <1>1, <1>a, <1>c, <1>w DEF Route
    <3>2. RoutingDecision(ctx[r]) \subseteq Domain
      BY <3>1 DEF RoutingDecision, Context
    <3> QED BY <1>1, <3>2 DEF Route
  <2>2. ctx[r] \in Context
    BY <1>1, <1>a, <1>c, <1>w DEF Route
  <2>3. ctx' \in [Run -> Context \cup {None}]
    BY <1>0, <2>1, <2>2, ContextSet DEF TypeOK
  <2>4. pc' \in [Run -> {"new"} \cup Active \cup Ended]
    BY <1>1, <1>a, <1>p, <1>w DEF Route, Goto
  <2> QED BY <1>0, <1>1, <2>3, <2>4 DEF Route, TypeOK, disk
<1>2. CASE Preflight(r)
  <2>1. PICK s \in Slug, n \in Heading :
          ctx' = [ctx EXCEPT ![r].slug = s, ![r].n = n, ![r].plan = r]
    BY <1>2 DEF Preflight
  <2>2. ctx[r] \in Context
    BY <1>2, <1>a, <1>c, <1>w DEF Preflight
  <2>3. ctx' = [ctx EXCEPT ![r] = [ctx[r] EXCEPT !.slug = s, !.n = n, !.plan = r]]
    BY <1>0, <2>1, <2>2 DEF TypeOK, Context
  <2>4. ctx' \in [Run -> Context \cup {None}]
    BY <1>0, <2>2, <2>3, ContextSet DEF TypeOK
  <2>5. pc' \in [Run -> {"new"} \cup Active \cup Ended]
    BY <1>2, <1>a, <1>p, <1>w DEF Preflight, Goto
  <2> QED BY <1>0, <1>2, <2>4, <2>5 DEF Preflight, TypeOK, disk
<1>3. CASE Approve(r) \/ SectionsDone(r) \/ Incomplete(r) \/ Finish(r) \/ BeginSweep(r)
  <2>1. pc' \in [Run -> {"new"} \cup Active \cup Ended]
    BY <1>3, <1>a, <1>p, <1>w
       DEF Approve, SectionsDone, Incomplete, Finish, BeginSweep, Goto
  <2> QED BY <1>0, <1>3, <2>1
          DEF Approve, SectionsDone, Incomplete, Finish, BeginSweep, TypeOK, disk
<1>4. CASE WriteManifest(r)
  <2>1. /\ ctx[r] \in Context /\ ctx[r].slug \in Slug /\ ctx[r].plan \in Run
        /\ ctx[r].n \in Heading /\ ctx[r].domain \in Domain
    BY <1>0, <1>4, <1>a, <1>c, <1>w DEF WriteManifest, CtxOK
  <2>2. [plan |-> ctx[r].plan, topic |-> ctx[r].topic, domain |-> ctx[r].domain,
         n |-> ctx[r].n] \in Manifest
    BY <2>1 DEF Manifest, Context
  <2>3. manifest' \in [Slug -> Manifest \cup {None}]
    BY <1>0, <1>4, <2>2 DEF WriteManifest, TypeOK
  <2>4. pc' \in [Run -> {"new"} \cup Active \cup Ended]
    BY <1>4, <1>a, <1>p, <1>w DEF WriteManifest, Goto
  <2> QED BY <1>0, <1>4, <2>3, <2>4 DEF WriteManifest, TypeOK
<1>5. CASE WritePointer(r)
  <2>1. ctx[r] \in Context /\ ctx[r].slug \in Slug /\ ctx[r].topic \in Topic
    BY <1>0, <1>5, <1>a, <1>c, <1>w DEF WritePointer, CtxOK, Context
  <2>2. /\ pointer' \in Pointer
        /\ latest' \in [Topic -> Run \cup {None}] /\ adrift' \in SUBSET Topic
    BY <1>0, <1>5, <2>1 DEF WritePointer, TypeOK, Pointer
  <2>3. pc' \in [Run -> {"new"} \cup Active \cup Ended]
    BY <1>5, <1>a, <1>p, <1>w DEF WritePointer, Goto
  <2> QED BY <1>0, <1>5, <2>2, <2>3 DEF WritePointer, TypeOK
<1>6. CASE PlanSections(r)
  <2>1. ctx[r].slug \in Slug /\ ctx[r].n \in Heading
    BY <1>0, <1>6, <1>a, <1>w DEF PlanSections, CtxOK
  <2>2. 1 .. ctx[r].n \subseteq Heading
    BY <2>1 DEF Heading
  <2>3. todo' \in [Run -> SUBSET Heading] /\ part' \in SUBSET (Slug \X Heading)
    BY <1>0, <1>6, <2>1, <2>2 DEF PlanSections, TypeOK
  <2>4. pc' \in [Run -> {"new"} \cup Active \cup Ended]
    BY <1>6, <1>a, <1>p, <1>w DEF PlanSections, Goto
  <2> QED BY <1>0, <1>6, <2>3, <2>4 DEF PlanSections, TypeOK
<1>7. ASSUME NEW i \in Heading, BeginWrite(r, i) PROVE TypeOK'
  <2>1. ctx[r].slug \in Slug /\ ctx[r].plan \in Run
    BY <1>0, <1>7, <1>a, <1>w DEF BeginWrite, CtxOK
  <2>2. /\ part' \in SUBSET (Slug \X Heading) /\ todo' \in [Run -> SUBSET Heading]
        /\ writer' \in SUBSET [run : Run, slug : Slug, i : Heading, plan : Run]
    BY <1>0, <1>7, <2>1 DEF BeginWrite, TypeOK
  <2> QED BY <1>0, <1>7, <2>2 DEF BeginWrite, TypeOK
<1>8. ASSUME NEW i \in Heading, SectionFails(r, i) PROVE TypeOK'
  BY <1>0, <1>8 DEF SectionFails, TypeOK, disk
<1>9. CASE Assemble(r)
  <2>1. /\ ctx[r] \in Context /\ ctx[r].slug \in Slug /\ ctx[r].n \in Heading
        /\ ctx[r].domain \in Domain /\ ctx[r].topic \in Topic
    BY <1>0, <1>9, <1>a, <1>c, <1>w DEF Assemble, CtxOK, Context
  <2>2. PICK x \in Path, f \in [Heading -> Run \cup {None}] :
          ctx' = [ctx EXCEPT ![r].dest = x, ![r].parts = f]
    <3>1. PICK k \in 1 .. MaxCopy :
            ctx' = [ctx EXCEPT
              ![r].dest = <<ctx[r].domain, ctx[r].topic, k>>,
              ![r].parts = [i \in Heading |-> IF i <= ctx[r].n
                              THEN chunk[ctx[r].slug, i] ELSE None]]
      BY <1>9 DEF Assemble
    <3>2. <<ctx[r].domain, ctx[r].topic, k>> \in Path
      BY <2>1 DEF Path
    <3>3. [i \in Heading |-> IF i <= ctx[r].n THEN chunk[ctx[r].slug, i] ELSE None]
            \in [Heading -> Run \cup {None}]
      BY <1>0, <2>1 DEF TypeOK
    <3> QED BY <3>1, <3>2, <3>3
  <2>3. ctx' = [ctx EXCEPT ![r] = [ctx[r] EXCEPT !.dest = x, !.parts = f]]
    BY <1>0, <2>1, <2>2 DEF TypeOK, Context
  <2>4. ctx' \in [Run -> Context \cup {None}]
    BY <1>0, <2>1, <2>3, ContextSet DEF TypeOK
  <2>5. pc' \in [Run -> {"new"} \cup Active \cup Ended]
    BY <1>9, <1>a, <1>p, <1>w DEF Assemble, Goto
  <2> QED BY <1>0, <1>9, <2>4, <2>5 DEF Assemble, TypeOK, disk
<1>10. CASE PlaceNote(r)
  <2>1. ctx[r] \in Context /\ ctx[r].plan \in Run /\ ctx[r].n \in Heading
    BY <1>0, <1>10, <1>a, <1>c, <1>w DEF PlaceNote, CtxOK
  <2>2. [plan |-> ctx[r].plan, n |-> ctx[r].n, parts |-> ctx[r].parts, by |-> r] \in Note
    BY <2>1 DEF Note, Context
  <2>3. note' \in [Path -> Note \cup {None}]
    BY <1>0, <1>10, <2>2 DEF PlaceNote, TypeOK
  <2>4. pc' \in [Run -> {"new"} \cup Active \cup Ended]
    BY <1>10, <1>a, <1>p, <1>w DEF PlaceNote, Goto
  <2> QED BY <1>0, <1>10, <2>3, <2>4 DEF PlaceNote, TypeOK
<1>11. CASE SweepChunk(r)
  <2>1. ctx[r].n \in Heading /\ ctx[r].slug \in Slug /\ swept[r] \in 0 .. MaxHeadings
    BY <1>0, <1>11, <1>a, <1>w DEF SweepChunk, CtxOK, TypeOK
  <2>2. swept[r] + 1 \in 0 .. MaxHeadings
    BY <1>11, <2>1 DEF SweepChunk, Heading
  <2>3. swept' \in [Run -> 0 .. MaxHeadings]
    BY <1>0, <1>11, <2>2 DEF SweepChunk, TypeOK
  <2>4. chunk' \in [Slug \X Heading -> Run \cup {None}] /\ part' \in SUBSET (Slug \X Heading)
    BY <1>0, <1>11 DEF SweepChunk, TypeOK
  <2>5. pc' \in [Run -> {"new"} \cup Active \cup Ended]
    BY <1>0, <1>11, <1>a, <1>p, <1>w DEF SweepChunk, Goto, TypeOK
  <2> QED BY <1>0, <1>11, <2>3, <2>4, <2>5 DEF SweepChunk, TypeOK
<1>12. CASE SweepManifest(r)
  <2>1. manifest' \in [Slug -> Manifest \cup {None}] /\ latest' \in [Topic -> Run \cup {None}]
    BY <1>0, <1>12 DEF SweepManifest, TypeOK
  <2>2. pc' \in [Run -> {"new"} \cup Active \cup Ended]
    BY <1>12, <1>a, <1>p, <1>w DEF SweepManifest, Goto
  <2> QED BY <1>0, <1>12, <2>1, <2>2 DEF SweepManifest, TypeOK
<1>f. NoIndex \in Pointer /\ Dropped(r) \in Pointer
  BY <1>0 DEF NoIndex, Dropped, TypeOK, Pointer
<1>13. CASE \/ ForgetLastRun(r) \/ BeginRewrite(r) \/ EndRewrite(r)
            \/ ForgetRefused(r) \/ RewriteRefused(r)
  <2>1. pointer' \in Pointer /\ index' \in [Run -> Pointer]
    BY <1>0, <1>13, <1>f
       DEF ForgetLastRun, BeginRewrite, EndRewrite, ForgetRefused, RewriteRefused, TypeOK, disk
  <2>2. pc' \in [Run -> {"new"} \cup Active \cup Ended]
    BY <1>13, <1>a, <1>p, <1>w
       DEF ForgetLastRun, BeginRewrite, EndRewrite, ForgetRefused, RewriteRefused, Goto
  <2>3. adrift' \in SUBSET Topic
    <3>1. CASE ForgetRefused(r)
      <4>1. ctx[r].topic \in Topic
        BY <1>a, <1>c, <1>w, <3>1 DEF ForgetRefused, Context
      <4> QED BY <1>0, <3>1, <4>1 DEF ForgetRefused, TypeOK
    <3>2. CASE ~ ForgetRefused(r)
      BY <1>0, <1>13, <3>2
         DEF ForgetLastRun, BeginRewrite, EndRewrite, RewriteRefused, TypeOK
    <3> QED BY <3>1, <3>2
  <2>4. UNCHANGED <<chunk, part, manifest, note, writer, ctx, todo, swept, latest>>
    BY <1>13
       DEF ForgetLastRun, BeginRewrite, EndRewrite, ForgetRefused, RewriteRefused, disk
  <2> QED BY <1>0, <2>1, <2>2, <2>3, <2>4 DEF TypeOK
<1>14. CASE Fail(r) \/ Crash(r)
  <2>1. pc' \in [Run -> {"new"} \cup Active \cup Ended]
    BY <1>14, <1>a, <1>p DEF Fail, Crash, Goto
  <2>2. todo' \in [Run -> SUBSET Heading]
    BY <1>0, <1>14 DEF Fail, Crash, TypeOK
  <2>3. /\ writer' \in SUBSET [run : Run, slug : Slug, i : Heading, plan : Run]
        /\ adrift' \in SUBSET Topic
    BY <1>0, <1>14 DEF Fail, Crash, TypeOK
  <2> QED BY <1>0, <1>14, <2>1, <2>2, <2>3 DEF Fail, Crash, TypeOK, disk
<1> QED
  BY <1>1, <1>2, <1>3, <1>4, <1>5, <1>6, <1>7, <1>8, <1>9, <1>10, <1>11, <1>12, <1>13,
     <1>14 DEF Step

\* A thread ends.
LEMMA EndWriteType ==
  ASSUME IInv, NEW w \in writer, EndWrite(w)
  PROVE  TypeOK'
<1>0. TypeOK
  BY DEF IInv
<1>1. w.slug \in Slug /\ w.i \in Heading /\ w.plan \in Run
  BY <1>0 DEF TypeOK
<1>2. chunk' \in [Slug \X Heading -> Run \cup {None}]
  BY <1>0, <1>1 DEF EndWrite, TypeOK
<1>3. /\ part' \in SUBSET (Slug \X Heading)
      /\ writer' \in SUBSET [run : Run, slug : Slug, i : Heading, plan : Run]
  BY <1>0 DEF EndWrite, TypeOK
<1> QED BY <1>0, <1>2, <1>3 DEF EndWrite, TypeOK
-----------------------------------------------------------------------------
(* What a step leaves alone.                                               *)

\* While a run is active no other is.
LEMMA OneActive ==
  ASSUME IInv, NEW r \in Run, pc[r] \in Active
  PROVE  \A q \in Run : q # r => pc[q] \notin Active
BY DEF IInv, Alone

\* Which places are active, and which stages are what.
LEMMA Places ==
  /\ Active = {"route", "preflight", "approve", "manifest", "plan", "sections", "assembly",
               "place", "finish", "cleanup", "pointer", "sweep", "unmanifest", "forget",
               "rewrite"}
  /\ Ended \cap Active = {} /\ "new" \notin Active \cup Ended
BY DEF Active, Waiting, MidStep, Ended

\* A run that is not active has nothing on disk that it relies on.
LEMMA OthersKeep ==
  ASSUME IInv, NEW r \in Run, \A q \in Run : q # r => pc[q] \notin Active,
         \A q \in Run : q # r => pc'[q] = pc[q] /\ ctx'[q] = ctx[q] /\ swept'[q] = swept[q],
         CtxOK(r)', DiskOK(r)', NoteOK(r)'
  PROVE  Alone' /\ RunInv'
<1>1. Alone'
  BY DEF Alone
<1>2. ASSUME NEW q \in Run, q # r PROVE (CtxOK(q) /\ DiskOK(q) /\ NoteOK(q))'
  <2>1. CtxOK(q) /\ pc'[q] \notin Active
    BY <1>2 DEF IInv, RunInv
  <2>2. CtxOK(q)'
    BY <1>2, <2>1 DEF CtxOK, Active, Waiting
  <2>3. DiskOK(q)' /\ NoteOK(q)'
    BY <2>1 DEF DiskOK, NoteOK, Claimed, Entered, Active, Waiting, MidStep
  <2> QED BY <2>2, <2>3
<1> QED BY <1>1, <1>2 DEF RunInv

\* A run keeps its topic, and its plan once it has one: two runs that have met at
\* one plan with different topics have met for good.
LEMMA TopicsStay ==
  ASSUME IInv, ResumesItsTopic',
         \A q \in Run : pc[q] # "new" =>
           /\ ctx'[q] \in Context /\ ctx'[q].topic = ctx[q].topic
           /\ ctx[q].plan # None => ctx'[q].plan = ctx[q].plan
  PROVE  ResumesItsTopic
<1> SUFFICES ASSUME NEW q \in Run, ctx[q] # None, ctx[q].plan # None
             PROVE  ctx[ctx[q].plan].topic = ctx[q].topic
  BY DEF ResumesItsTopic
<1>0. TypeOK /\ RunInv /\ PlanInv
  BY DEF IInv
<1>1. pc[q] # "new" /\ ctx[q] \in Context
  BY <1>0 DEF RunInv, CtxOK
<1>2. PICK p \in Run : p = ctx[q].plan
  BY <1>1 DEF Context
<1>3. pc[p] # "new"
  BY <1>0, <1>1, <1>2 DEF PlanInv
<1>4. ctx'[q] # None /\ ctx'[q].plan = p /\ ctx'[q].topic = ctx[q].topic
  BY <1>1, <1>2
<1>5. ctx'[p].topic = ctx'[q].topic
  BY <1>2, <1>4 DEF ResumesItsTopic
<1> QED BY <1>2, <1>3, <1>4, <1>5

\* Sidecars and pointer are left alone.
LEMMA HistoryKeeps ==
  ASSUME IInv, manifest' = manifest, pointer' = pointer, latest' = latest,
         \A q \in Run : pc[q] # "new" =>
           /\ pc'[q] # "new"
           /\ ctx'[q] \in Context /\ ctx'[q].topic = ctx[q].topic
           /\ ctx[q].plan # None => ctx'[q].plan = ctx[q].plan,
         \A q \in Run : pc'[q] # "new" /\ ctx'[q].plan # None => pc'[ctx'[q].plan] # "new",
         adrift \subseteq adrift', adrift' = Topic \/ (NoRewrite' => NoRewrite)
  PROVE  PlanInv' /\ LatestInv' /\ InterruptedRunResumable'
<1>0. TypeOK /\ PlanInv /\ LatestInv /\ InterruptedRunResumable
  BY DEF IInv
<1>1. PlanInv'
  <2>1. \A s \in Slug : manifest[s] # None => manifest[s].plan \in Run
    BY <1>0 DEF TypeOK, Manifest
  <2> QED BY <1>0, <2>1 DEF PlanInv
<1>2. ASSUME NEW t \in Topic, latest[t] # None
      PROVE  /\ latest[t] \in Run /\ pc'[latest[t]] # "new"
             /\ ctx'[latest[t]].plan = ctx[latest[t]].plan /\ ctx[latest[t]].plan \in Run
             /\ ctx'[latest[t]].topic = t
  BY <1>0, <1>2 DEF TypeOK, LatestInv
<1>3. LatestInv'
  BY <1>2 DEF LatestInv
<1>4. InterruptedRunResumable'
  <2> SUFFICES ASSUME ResumesItsTopic', NoRewrite', NEW t \in Topic \ adrift', latest[t] # None
               PROVE  /\ Resumable(t)' /\ manifest[pointer[t]].topic = t
                      /\ manifest[pointer[t]].plan = ctx'[latest[t]].plan
    BY DEF InterruptedRunResumable
  <2>1. ResumesItsTopic /\ NoRewrite /\ t \notin adrift
    BY TopicsStay
  <2> QED BY <1>0, <1>2, <2>1 DEF InterruptedRunResumable, Resumable
<1> QED BY <1>1, <1>3, <1>4

\* A step of the active run that leaves the disk alone.
LEMMA QuietKeeps ==
  ASSUME IInv, TypeOK', NEW r \in Run, pc[r] \in Active,
         UNCHANGED <<disk, latest>>, writer' \subseteq writer, pc'[r] # "rewrite",
         adrift \subseteq adrift', pc[r] = "rewrite" => adrift' = Topic,
         \A q \in Run : q # r => pc'[q] = pc[q] /\ ctx'[q] = ctx[q] /\ swept'[q] = swept[q],
         pc'[r] # "new", ctx'[r].topic = ctx[r].topic,
         ctx'[r].plan = ctx[r].plan \/ (ctx[r].plan = None /\ ctx'[r].plan = r),
         CtxOK(r)', DiskOK(r)', NoteOK(r)'
  PROVE  IInv'
<1>0. TypeOK /\ RunInv /\ SlugInv /\ WholeInv /\ PlanInv
  BY DEF IInv
<1>1. /\ chunk' = chunk /\ part' = part /\ manifest' = manifest /\ pointer' = pointer
      /\ note' = note /\ latest' = latest
  BY DEF disk
<1>2. Alone' /\ RunInv'
  BY OneActive, OthersKeep
<1>3. SlugInv' /\ WholeInv'
  BY <1>0, <1>1 DEF SlugInv, WholeInv
<1>4. \A q \in Run : pc[q] # "new" =>
        /\ pc'[q] # "new"
        /\ ctx'[q] \in Context /\ ctx'[q].topic = ctx[q].topic
        /\ ctx[q].plan # None => ctx'[q].plan = ctx[q].plan
  BY <1>0, <1>2 DEF RunInv, CtxOK
<1>5. ASSUME NEW q \in Run, pc'[q] # "new", ctx'[q].plan # None
      PROVE  pc'[ctx'[q].plan] # "new"
  <2>1. ctx'[q] \in Context
    BY <1>2, <1>5 DEF RunInv, CtxOK
  <2>2. PICK p \in Run : p = ctx'[q].plan
    BY <1>5, <2>1 DEF Context
  <2>3. pc[r] # "new"
    BY DEF Active, Waiting, MidStep
  <2>4. p = r \/ pc[p] # "new"
    BY <1>0, <1>5, <2>2, <2>3 DEF PlanInv
  <2> QED BY <1>4, <2>2, <2>4
<1>6. adrift' = Topic \/ (NoRewrite' => NoRewrite)
  BY OneActive, Places DEF NoRewrite
<1>7. PlanInv' /\ LatestInv' /\ InterruptedRunResumable'
  BY <1>1, <1>4, <1>5, <1>6, HistoryKeeps
<1>8. RewriteInv'
  BY OneActive, Places DEF RewriteInv
<1> QED BY <1>2, <1>3, <1>7, <1>8 DEF IInv
-----------------------------------------------------------------------------
(* The steps that leave the disk alone.                                    *)

LEMMA RouteStep ==
  ASSUME IInv, NEW r \in Run, Route(r)
  PROVE  IInv'
<1>0. TypeOK /\ CtxOK(r) /\ DiskOK(r)
  BY DEF IInv, RunInv
<1>1. /\ pc[r] = "route" /\ UNCHANGED <<disk, writer, todo, swept, latest, adrift, index>>
      /\ pc' = [pc EXCEPT ![r] = IF ctx[r].plan = None THEN "preflight" ELSE "manifest"]
  BY DEF Route, Goto
<1>2. PICK c \in Context : c = ctx[r]
  BY <1>0, <1>1 DEF CtxOK
<1>3. PICK d \in Domain : ctx' = [ctx EXCEPT ![r].domain = d]
  <2>1. RoutingDecision(c) \subseteq Domain
    BY DEF RoutingDecision, Context
  <2> QED BY <1>2, <2>1 DEF Route
<1>4. PICK e : e = [c EXCEPT !.domain = d]
  OBVIOUS
<1>5. /\ e \in Context /\ e.domain = d /\ e.topic = c.topic /\ e.plan = c.plan
      /\ e.slug = c.slug /\ e.n = c.n
  BY <1>4 DEF Context
<1>6. ctx'[r] = e /\ \A q \in Run : q # r => ctx'[q] = ctx[q]
  BY <1>0, <1>2, <1>3, <1>4 DEF TypeOK
<1>7. /\ pc'[r] = IF c.plan = None THEN "preflight" ELSE "manifest"
      /\ \A q \in Run : q # r => pc'[q] = pc[q]
  BY <1>0, <1>1, <1>2 DEF TypeOK
<1>8. manifest' = manifest /\ swept' = swept
  BY <1>1 DEF disk
<1>9. CtxOK(r)'
  BY <1>0, <1>1, <1>2, <1>5, <1>6, <1>7, <1>8, Places DEF CtxOK
<1>10. DiskOK(r)'
  BY <1>0, <1>1, <1>2, <1>5, <1>6, <1>7, <1>8 DEF DiskOK, Own, Claimed, Entered
<1>11. NoteOK(r)'
  BY <1>7 DEF NoteOK
<1>12. TypeOK'
  BY StepType DEF Step
<1>13. pc[r] \in Active
  BY <1>1, Places
<1>14. /\ pc'[r] # "new" /\ ctx'[r].topic = ctx[r].topic /\ ctx'[r].plan = ctx[r].plan
       /\ \A q \in Run : q # r => pc'[q] = pc[q] /\ ctx'[q] = ctx[q] /\ swept'[q] = swept[q]
       /\ UNCHANGED <<disk, latest>> /\ writer' \subseteq writer
       /\ pc'[r] # "rewrite" /\ pc[r] # "rewrite" /\ adrift' = adrift
  BY <1>1, <1>2, <1>5, <1>6, <1>7, <1>8
<1> QED BY <1>9, <1>10, <1>11, <1>12, <1>13, <1>14, QuietKeeps

LEMMA PreflightStep ==
  ASSUME IInv, NEW r \in Run, Preflight(r)
  PROVE  IInv'
<1>0. TypeOK /\ CtxOK(r)
  BY DEF IInv, RunInv
<1>1. /\ pc[r] = "preflight" /\ UNCHANGED <<disk, writer, todo, swept, latest, adrift, index>>
      /\ pc' = [pc EXCEPT ![r] = "approve"]
  BY DEF Preflight, Goto
<1>2. PICK c \in Context : c = ctx[r]
  BY <1>0, <1>1 DEF CtxOK
<1>3. PICK s \in Slug, n \in Heading :
        ~SlugTaken(s) /\ ctx' = [ctx EXCEPT ![r].slug = s, ![r].n = n, ![r].plan = r]
  BY DEF Preflight
<1>4. PICK e : e = [c EXCEPT !.slug = s, !.n = n, !.plan = r]
  OBVIOUS
<1>5. /\ e \in Context /\ e.domain = c.domain /\ e.topic = c.topic /\ e.plan = r
      /\ e.slug = s /\ e.n = n
  BY <1>4 DEF Context
<1>6. ctx'[r] = e /\ \A q \in Run : q # r => ctx'[q] = ctx[q]
  BY <1>0, <1>2, <1>3, <1>4 DEF TypeOK, Context
<1>7. pc'[r] = "approve" /\ \A q \in Run : q # r => pc'[q] = pc[q]
  BY <1>0, <1>1 DEF TypeOK
<1>8. manifest' = manifest /\ swept' = swept /\ manifest[s] = None
  BY <1>1, <1>3 DEF disk, SlugTaken
<1>9. CtxOK(r)'
  BY <1>0, <1>1, <1>2, <1>5, <1>6, <1>7, <1>8, Places DEF CtxOK
<1>10. DiskOK(r)'
  BY <1>5, <1>6, <1>7, <1>8 DEF DiskOK, Claimed, Entered
<1>11. NoteOK(r)'
  BY <1>7 DEF NoteOK
<1>12. TypeOK'
  BY StepType DEF Step
<1>13. pc[r] \in Active
  BY <1>1, Places
<1>14. /\ pc'[r] # "new" /\ ctx'[r].topic = ctx[r].topic
       /\ ctx[r].plan = None /\ ctx'[r].plan = r
       /\ \A q \in Run : q # r => pc'[q] = pc[q] /\ ctx'[q] = ctx[q] /\ swept'[q] = swept[q]
       /\ UNCHANGED <<disk, latest>> /\ writer' \subseteq writer
       /\ pc'[r] # "rewrite" /\ pc[r] # "rewrite" /\ adrift' = adrift
  BY <1>0, <1>1, <1>2, <1>5, <1>6, <1>7, <1>8 DEF CtxOK
<1> QED BY <1>9, <1>10, <1>11, <1>12, <1>13, <1>14, QuietKeeps

\* The steps that only move on, the loss of the pointer's entries included: it
\* happened when the file was emptied.  What the next place asks for is what the place
\* before has: the note is there from "finish" on, nothing is swept yet.
LEMMA MoveOnSteps ==
  ASSUME IInv, NEW r \in Run,
         \/ Approve(r) \/ SectionsDone(r) \/ Incomplete(r) \/ Finish(r) \/ BeginSweep(r)
         \/ Fail(r) \/ Crash(r) \/ \E i \in Heading : SectionFails(r, i)
         \/ ForgetRefused(r) \/ RewriteRefused(r)
  PROVE  IInv'
<1>0. TypeOK /\ CtxOK(r) /\ DiskOK(r) /\ NoteOK(r)
  BY DEF IInv, RunInv
<1>1. PICK x \in Active \cup Ended :
        /\ pc'[r] = x /\ \A q \in Run : q # r => pc'[q] = pc[q]
        /\ \/ pc[r] = "approve" /\ x = "manifest"
           \/ pc[r] = "sections" /\ x = "assembly"
           \/ pc[r] = "finish" /\ x = "cleanup"
           \/ pc[r] = "cleanup" /\ x = "sweep"
           \/ pc[r] = "sections" /\ x = "sections"
           \/ pc[r] \in Active /\ x \in {"failed", "crashed", "complete"}
  <2>1. CASE Fail(r) \/ Crash(r)
    BY <1>0, <2>1 DEF Fail, Crash, Goto, Active, Ended, TypeOK
  <2>2. CASE Approve(r) \/ SectionsDone(r) \/ Incomplete(r) \/ Finish(r) \/ BeginSweep(r)
    BY <1>0, <2>2, Places
       DEF Approve, SectionsDone, Incomplete, Finish, BeginSweep, Goto, Ended, TypeOK
  <2>3. CASE \E i \in Heading : SectionFails(r, i)
    BY <1>0, <2>3, Places DEF SectionFails
  <2>4. CASE ForgetRefused(r) \/ RewriteRefused(r)
    BY <1>0, <2>4, Places DEF ForgetRefused, RewriteRefused, Goto, Ended, TypeOK
  <2> QED BY <2>1, <2>2, <2>3, <2>4
<1>2. /\ ctx' = ctx /\ UNCHANGED <<disk, latest>> /\ swept' = swept /\ writer' \subseteq writer
      /\ todo'[r] \subseteq todo[r]
  BY <1>0 DEF Approve, SectionsDone, Incomplete, Finish, BeginSweep, Fail, Crash,
              SectionFails, ForgetRefused, RewriteRefused, TypeOK
<1>3. /\ chunk' = chunk /\ part' = part /\ manifest' = manifest /\ pointer' = pointer
      /\ note' = note
  BY <1>2 DEF disk
<1>4. pc[r] \in Active /\ x # "new" /\ x # "rewrite"
  BY <1>1, Places
<1>d. adrift \subseteq adrift' /\ (pc[r] = "rewrite" => adrift' = Topic)
  <2>1. CASE Approve(r) \/ SectionsDone(r) \/ Incomplete(r) \/ Finish(r) \/ BeginSweep(r)
    BY <2>1 DEF Approve, SectionsDone, Incomplete, Finish, BeginSweep
  <2>2. CASE Fail(r) \/ \E i \in Heading : SectionFails(r, i)
    BY <2>2 DEF Fail, SectionFails
  <2>3. CASE Crash(r) \/ ForgetRefused(r) \/ RewriteRefused(r)
    BY <1>0, <2>3 DEF Crash, ForgetRefused, RewriteRefused, TypeOK
  <2> QED BY <2>1, <2>2, <2>3
<1>5. CtxOK(r)'
  <2>1. CASE x \in {"failed", "crashed", "complete"}
    BY <1>0, <1>1, <1>2, <1>4, <2>1, Places DEF CtxOK, Ended
  <2>2. CASE x \notin {"failed", "crashed", "complete"}
    BY <1>0, <1>1, <1>2, <1>4, <2>2, Places DEF CtxOK
  <2> QED BY <2>1, <2>2
<1>6. DiskOK(r)'
  <2>1. CASE x \in {"failed", "crashed", "complete"}
    BY <1>1, <2>1 DEF DiskOK, Claimed, Entered
  <2>2. CASE x \notin {"failed", "crashed", "complete"} /\ x # "sweep"
    BY <1>0, <1>1, <1>2, <1>3, <2>2 DEF DiskOK, Own, Claimed, Entered
  <2>3. CASE x = "sweep"
    <3>1. swept'[r] = 0 /\ \A i \in 1 .. swept'[r] : FALSE
      BY <1>0, <1>1, <1>2, <2>3 DEF CtxOK, Ended
    <3> QED BY <1>0, <1>1, <1>2, <1>3, <2>3, <3>1 DEF DiskOK, Own, Claimed, Entered
  <2> QED BY <2>1, <2>2, <2>3
<1>7. NoteOK(r)'
  BY <1>0, <1>1, <1>2, <1>3 DEF NoteOK
<1>8. TypeOK'
  BY StepType DEF Step
<1> QED BY <1>1, <1>2, <1>4, <1>d, <1>5, <1>6, <1>7, <1>8, QuietKeeps

\* What is read into the note is what the sidecar says is there.
LEMMA AssembleStep ==
  ASSUME IInv, NEW r \in Run, Assemble(r)
  PROVE  IInv'
<1>0. TypeOK /\ CtxOK(r) /\ DiskOK(r) /\ SlugInv
  BY DEF IInv, RunInv
<1>1. /\ pc[r] = "assembly" /\ Present(r) /\ UNCHANGED <<disk, writer, todo, swept, latest, adrift, index>>
      /\ pc' = [pc EXCEPT ![r] = "place"]
  BY DEF Assemble, Goto
<1>2. PICK c \in Context : c = ctx[r]
  BY <1>0, <1>1 DEF CtxOK
<1>3. /\ c.slug \in Slug /\ c.plan \in Run /\ c.n \in Heading /\ c.domain \in Domain
      /\ c.topic \in Topic
  <2>1. c.topic \in Topic
    BY DEF Context
  <2> QED BY <1>0, <1>1, <1>2, <2>1, Places DEF CtxOK
<1>4. PICK k \in 1 .. MaxCopy :
        /\ Free(c.domain, c.topic, k)
        /\ ctx' = [ctx EXCEPT
             ![r].dest = <<c.domain, c.topic, k>>,
             ![r].parts = [i \in Heading |-> IF i <= c.n THEN chunk[c.slug, i] ELSE None]]
  BY <1>2 DEF Assemble
<1>5. PICK x \in Path : x = <<c.domain, c.topic, k>>
  BY <1>3 DEF Path
<1>6. PICK f \in [Heading -> Run \cup {None}] :
        f = [i \in Heading |-> IF i <= c.n THEN chunk[c.slug, i] ELSE None]
  BY <1>0, <1>3 DEF TypeOK
<1>7. PICK e : e = [c EXCEPT !.dest = x, !.parts = f]
  OBVIOUS
<1>8. /\ e \in Context /\ e.domain = c.domain /\ e.topic = c.topic /\ e.plan = c.plan
      /\ e.slug = c.slug /\ e.n = c.n /\ e.dest = x /\ e.parts = f
  BY <1>7 DEF Context
<1>9. ctx'[r] = e /\ \A q \in Run : q # r => ctx'[q] = ctx[q]
  BY <1>0, <1>2, <1>4, <1>5, <1>6, <1>7 DEF TypeOK, Context
<1>10. pc'[r] = "place" /\ \A q \in Run : q # r => pc'[q] = pc[q]
  BY <1>0, <1>1 DEF TypeOK
<1>11. manifest' = manifest /\ note' = note /\ swept' = swept
  BY <1>1 DEF disk
<1>12. note[x] = None
  BY <1>4, <1>5 DEF Free
<1>13. \A i \in 1 .. c.n : f[i] = c.plan
  <2>1. Own(r)
    BY <1>0, <1>1 DEF DiskOK, Claimed, Entered
  <2>2. ASSUME NEW i \in 1 .. c.n PROVE f[i] = c.plan
    <3>1. i \in Heading /\ i <= c.n
      BY <1>3 DEF Heading
    <3>2. f[i] = chunk[<<c.slug, i>>] /\ chunk[<<c.slug, i>>] # None
      BY <1>1, <1>2, <1>6, <3>1 DEF Present
    <3>3. chunk[<<c.slug, i>>] = manifest[c.slug].plan
      BY <1>0, <1>3, <3>1, <3>2 DEF SlugInv
    <3> QED BY <1>2, <2>1, <3>2, <3>3 DEF Own
  <2> QED BY <2>2
<1>14. CtxOK(r)'
  <2>1. swept'[r] = 0
    BY <1>0, <1>1, <1>11, Places DEF CtxOK, Ended
  <2>2. ctx'[r] \in Context /\ ctx'[r].slug \in Slug /\ ctx'[r].plan \in Run
        /\ ctx'[r].n \in Heading /\ ctx'[r].domain \in Domain
    BY <1>3, <1>8, <1>9
  <2> QED BY <1>10, <2>1, <2>2 DEF CtxOK
<1>15. DiskOK(r)'
  <2>1. pointer' = pointer /\ latest' = latest
    BY <1>1 DEF disk
  <2> QED BY <1>0, <1>1, <1>2, <1>8, <1>9, <1>10, <1>11, <2>1 DEF DiskOK, Own, Claimed, Entered
<1>16. NoteOK(r)'
  BY <1>8, <1>9, <1>10, <1>11, <1>12, <1>13 DEF NoteOK
<1>17. TypeOK'
  BY StepType DEF Step
<1>18. pc[r] \in Active
  BY <1>1, Places
<1>19. /\ pc'[r] # "new" /\ ctx'[r].topic = ctx[r].topic /\ ctx'[r].plan = ctx[r].plan
       /\ \A q \in Run : q # r => pc'[q] = pc[q] /\ ctx'[q] = ctx[q] /\ swept'[q] = swept[q]
       /\ UNCHANGED <<disk, latest>> /\ writer' \subseteq writer
       /\ pc'[r] # "rewrite" /\ pc[r] # "rewrite" /\ adrift' = adrift
  BY <1>1, <1>2, <1>8, <1>9, <1>10, <1>11
<1> QED BY <1>14, <1>15, <1>16, <1>17, <1>18, <1>19, QuietKeeps
-----------------------------------------------------------------------------
(* The steps that change the disk.                                         *)

\* The active run moves on, with its context as it is.
MovesOn(r) ==
  /\ pc[r] \in Active /\ pc'[r] # "new" /\ ctx' = ctx
  /\ \A q \in Run : q # r => pc'[q] = pc[q] /\ swept'[q] = swept[q]

LEMMA SameContexts ==
  ASSUME IInv, NEW r \in Run, MovesOn(r)
  PROVE  /\ \A q \in Run : pc[q] # "new" =>
              /\ pc'[q] # "new"
              /\ ctx'[q] \in Context /\ ctx'[q].topic = ctx[q].topic
              /\ ctx[q].plan # None => ctx'[q].plan = ctx[q].plan
         /\ \A q \in Run : pc'[q] # "new" /\ ctx'[q].plan # None => pc'[ctx'[q].plan] # "new"
<1>0. RunInv /\ PlanInv
  BY DEF IInv
<1>1. \A q \in Run : pc[q] # "new" <=> pc'[q] # "new"
  BY Places DEF MovesOn
<1>2. \A q \in Run : pc[q] # "new" => ctx[q] \in Context
  BY <1>0 DEF RunInv, CtxOK
<1>3. ASSUME NEW q \in Run, pc'[q] # "new", ctx'[q].plan # None
      PROVE  pc'[ctx'[q].plan] # "new"
  <2>1. pc[q] # "new" /\ ctx[q].plan # None /\ ctx[q] \in Context
    BY <1>1, <1>2, <1>3 DEF MovesOn
  <2>2. PICK p \in Run : p = ctx[q].plan
    BY <2>1 DEF Context
  <2>3. pc[p] # "new"
    BY <1>0, <2>1, <2>2 DEF PlanInv
  <2> QED BY <1>1, <2>2, <2>3 DEF MovesOn
<1> QED BY <1>1, <1>2, <1>3 DEF MovesOn

\* No other run is in the middle of a rewrite, nor comes to be.
LEMMA NoOtherRewrite ==
  ASSUME IInv, NEW r \in Run, MovesOn(r)
  PROVE  /\ pc[r] # "rewrite" => NoRewrite
         /\ pc'[r] # "rewrite" => NoRewrite' /\ RewriteInv'
BY OneActive, Places DEF MovesOn, NoRewrite, RewriteInv

\* The rest of the invariant, when sidecars and pointer are left alone.
LEMMA MoveKeeps ==
  ASSUME IInv, TypeOK', NEW r \in Run, MovesOn(r), pc[r] # "rewrite", pc'[r] # "rewrite",
         CtxOK(r)', DiskOK(r)', NoteOK(r)', SlugInv', WholeInv',
         manifest' = manifest, pointer' = pointer, latest' = latest, adrift' = adrift
  PROVE  IInv'
<1>1. Alone' /\ RunInv'
  BY OneActive, OthersKeep DEF MovesOn
<1>2. NoRewrite /\ RewriteInv'
  BY NoOtherRewrite
<1>3. PlanInv' /\ LatestInv' /\ InterruptedRunResumable'
  BY <1>2, SameContexts, HistoryKeeps
<1> QED BY <1>1, <1>2, <1>3 DEF IInv

\* ... and when they are not.
LEMMA EnterKeeps ==
  ASSUME IInv, TypeOK', NEW r \in Run, MovesOn(r), pc'[r] # "rewrite",
         CtxOK(r)', DiskOK(r)', NoteOK(r)', SlugInv', WholeInv',
         PlanInv', LatestInv', InterruptedRunResumable'
  PROVE  IInv'
<1>1. Alone' /\ RunInv'
  BY OneActive, OthersKeep DEF MovesOn
<1>2. RewriteInv'
  BY NoOtherRewrite
<1> QED BY <1>1, <1>2 DEF IInv

\* The sections to generate are sections of the plan; .part files only go.
LEMMA PlanSectionsStep ==
  ASSUME IInv, NEW r \in Run, PlanSections(r)
  PROVE  IInv'
<1>0. TypeOK /\ CtxOK(r) /\ DiskOK(r) /\ NoteOK(r) /\ SlugInv /\ WholeInv
  BY DEF IInv, RunInv
<1>1. /\ pc[r] = "plan" /\ pc' = [pc EXCEPT ![r] = "sections"]
      /\ UNCHANGED <<chunk, manifest, pointer, note, writer, ctx, swept, latest, adrift, index>>
      /\ part' \subseteq part
  BY DEF PlanSections, Goto
<1>2. pc'[r] = "sections" /\ \A q \in Run : q # r => pc'[q] = pc[q]
  BY <1>0, <1>1 DEF TypeOK
<1>3. MovesOn(r)
  BY <1>1, <1>2, Places DEF MovesOn
<1>4. todo'[r] \subseteq 1 .. ctx[r].n
  BY <1>0 DEF PlanSections, TypeOK
<1>5. CtxOK(r)'
  BY <1>0, <1>1, <1>2, <1>4, Places DEF CtxOK
<1>6. DiskOK(r)'
  BY <1>0, <1>1, <1>2 DEF DiskOK, Own, Claimed, Entered
<1>7. NoteOK(r)'
  BY <1>2 DEF NoteOK
<1>8. SlugInv' /\ WholeInv'
  BY <1>0, <1>1 DEF SlugInv, WholeInv
<1>9. TypeOK'
  BY StepType DEF Step
<1> QED BY <1>1, <1>2, <1>3, <1>5, <1>6, <1>7, <1>8, <1>9, MoveKeeps

\* A thread opens the .part file of a section of the plan.
LEMMA BeginWriteStep ==
  ASSUME IInv, NEW r \in Run, NEW i \in Heading, BeginWrite(r, i)
  PROVE  IInv'
<1>0. TypeOK /\ CtxOK(r) /\ DiskOK(r) /\ NoteOK(r) /\ SlugInv /\ WholeInv
  BY DEF IInv, RunInv
<1>1. /\ pc[r] = "sections" /\ i \in todo[r]
      /\ UNCHANGED <<chunk, manifest, pointer, note, pc, ctx, swept, latest, adrift, index>>
  BY DEF BeginWrite
<1>2. PICK s \in Slug, p \in Run :
        /\ s = ctx[r].slug /\ p = ctx[r].plan
        /\ part' = part \cup {<<s, i>>} /\ Settled(s, i)
        /\ writer' = writer \cup {[run |-> r, slug |-> s, i |-> i, plan |-> p]}
  BY <1>0, <1>1, Places DEF CtxOK, BeginWrite
<1>3. MovesOn(r)
  BY <1>1, Places DEF MovesOn
<1>4. todo'[r] \subseteq todo[r]
  BY <1>0 DEF BeginWrite, TypeOK
<1>5. CtxOK(r)'
  BY <1>0, <1>1, <1>4, Places DEF CtxOK
<1>6. DiskOK(r)'
  BY <1>0, <1>1 DEF DiskOK, Own, Claimed, Entered
<1>7. NoteOK(r)'
  BY <1>1 DEF NoteOK
<1>8. manifest[s] # None /\ manifest[s].plan = p /\ i <= manifest[s].n
  <2>1. Own(r)
    BY <1>0, <1>1 DEF DiskOK, Claimed, Entered
  <2>2. i \in 1 .. ctx[r].n /\ ctx[r].n \in Heading
    BY <1>0, <1>1, Places DEF CtxOK
  <2> QED BY <1>2, <2>1, <2>2 DEF Own
<1>9. SlugInv'
  <2>1. ASSUME NEW t \in Slug, NEW j \in Heading, <<t, j>> \in part'
        PROVE  manifest[t] # None /\ j <= manifest[t].n
    BY <1>0, <1>2, <1>8, <2>1 DEF SlugInv
  <2>2. ASSUME NEW w \in writer', <<w.slug, w.i>> \in part'
        PROVE  manifest[w.slug].plan = w.plan
    <3>1. CASE w \in writer
      BY <1>0, <1>2, <2>2, <3>1 DEF SlugInv, Settled
    <3>2. CASE w = [run |-> r, slug |-> s, i |-> i, plan |-> p]
      BY <1>8, <3>2
    <3> QED BY <1>2, <3>1, <3>2
  <2> QED BY <1>0, <1>1, <2>1, <2>2 DEF SlugInv
<1>10. WholeInv'
  BY <1>0, <1>1 DEF WholeInv
<1>11. TypeOK'
  BY StepType DEF Step
<1> QED BY <1>1, <1>3, <1>5, <1>6, <1>7, <1>9, <1>10, <1>11, MoveKeeps

\* The finished note goes where no note was, with all its sections.
LEMMA PlaceNoteStep ==
  ASSUME IInv, NEW r \in Run, PlaceNote(r)
  PROVE  IInv'
<1>0. TypeOK /\ CtxOK(r) /\ DiskOK(r) /\ NoteOK(r) /\ SlugInv /\ WholeInv
  BY DEF IInv, RunInv
<1>1. /\ pc[r] = "place" /\ pc' = [pc EXCEPT ![r] = "finish"]
      /\ UNCHANGED <<chunk, part, manifest, pointer, writer, ctx, todo, swept, latest, adrift, index>>
  BY DEF PlaceNote, Goto
<1>2. pc'[r] = "finish" /\ \A q \in Run : q # r => pc'[q] = pc[q]
  BY <1>0, <1>1 DEF TypeOK
<1>3. MovesOn(r)
  BY <1>1, <1>2, Places DEF MovesOn
<1>4. PICK c \in Context : c = ctx[r]
  BY <1>0, <1>1 DEF CtxOK
<1>5. PICK x \in Path : x = c.dest /\ \A i \in 1 .. c.n : c.parts[i] = c.plan
  BY <1>0, <1>1, <1>4 DEF NoteOK
<1>6. PICK m \in Note : /\ m = [plan |-> c.plan, n |-> c.n, parts |-> c.parts, by |-> r]
                        /\ m.plan = c.plan /\ m.n = c.n /\ m.parts = c.parts
  <2>1. c.plan \in Run /\ c.n \in Heading
    BY <1>0, <1>1, <1>4, Places DEF CtxOK
  <2>2. c.parts \in [Heading -> Run \cup {None}]
    BY DEF Context
  <2>3. [plan |-> c.plan, n |-> c.n, parts |-> c.parts, by |-> r] \in Note
    BY <2>1, <2>2 DEF Note
  <2> QED BY <2>3
<1>7. note' = [note EXCEPT ![x] = m]
  BY <1>4, <1>5, <1>6 DEF PlaceNote
<1>8. note'[x] = m /\ m # None /\ \A p \in Path : p # x => note'[p] = note[p]
  BY <1>0, <1>7 DEF TypeOK
<1>9. CtxOK(r)'
  BY <1>0, <1>1, <1>2, Places DEF CtxOK, Ended
<1>10. DiskOK(r)'
  BY <1>0, <1>1, <1>2 DEF DiskOK, Own, Claimed, Entered
<1>11. NoteOK(r)'
  BY <1>1, <1>2, <1>4, <1>5, <1>6, <1>8 DEF NoteOK
<1>12. SlugInv'
  BY <1>0, <1>1 DEF SlugInv
<1>13. WholeInv'
  BY <1>0, <1>5, <1>6, <1>8 DEF WholeInv
<1>14. TypeOK'
  BY StepType DEF Step
<1> QED BY <1>1, <1>2, <1>3, <1>9, <1>10, <1>11, <1>12, <1>13, <1>14, MoveKeeps

\* One more chunk of the prefix is gone; with the last, all of them.
LEMMA SweepChunkStep ==
  ASSUME IInv, NEW r \in Run, SweepChunk(r)
  PROVE  IInv'
<1>0. TypeOK /\ CtxOK(r) /\ DiskOK(r) /\ NoteOK(r) /\ SlugInv /\ WholeInv
  BY DEF IInv, RunInv
<1>1. /\ pc[r] = "sweep" /\ swept[r] < ctx[r].n /\ swept' = [swept EXCEPT ![r] = @ + 1]
      /\ pc' = IF swept[r] + 1 = ctx[r].n THEN [pc EXCEPT ![r] = "unmanifest"] ELSE pc
      /\ UNCHANGED <<manifest, pointer, note, writer, ctx, todo, latest, adrift, index>>
  BY DEF SweepChunk
<1>2. PICK s \in Slug, n \in Heading, k \in Heading :
        /\ s = ctx[r].slug /\ n = ctx[r].n /\ k = swept[r] + 1
  <2>1. /\ ctx[r].slug \in Slug /\ ctx[r].n \in Heading /\ swept[r] \in 0 .. MaxHeadings
    BY <1>0, <1>1, Places DEF CtxOK, TypeOK
  <2> QED BY <1>1, <2>1 DEF Heading
<1>3. chunk' = [chunk EXCEPT ![<<s, k>>] = None] /\ part' = part \ {<<s, k>>}
  BY <1>2 DEF SweepChunk
<1>4. swept'[r] = k /\ \A q \in Run : q # r => swept'[q] = swept[q] /\ pc'[q] = pc[q]
  BY <1>0, <1>1, <1>2 DEF TypeOK
<1>5. (pc'[r] = "unmanifest" /\ k = n) \/ pc'[r] = "sweep"
  BY <1>0, <1>1, <1>2 DEF TypeOK
<1>6. MovesOn(r)
  BY <1>1, <1>4, <1>5, Places DEF MovesOn
<1>7. Gone(s, k)' /\ \A x \in Slug \X Heading :
        (chunk'[x] = chunk[x] \/ chunk'[x] = None) /\ (x \in part' => x \in part)
  BY <1>0, <1>3 DEF Gone, TypeOK
<1>8. CtxOK(r)'
  BY <1>0, <1>1, <1>5, Places DEF CtxOK
<1>9. \A i \in 1 .. k : Gone(s, i)'
  <2>1. ASSUME NEW i \in 1 .. k PROVE Gone(s, i)'
    <3>1. CASE i = k
      BY <1>7, <3>1
    <3>2. CASE i # k
      <4>1. i \in 1 .. swept[r] /\ i \in Heading
        BY <1>0, <1>2, <3>2 DEF Heading, TypeOK
      <4>2. Gone(s, i)
        BY <1>0, <1>1, <1>2, <4>1 DEF DiskOK
      <4>3. <<s, i>> \in Slug \X Heading
        BY <4>1
      <4> QED BY <1>7, <4>2, <4>3 DEF Gone
    <3> QED BY <3>1, <3>2
  <2> QED BY <2>1
<1>10. DiskOK(r)'
  BY <1>0, <1>1, <1>2, <1>4, <1>5, <1>9 DEF DiskOK, Own, Claimed, Entered
<1>11. NoteOK(r)'
  BY <1>0, <1>1, <1>5 DEF NoteOK
<1>12. SlugInv'
  <2>1. ASSUME NEW t \in Slug, NEW i \in Heading
        PROVE  /\ chunk'[<<t, i>>] = chunk[<<t, i>>] \/ chunk'[<<t, i>>] = None
               /\ <<t, i>> \in part' => <<t, i>> \in part
    BY <1>7
  <2>2. \A w \in writer : <<w.slug, w.i>> \in part' => <<w.slug, w.i>> \in part
    BY <1>3
  <2> QED BY <1>0, <1>1, <2>1, <2>2 DEF SlugInv
<1>13. WholeInv'
  BY <1>0, <1>1 DEF WholeInv
<1>14. TypeOK'
  BY StepType DEF Step
<1> QED BY <1>1, <1>5, <1>6, <1>8, <1>10, <1>11, <1>12, <1>13, <1>14, MoveKeeps

\* The sidecar of a plan is written for the first time, or again.
LEMMA WriteManifestStep ==
  ASSUME IInv, NEW r \in Run, WriteManifest(r)
  PROVE  IInv'
<1>0. /\ TypeOK /\ CtxOK(r) /\ DiskOK(r) /\ SlugInv /\ WholeInv /\ PlanInv /\ LatestInv
      /\ InterruptedRunResumable
  BY DEF IInv, RunInv
<1>1. /\ pc[r] = "manifest" /\ pc' = [pc EXCEPT ![r] = "pointer"]
      /\ UNCHANGED <<chunk, part, pointer, note, writer, ctx, todo, swept, latest, adrift, index>>
  BY DEF WriteManifest, Goto
<1>2. pc'[r] = "pointer" /\ \A q \in Run : q # r => pc'[q] = pc[q]
  BY <1>0, <1>1 DEF TypeOK
<1>3. MovesOn(r)
  BY <1>1, <1>2, Places DEF MovesOn
<1>4. PICK c \in Context :
        /\ c = ctx[r] /\ c.slug \in Slug /\ c.plan \in Run /\ c.n \in Heading
        /\ c.domain \in Domain /\ c.topic \in Topic
  <2>1. ctx[r] \in Context /\ ctx[r].topic \in Topic
    BY <1>0, <1>1 DEF CtxOK, Context
  <2> QED BY <1>0, <1>1, <2>1, Places DEF CtxOK
<1>5. PICK s \in Slug : s = c.slug
  BY <1>4
<1>6. PICK m \in Manifest : /\ m = [plan |-> c.plan, topic |-> c.topic, domain |-> c.domain, n |-> c.n]
                            /\ m.plan = c.plan /\ m.topic = c.topic /\ m.n = c.n
  <2>1. [plan |-> c.plan, topic |-> c.topic, domain |-> c.domain, n |-> c.n] \in Manifest
    BY <1>4 DEF Manifest
  <2> QED BY <2>1
<1>7. manifest' = [manifest EXCEPT ![s] = m]
  BY <1>4, <1>5, <1>6 DEF WriteManifest
<1>8. /\ manifest'[s] = m /\ m # None /\ \A t \in Slug : t # s => manifest'[t] = manifest[t]
      /\ manifest[s] = None \/ (manifest[s].plan = m.plan /\ manifest[s].n = m.n)
  BY <1>0, <1>1, <1>4, <1>5, <1>6, <1>7 DEF TypeOK, DiskOK, Own
<1>9. CtxOK(r)'
  BY <1>0, <1>1, <1>2, Places DEF CtxOK
<1>10. DiskOK(r)'
  BY <1>1, <1>2, <1>4, <1>5, <1>6, <1>8 DEF DiskOK, Own, Claimed, Entered
<1>11. NoteOK(r)'
  BY <1>2 DEF NoteOK
<1>12. SlugInv'
  <2>1. ASSUME NEW t \in Slug, manifest[t] # None
        PROVE  manifest'[t] # None /\ manifest'[t].plan = manifest[t].plan /\ manifest'[t].n = manifest[t].n
    BY <1>8, <2>1
  <2>2. ASSUME NEW w \in writer, <<w.slug, w.i>> \in part
        PROVE  manifest'[w.slug].plan = w.plan
    <3>1. w.slug \in Slug /\ w.i \in Heading
      BY <1>0 DEF TypeOK
    <3> QED BY <1>0, <2>1, <2>2, <3>1 DEF SlugInv
  <2> QED BY <1>0, <1>1, <2>1, <2>2 DEF SlugInv
<1>13. WholeInv'
  BY <1>0, <1>1 DEF WholeInv
<1>14. PlanInv'
  <2>1. ASSUME NEW t \in Slug, manifest'[t] # None PROVE pc'[manifest'[t].plan] # "new"
    <3>1. manifest'[t].plan \in Run /\ pc[manifest'[t].plan] # "new"
      <4>1. CASE t = s
        BY <1>0, <1>1, <1>4, <1>6, <1>8, <4>1 DEF PlanInv
      <4>2. CASE t # s
        BY <1>0, <1>8, <2>1, <4>2 DEF PlanInv, TypeOK, Manifest
      <4> QED BY <4>1, <4>2
    <3> QED BY <1>2, <3>1
  <2> QED BY <1>3, <2>1, SameContexts DEF PlanInv
<1>15. LatestInv'
  BY <1>0, <1>1, <1>2 DEF LatestInv, TypeOK
<1>16. InterruptedRunResumable'
  <2> SUFFICES ASSUME ResumesItsTopic', NEW t \in Topic \ adrift, latest[t] # None
               PROVE  /\ Resumable(t)' /\ manifest'[pointer[t]].topic = t
                      /\ manifest'[pointer[t]].plan = ctx[latest[t]].plan
    BY <1>1 DEF InterruptedRunResumable
  <2>1. ResumesItsTopic /\ NoRewrite
    BY <1>1, <1>3, SameContexts, TopicsStay, NoOtherRewrite
  <2>2. PICK q \in Run : q = latest[t] /\ ctx[q].plan \in Run /\ ctx[q].topic = t /\ ctx[q] # None
    <3>1. latest[t] \in Run /\ pc[latest[t]] # "new"
      BY <1>0 DEF TypeOK, LatestInv
    <3> QED BY <1>0, <3>1 DEF LatestInv, IInv, RunInv, CtxOK
  <2>3. PICK u \in Slug : /\ u = pointer[t] /\ u # None /\ manifest[u] # None
                          /\ manifest[u].topic = t /\ manifest[u].plan = ctx[q].plan
    BY <1>0, <1>1, <2>1, <2>2 DEF InterruptedRunResumable, Resumable, TypeOK, Pointer
  <2>4. manifest'[u] # None /\ manifest'[u].topic = t /\ manifest'[u].plan = ctx[q].plan
    <3>1. CASE u # s
      BY <1>8, <2>3, <3>1
    <3>2. CASE u = s
      <4>1. c.plan = ctx[q].plan
        BY <1>6, <1>8, <2>3, <3>2
      <4>2. ctx[c.plan].topic = c.topic /\ ctx[c.plan].topic = t
        BY <1>4, <2>1, <2>2, <4>1 DEF ResumesItsTopic
      <4> QED BY <1>6, <1>8, <3>2, <4>1, <4>2
    <3> QED BY <3>1, <3>2
  <2> QED BY <1>1, <2>2, <2>3, <2>4 DEF Resumable
<1>17. TypeOK'
  BY StepType DEF Step
<1> QED BY <1>2, <1>3, <1>9, <1>10, <1>11, <1>12, <1>13, <1>14, <1>15, <1>16, <1>17, EnterKeeps

\* The run enters its topic in the pointer.
LEMMA WritePointerStep ==
  ASSUME IInv, NEW r \in Run, WritePointer(r)
  PROVE  IInv'
<1>0. /\ TypeOK /\ CtxOK(r) /\ DiskOK(r) /\ SlugInv /\ WholeInv /\ PlanInv /\ LatestInv
      /\ InterruptedRunResumable
  BY DEF IInv, RunInv
<1>1. /\ pc[r] = "pointer" /\ pc' = [pc EXCEPT ![r] = "plan"]
      /\ UNCHANGED <<chunk, part, manifest, note, writer, ctx, todo, swept, index>>
  BY DEF WritePointer, Goto
<1>2. pc'[r] = "plan" /\ \A q \in Run : q # r => pc'[q] = pc[q]
  BY <1>0, <1>1 DEF TypeOK
<1>3. MovesOn(r)
  BY <1>1, <1>2, Places DEF MovesOn
<1>4. PICK c \in Context :
        c = ctx[r] /\ c.slug \in Slug /\ c.plan \in Run /\ c.topic \in Topic
  <2>1. ctx[r] \in Context /\ ctx[r].topic \in Topic
    BY <1>0, <1>1 DEF CtxOK, Context
  <2> QED BY <1>0, <1>1, <2>1, Places DEF CtxOK
<1>5. PICK s \in Slug, t0 \in Topic : s = c.slug /\ t0 = c.topic
  BY <1>4
<1>6. /\ pointer' = [pointer EXCEPT ![t0] = s, ![Last] = s]
      /\ latest' = [latest EXCEPT ![t0] = r]
  BY <1>4, <1>5 DEF WritePointer
<1>a. adrift' = adrift \ {t0}
  BY <1>4, <1>5 DEF WritePointer
<1>7. /\ pointer'[t0] = s /\ latest'[t0] = r
      /\ \A t \in Topic : t # t0 => pointer'[t] = pointer[t] /\ latest'[t] = latest[t]
  BY <1>0, <1>6 DEF TypeOK, Pointer
<1>8. manifest[s] # None /\ manifest[s].plan = c.plan /\ manifest[s].topic = t0
  BY <1>0, <1>1, <1>4, <1>5 DEF DiskOK, Own, Claimed
<1>9. CtxOK(r)'
  BY <1>0, <1>1, <1>2, Places DEF CtxOK
<1>10. DiskOK(r)'
  BY <1>0, <1>1, <1>2, <1>4, <1>5, <1>7 DEF DiskOK, Own, Claimed, Entered
<1>11. NoteOK(r)'
  BY <1>2 DEF NoteOK
<1>12. SlugInv' /\ WholeInv'
  BY <1>0, <1>1 DEF SlugInv, WholeInv
<1>13. PlanInv'
  <2>1. ASSUME NEW t \in Slug, manifest[t] # None PROVE pc'[manifest[t].plan] # "new"
    <3>1. manifest[t].plan \in Run /\ pc[manifest[t].plan] # "new"
      BY <1>0, <2>1 DEF PlanInv, TypeOK, Manifest
    <3> QED BY <1>2, <3>1
  <2> QED BY <1>1, <1>3, <2>1, SameContexts DEF PlanInv
<1>14. LatestInv'
  <2>1. ASSUME NEW t \in Topic, latest'[t] # None
        PROVE  pc'[latest'[t]] # "new" /\ ctx[latest'[t]].plan \in Run /\ ctx[latest'[t]].topic = t
    <3>1. CASE t = t0
      BY <1>2, <1>4, <1>5, <1>7, <3>1
    <3>2. CASE t # t0
      BY <1>0, <1>2, <1>7, <2>1, <3>2 DEF LatestInv, TypeOK
    <3> QED BY <3>1, <3>2
  <2> QED BY <1>1, <2>1 DEF LatestInv
<1>15. InterruptedRunResumable'
  <2> SUFFICES ASSUME ResumesItsTopic', NEW t \in Topic \ adrift', latest'[t] # None
               PROVE  /\ Resumable(t)' /\ manifest[pointer'[t]].topic = t
                      /\ manifest[pointer'[t]].plan = ctx[latest'[t]].plan
    BY <1>1 DEF InterruptedRunResumable
  <2>1. ResumesItsTopic /\ NoRewrite
    BY <1>1, <1>3, SameContexts, TopicsStay, NoOtherRewrite
  <2>2. CASE t = t0
    <3>1. s # None
      BY DEF Slug
    <3> QED BY <1>1, <1>4, <1>7, <1>8, <2>2, <3>1 DEF Resumable
  <2>3. CASE t # t0
    <3>1. t \notin adrift
      BY <1>a, <2>3
    <3> QED BY <1>0, <1>1, <1>7, <2>1, <2>3, <3>1 DEF Resumable, InterruptedRunResumable
  <2> QED BY <2>2, <2>3
<1>16. TypeOK'
  BY StepType DEF Step
<1> QED BY <1>2, <1>3, <1>9, <1>10, <1>11, <1>12, <1>13, <1>14, <1>15, <1>16, EnterKeeps

\* With the chunks gone the sidecar goes, and the run is no longer the last of its
\* topic.  No other topic's pointer leads to this sidecar, which is of this topic.
LEMMA SweepManifestStep ==
  ASSUME IInv, NEW r \in Run, SweepManifest(r)
  PROVE  IInv'
<1>0. /\ TypeOK /\ CtxOK(r) /\ DiskOK(r) /\ SlugInv /\ WholeInv /\ PlanInv /\ LatestInv
      /\ InterruptedRunResumable
  BY DEF IInv, RunInv
<1>1. /\ pc[r] = "unmanifest" /\ pc' = [pc EXCEPT ![r] = "forget"]
      /\ UNCHANGED <<chunk, part, pointer, note, writer, ctx, todo, swept, adrift, index>>
  BY DEF SweepManifest, Goto
<1>2. pc'[r] = "forget" /\ \A q \in Run : q # r => pc'[q] = pc[q]
  BY <1>0, <1>1 DEF TypeOK
<1>3. MovesOn(r)
  BY <1>1, <1>2, Places DEF MovesOn
<1>4. PICK s \in Slug, t0 \in Topic, n \in Heading :
        s = ctx[r].slug /\ t0 = ctx[r].topic /\ n = ctx[r].n
  <2>1. ctx[r] \in Context /\ ctx[r].topic \in Topic
    BY <1>0, <1>1 DEF CtxOK, Context
  <2> QED BY <1>0, <1>1, <2>1, Places DEF CtxOK
<1>5. /\ manifest[s] # None /\ manifest[s].n = n /\ manifest[s].topic = t0
      /\ pointer[t0] = s /\ latest[t0] = r /\ \A i \in 1 .. n : Gone(s, i)
  BY <1>0, <1>1, <1>4 DEF DiskOK, Own, Claimed, Entered
<1>6. /\ manifest'[s] = None /\ \A t \in Slug : t # s => manifest'[t] = manifest[t]
      /\ latest'[t0] = None /\ \A t \in Topic : t # t0 => latest'[t] = latest[t]
  BY <1>0, <1>4, <1>5 DEF SweepManifest, TypeOK
<1>7. CtxOK(r)'
  BY <1>0, <1>1, <1>2, Places DEF CtxOK
<1>8. DiskOK(r)'
  BY <1>1, <1>2, <1>4, <1>5, <1>6 DEF DiskOK, Claimed, Entered
<1>9. NoteOK(r)'
  BY <1>2 DEF NoteOK
<1>10. \A i \in Heading : chunk[<<s, i>>] = None /\ <<s, i>> \notin part
  <2>1. ASSUME NEW i \in Heading PROVE chunk[<<s, i>>] = None /\ <<s, i>> \notin part
    <3>1. CASE i \in 1 .. n
      BY <1>5, <3>1 DEF Gone
    <3>2. CASE i \notin 1 .. n
      <4>1. ~ (i <= manifest[s].n)
        BY <1>4, <1>5, <3>2 DEF Heading
      <4> QED BY <1>0, <4>1 DEF SlugInv
    <3> QED BY <3>1, <3>2
  <2> QED BY <2>1
<1>11. SlugInv'
  <2>1. ASSUME NEW t \in Slug, NEW i \in Heading, chunk[<<t, i>>] # None \/ <<t, i>> \in part
        PROVE  t # s /\ manifest'[t] = manifest[t]
    BY <1>6, <1>10, <2>1
  <2>2. ASSUME NEW w \in writer, <<w.slug, w.i>> \in part
        PROVE  manifest'[w.slug].plan = w.plan
    <3>1. w.slug \in Slug /\ w.i \in Heading
      BY <1>0 DEF TypeOK
    <3> QED BY <1>0, <2>1, <2>2, <3>1 DEF SlugInv
  <2> QED BY <1>0, <1>1, <2>1, <2>2 DEF SlugInv
<1>12. WholeInv'
  BY <1>0, <1>1 DEF WholeInv
<1>13. PlanInv'
  <2>1. ASSUME NEW t \in Slug, manifest'[t] # None PROVE pc'[manifest'[t].plan] # "new"
    <3>1. t # s /\ manifest'[t] = manifest[t]
      BY <1>6, <2>1
    <3>2. manifest[t].plan \in Run /\ pc[manifest[t].plan] # "new"
      BY <1>0, <2>1, <3>1 DEF PlanInv, TypeOK, Manifest
    <3> QED BY <1>2, <3>1, <3>2
  <2> QED BY <1>3, <2>1, SameContexts DEF PlanInv
<1>14. LatestInv'
  <2>1. ASSUME NEW t \in Topic, latest'[t] # None
        PROVE  pc'[latest'[t]] # "new" /\ ctx[latest'[t]].plan \in Run /\ ctx[latest'[t]].topic = t
    BY <1>0, <1>2, <1>6, <2>1 DEF LatestInv, TypeOK
  <2> QED BY <1>1, <2>1 DEF LatestInv
<1>15. InterruptedRunResumable'
  <2> SUFFICES ASSUME ResumesItsTopic', NEW t \in Topic \ adrift', latest'[t] # None
               PROVE  /\ Resumable(t)' /\ manifest'[pointer[t]].topic = t
                      /\ manifest'[pointer[t]].plan = ctx[latest'[t]].plan
    BY <1>1 DEF InterruptedRunResumable
  <2>1. ResumesItsTopic /\ NoRewrite
    BY <1>1, <1>3, SameContexts, TopicsStay, NoOtherRewrite
  <2>2. t # t0 /\ latest'[t] = latest[t]
    BY <1>6
  <2>3. PICK u \in Slug : /\ u = pointer[t] /\ u # None /\ manifest[u] # None
                          /\ manifest[u].topic = t /\ manifest[u].plan = ctx[latest[t]].plan
    BY <1>0, <1>1, <2>1, <2>2 DEF InterruptedRunResumable, Resumable, TypeOK, Pointer
  <2>4. manifest'[u] = manifest[u]
    BY <1>5, <1>6, <2>2, <2>3
  <2> QED BY <1>1, <2>2, <2>3, <2>4 DEF Resumable
<1>16. TypeOK'
  BY StepType DEF Step
<1> QED BY <1>2, <1>3, <1>7, <1>8, <1>9, <1>11, <1>12, <1>13, <1>14, <1>15, <1>16, EnterKeeps

\* The pointer entries go last, when no run of the topic counts on them: with the
\* file, or with the write that ends the rewrite.
LEMMA ForgetLastRunStep ==
  ASSUME IInv, NEW r \in Run, ForgetLastRun(r) \/ EndRewrite(r)
  PROVE  IInv'
<1>0. /\ TypeOK /\ CtxOK(r) /\ DiskOK(r) /\ SlugInv /\ WholeInv /\ PlanInv /\ LatestInv
      /\ InterruptedRunResumable /\ RewriteInv
  BY DEF IInv, RunInv
<1>1. /\ pc[r] \in {"forget", "rewrite"} /\ pc' = [pc EXCEPT ![r] = "complete"]
      /\ UNCHANGED <<chunk, part, manifest, note, writer, ctx, todo, swept, latest, adrift>>
  BY DEF ForgetLastRun, EndRewrite, Goto
<1>2. pc'[r] = "complete" /\ \A q \in Run : q # r => pc'[q] = pc[q]
  BY <1>0, <1>1 DEF TypeOK
<1>3. MovesOn(r)
  BY <1>1, <1>2, Places DEF MovesOn
<1>6. CtxOK(r)'
  BY <1>0, <1>1, <1>2, Places DEF CtxOK, Ended
<1>7. DiskOK(r)'
  BY <1>2 DEF DiskOK, Claimed, Entered
<1>8. NoteOK(r)'
  BY <1>2 DEF NoteOK
<1>9. SlugInv' /\ WholeInv'
  BY <1>0, <1>1 DEF SlugInv, WholeInv
<1>10. PlanInv'
  <2>1. ASSUME NEW t \in Slug, manifest[t] # None PROVE pc'[manifest[t].plan] # "new"
    <3>1. manifest[t].plan \in Run /\ pc[manifest[t].plan] # "new"
      BY <1>0, <2>1 DEF PlanInv, TypeOK, Manifest
    <3> QED BY <1>2, <3>1
  <2> QED BY <1>1, <1>3, <2>1, SameContexts DEF PlanInv
<1>11. LatestInv'
  BY <1>0, <1>1, <1>2 DEF LatestInv, TypeOK
<1>12. InterruptedRunResumable'
  <2> SUFFICES ASSUME ResumesItsTopic', NEW t \in Topic \ adrift, latest[t] # None
               PROVE  /\ Resumable(t)' /\ manifest[pointer'[t]].topic = t
                      /\ manifest[pointer'[t]].plan = ctx[latest[t]].plan
    BY <1>1 DEF InterruptedRunResumable
  <2>1. ResumesItsTopic
    BY <1>3, SameContexts, TopicsStay
  <2>2. CASE EndRewrite(r)
    <3>1. pc[r] = "rewrite" /\ pointer' = index[r]
      BY <2>2 DEF EndRewrite
    <3>2. /\ index[r][t] \in Slug /\ manifest[index[r][t]] # None
          /\ manifest[index[r][t]].topic = t
          /\ manifest[index[r][t]].plan = ctx[latest[t]].plan
      BY <1>0, <2>1, <3>1 DEF RewriteInv
    <3>3. index[r][t] # None
      BY <3>2 DEF Slug
    <3> QED BY <1>1, <3>1, <3>2, <3>3 DEF Resumable
  <2>3. CASE ForgetLastRun(r)
    <3>1. PICK t0 \in Topic : t0 = ctx[r].topic /\ latest[t0] = None /\ pc[r] = "forget"
      <4>1. pc[r] = "forget"
        BY <2>3 DEF ForgetLastRun
      <4>2. ctx[r] \in Context /\ ctx[r].topic \in Topic
        BY <1>0, <4>1 DEF CtxOK, Context
      <4> QED BY <1>0, <4>1, <4>2 DEF DiskOK
    <3>2. NoRewrite
      BY <1>3, <3>1, NoOtherRewrite
    <3>3. t # t0 /\ pointer'[t] = Dropped(r)[t]
      BY <2>3, <3>1 DEF ForgetLastRun
    <3>4. pointer'[t] = pointer[t]
      BY <1>0, <3>1, <3>3 DEF Dropped, TypeOK, Pointer
    <3> QED BY <1>0, <1>1, <2>1, <3>2, <3>4 DEF Resumable, InterruptedRunResumable
  <2> QED BY <2>2, <2>3
<1>13. TypeOK'
  BY StepType DEF Step
<1> QED BY <1>2, <1>3, <1>6, <1>7, <1>8, <1>9, <1>10, <1>11, <1>12, <1>13, EnterKeeps

\* The file is emptied: what is about to be written has the entries of the others.
LEMMA BeginRewriteStep ==
  ASSUME IInv, NEW r \in Run, BeginRewrite(r)
  PROVE  IInv'
<1>0. /\ TypeOK /\ CtxOK(r) /\ DiskOK(r) /\ SlugInv /\ WholeInv /\ PlanInv /\ LatestInv
      /\ InterruptedRunResumable
  BY DEF IInv, RunInv
<1>1. /\ pc[r] = "forget" /\ pc' = [pc EXCEPT ![r] = "rewrite"]
      /\ index' = [index EXCEPT ![r] = Dropped(r)]
      /\ UNCHANGED <<chunk, part, manifest, note, writer, ctx, todo, swept, latest, adrift>>
  BY DEF BeginRewrite, Goto
<1>2. pc'[r] = "rewrite" /\ \A q \in Run : q # r => pc'[q] = pc[q]
  BY <1>0, <1>1 DEF TypeOK
<1>3. MovesOn(r)
  BY <1>1, <1>2, Places DEF MovesOn
<1>4. PICK t0 \in Topic, s \in Slug :
        /\ t0 = ctx[r].topic /\ s = ctx[r].slug
        /\ latest[t0] = None /\ manifest[s] = None
  <2>1. ctx[r] \in Context /\ ctx[r].topic \in Topic
    BY <1>0, <1>1 DEF CtxOK, Context
  <2>2. ctx[r].slug \in Slug
    BY <1>0, <1>1, Places DEF CtxOK
  <2> QED BY <1>0, <1>1, <2>1, <2>2 DEF DiskOK
<1>5. PICK f \in Pointer :
        /\ f = index'[r] /\ f[t0] = None /\ f[Last] # s
        /\ \A t \in Topic : t # t0 => f[t] = pointer[t]
  <2>1. index'[r] = [pointer EXCEPT ![t0] = None, ![Last] = IF @ = s THEN None ELSE @]
    BY <1>0, <1>1, <1>4 DEF Dropped, TypeOK
  <2>2. s # None /\ \A t \in Topic : t # Last
    BY DEF Slug
  <2>3. pointer \in Pointer
    BY <1>0 DEF TypeOK
  <2>4. index'[r] \in Pointer
    BY <2>1, <2>3 DEF Pointer
  <2>5. index'[r][t0] = None /\ index'[r][Last] # s
    BY <2>1, <2>2, <2>3 DEF Pointer
  <2>6. \A t \in Topic : t # t0 => index'[r][t] = pointer[t]
    BY <2>1, <2>2, <2>3 DEF Pointer
  <2> QED BY <2>4, <2>5, <2>6
<1>6. CtxOK(r)'
  BY <1>0, <1>1, <1>2, Places DEF CtxOK, Ended
<1>7. DiskOK(r)' /\ NoteOK(r)'
  BY <1>2 DEF DiskOK, NoteOK, Claimed, Entered
<1>8. Alone' /\ RunInv'
  BY <1>3, <1>6, <1>7, OneActive, OthersKeep DEF MovesOn
<1>9. SlugInv' /\ WholeInv'
  BY <1>0, <1>1 DEF SlugInv, WholeInv
<1>10. PlanInv'
  <2>1. ASSUME NEW t \in Slug, manifest[t] # None PROVE pc'[manifest[t].plan] # "new"
    <3>1. manifest[t].plan \in Run /\ pc[manifest[t].plan] # "new"
      BY <1>0, <2>1 DEF PlanInv, TypeOK, Manifest
    <3> QED BY <1>2, <3>1
  <2> QED BY <1>1, <1>3, <2>1, SameContexts DEF PlanInv
<1>11. LatestInv'
  BY <1>0, <1>1, <1>2 DEF LatestInv, TypeOK
<1>12. InterruptedRunResumable'
  BY <1>2 DEF InterruptedRunResumable, NoRewrite
<1>13. RewriteInv'
  <2>1. ASSUME ResumesItsTopic', NEW t \in Topic \ adrift, latest[t] # None
        PROVE  /\ f[t] \in Slug /\ manifest[f[t]] # None /\ manifest[f[t]].topic = t
               /\ manifest[f[t]].plan = ctx[latest[t]].plan
    <3>1. ResumesItsTopic /\ NoRewrite
      BY <1>1, <1>3, <2>1, SameContexts, TopicsStay, NoOtherRewrite
    <3>2. t # t0 /\ f[t] = pointer[t]
      BY <1>4, <1>5, <2>1
    <3>3. pointer[t] \in Slug \cup {None}
      BY <1>0 DEF TypeOK, Pointer
    <3> QED BY <1>0, <2>1, <3>1, <3>2, <3>3 DEF InterruptedRunResumable, Resumable
  <2>2. ASSUME NEW q \in Run, q # r PROVE pc'[q] # "rewrite"
    BY <1>2, <1>3, <2>2, OneActive, Places DEF MovesOn
  <2> QED BY <1>1, <1>4, <1>5, <2>1, <2>2 DEF RewriteInv
<1>14. TypeOK'
  BY StepType DEF Step
<1> QED BY <1>8, <1>9, <1>10, <1>11, <1>12, <1>13, <1>14 DEF IInv

\* A thread ends: nobody's step.  If its .part file is still there, so is the
\* sidecar, and of the thread's plan; a swept section has no .part file.
LEMMA EndWriteStep ==
  ASSUME IInv, NEW w \in writer, EndWrite(w)
  PROVE  IInv'
<1>0. TypeOK /\ Alone /\ RunInv /\ SlugInv /\ WholeInv /\ PlanInv /\ RewriteInv
  BY DEF IInv
<1>1. /\ writer' \subseteq writer /\ part' \subseteq part
      /\ UNCHANGED <<manifest, pointer, note, pc, ctx, todo, swept, latest, adrift, index>>
  BY DEF EndWrite
<1>2. PICK s \in Slug, i \in Heading, p \in Run : s = w.slug /\ i = w.i /\ p = w.plan
  BY <1>0 DEF TypeOK
<1>3. ASSUME NEW t \in Slug, NEW j \in Heading
      PROVE  \/ chunk'[<<t, j>>] = chunk[<<t, j>>]
             \/ /\ <<t, j>> \in part /\ manifest[t] # None
                /\ chunk'[<<t, j>>] = p /\ manifest[t].plan = p
  <2>1. CASE <<s, i>> \in part /\ <<t, j>> = <<s, i>>
    <3>1. manifest[s] # None /\ manifest[s].plan = p
      BY <1>0, <1>2, <2>1 DEF SlugInv
    <3>2. chunk'[<<s, i>>] = p
      BY <1>0, <1>2, <2>1 DEF EndWrite, TypeOK
    <3> QED BY <2>1, <3>1, <3>2
  <2>2. CASE <<s, i>> \in part /\ <<t, j>> # <<s, i>>
    BY <1>0, <1>2, <2>2 DEF EndWrite, TypeOK
  <2>3. CASE <<s, i>> \notin part
    BY <1>2, <2>3 DEF EndWrite
  <2> QED BY <2>1, <2>2, <2>3
<1>4. ASSUME NEW q \in Run PROVE (CtxOK(q) /\ DiskOK(q) /\ NoteOK(q))'
  <2>1. CtxOK(q) /\ DiskOK(q) /\ NoteOK(q)
    BY <1>0 DEF RunInv
  <2>2. CtxOK(q)' /\ NoteOK(q)'
    BY <1>1, <2>1 DEF CtxOK, NoteOK
  <2>3. ASSUME NEW j \in Heading, Gone(ctx[q].slug, j), ctx[q].slug \in Slug
        PROVE  Gone(ctx[q].slug, j)'
    BY <1>1, <1>3, <2>3 DEF Gone
  <2>4. ASSUME pc[q] = "sweep" PROVE \A j \in 1 .. swept[q] : Gone(ctx[q].slug, j)'
    <3>1. ctx[q].slug \in Slug /\ swept[q] \in 0 .. MaxHeadings
      BY <1>0, <2>1, <2>4, Places DEF CtxOK, TypeOK
    <3>2. \A j \in 1 .. swept[q] : j \in Heading /\ Gone(ctx[q].slug, j)
      BY <2>1, <2>4, <3>1 DEF DiskOK, Heading
    <3> QED BY <2>3, <3>1, <3>2
  <2>5. ASSUME pc[q] = "unmanifest" PROVE \A j \in 1 .. ctx[q].n : Gone(ctx[q].slug, j)'
    <3>1. ctx[q].slug \in Slug /\ ctx[q].n \in Heading
      BY <1>0, <2>1, <2>5, Places DEF CtxOK
    <3>2. \A j \in 1 .. ctx[q].n : j \in Heading /\ Gone(ctx[q].slug, j)
      BY <2>1, <2>5, <3>1 DEF DiskOK, Heading
    <3> QED BY <2>3, <3>1, <3>2
  <2>6. DiskOK(q)'
    BY <1>1, <2>1, <2>4, <2>5 DEF DiskOK, Own
  <2> QED BY <2>2, <2>6
<1>5. SlugInv'
  <2>1. ASSUME NEW t \in Slug, NEW j \in Heading, chunk'[<<t, j>>] # None
        PROVE  /\ manifest[t] # None /\ j <= manifest[t].n
               /\ chunk'[<<t, j>>] = manifest[t].plan
    <3>1. chunk[<<t, j>>] # None \/ <<t, j>> \in part
      BY <1>3, <2>1
    <3>2. manifest[t] # None /\ j <= manifest[t].n
      BY <1>0, <3>1 DEF SlugInv
    <3>3. CASE chunk'[<<t, j>>] = chunk[<<t, j>>]
      BY <1>0, <2>1, <3>2, <3>3 DEF SlugInv
    <3>4. CASE chunk'[<<t, j>>] # chunk[<<t, j>>]
      BY <1>3, <3>2, <3>4
    <3> QED BY <3>3, <3>4
  <2> QED BY <1>0, <1>1, <2>1 DEF SlugInv
<1>6. Alone' /\ RunInv' /\ WholeInv'
  BY <1>0, <1>1, <1>4 DEF Alone, RunInv, WholeInv
<1>7. PlanInv' /\ LatestInv' /\ InterruptedRunResumable'
  <2>1. \A q \in Run : pc[q] # "new" =>
          /\ pc'[q] # "new"
          /\ ctx'[q] \in Context /\ ctx'[q].topic = ctx[q].topic
          /\ ctx[q].plan # None => ctx'[q].plan = ctx[q].plan
    BY <1>0, <1>1 DEF RunInv, CtxOK
  <2>2. \A q \in Run : pc'[q] # "new" /\ ctx'[q].plan # None => pc'[ctx'[q].plan] # "new"
    BY <1>0, <1>1 DEF PlanInv
  <2>3. NoRewrite' => NoRewrite
    BY <1>1 DEF NoRewrite
  <2> QED BY <1>1, <2>1, <2>2, <2>3, HistoryKeeps
<1>8. RewriteInv'
  <2>1. ResumesItsTopic' <=> ResumesItsTopic
    BY <1>1 DEF ResumesItsTopic
  <2> QED BY <1>0, <1>1, <2>1 DEF RewriteInv
<1> QED BY <1>5, <1>6, <1>7, <1>8, EndWriteType DEF IInv

\* A run starts while no other is active, and a resume takes a plan that is on disk.
LEMMA StartStep ==
  ASSUME IInv, ~Overlap, NEW r \in Run, NEW t \in Topic, NEW o \in Override,
         NEW res \in BOOLEAN, Start(r, t, o, res)
  PROVE  IInv'
<1>0. TypeOK /\ CtxOK(r) /\ RunInv /\ SlugInv /\ WholeInv /\ PlanInv /\ LatestInv
  BY DEF IInv, RunInv
<1>1. /\ pc[r] = "new" /\ \A q \in Run : pc[q] \notin Active
      /\ pc' = [pc EXCEPT ![r] = "route"]
      /\ UNCHANGED <<disk, writer, todo, swept, latest, adrift, index>>
  BY DEF Start, Goto
<1>2. TypeOK
  BY <1>0
<1>3. PICK c \in Context :
        /\ ctx' = [ctx EXCEPT ![r] = c] /\ c.topic = t
        /\ \/ c.plan = None
           \/ /\ c.slug \in Slug /\ manifest[c.slug] # None
              /\ c.plan = manifest[c.slug].plan /\ c.n = manifest[c.slug].n
              /\ c.plan \in Run /\ c.n \in Heading
  BY <1>2, StartContext DEF Start
<1>4. ctx' = [ctx EXCEPT ![r] = c]
  BY <1>3
<1>5. /\ pc'[r] = "route" /\ ctx'[r] = c
      /\ \A q \in Run : q # r => pc'[q] = pc[q] /\ ctx'[q] = ctx[q] /\ swept'[q] = swept[q]
  BY <1>0, <1>1, <1>4 DEF TypeOK
<1>6. /\ chunk' = chunk /\ part' = part /\ manifest' = manifest /\ pointer' = pointer
      /\ note' = note /\ writer' = writer /\ swept' = swept /\ latest' = latest
      /\ adrift' = adrift
  BY <1>1 DEF disk
<1>7. CtxOK(r)'
  <2>1. swept'[r] = 0
    BY <1>0, <1>1, <1>6, Places DEF CtxOK
  <2> QED BY <1>3, <1>5, <2>1, Places DEF CtxOK
<1>8. DiskOK(r)'
  BY <1>3, <1>5, <1>6 DEF DiskOK, Own, Claimed, Entered
<1>9. NoteOK(r)'
  BY <1>5 DEF NoteOK
<1>10. Alone' /\ RunInv'
  BY <1>1, <1>5, <1>7, <1>8, <1>9, OthersKeep
<1>11. SlugInv' /\ WholeInv'
  BY <1>0, <1>6 DEF SlugInv, WholeInv
<1>12. PlanInv' /\ LatestInv' /\ InterruptedRunResumable'
  <2>1. \A q \in Run : pc[q] # "new" =>
          /\ pc'[q] # "new"
          /\ ctx'[q] \in Context /\ ctx'[q].topic = ctx[q].topic
          /\ ctx[q].plan # None => ctx'[q].plan = ctx[q].plan
    BY <1>0, <1>1, <1>5 DEF RunInv, CtxOK
  <2>2. ASSUME NEW q \in Run, pc'[q] # "new", ctx'[q].plan # None
        PROVE  pc'[ctx'[q].plan] # "new"
    <3>1. PICK p \in Run : p = ctx'[q].plan /\ pc[p] # "new"
      <4>1. CASE q = r
        BY <1>0, <1>3, <1>5, <2>2, <4>1 DEF PlanInv
      <4>2. CASE q # r
        <5>1. pc[q] # "new" /\ ctx[q].plan # None /\ ctx[q] \in Context
          BY <1>0, <1>5, <2>2, <4>2 DEF RunInv, CtxOK
        <5>2. ctx[q].plan \in Run
          BY <5>1 DEF Context
        <5> QED BY <1>0, <1>5, <4>2, <5>1, <5>2 DEF PlanInv
      <4> QED BY <4>1, <4>2
    <3> QED BY <2>1, <3>1
  <2>3. NoRewrite
    BY <1>1, Places DEF NoRewrite
  <2> QED BY <1>6, <2>1, <2>2, <2>3, HistoryKeeps
<1>13. RewriteInv'
  BY <1>1, <1>5, Places DEF RewriteInv
<1> QED BY <1>10, <1>11, <1>12, <1>13, StartType DEF IInv

\* The bare /resume starts a run for the topic of a sidecar.
LEMMA StartLastStep ==
  ASSUME IInv, ~Overlap, NEW r \in Run, NEW o \in Override, StartLast(r, o)
  PROVE  IInv'
<1>1. PICK t \in Topic : Start(r, t, o, TRUE)
  <2>1. manifest[pointer[Last]] \in Manifest
    BY DEF IInv, TypeOK, Pointer, StartLast
  <2>2. manifest[pointer[Last]].topic \in Topic
    BY <2>1 DEF Manifest
  <2> QED BY <2>2 DEF StartLast
<1> QED BY <1>1, StartStep
-----------------------------------------------------------------------------
(* The invariant.                                                          *)

LEMMA InitIInv ==
  ASSUME Init
  PROVE  IInv
<1>1. TypeOK
  BY DEF Init, TypeOK, NoIndex, Pointer
<1>2. \A r \in Run : pc[r] = "new" /\ ctx[r] = None /\ swept[r] = 0
  BY DEF Init
<1>3. RunInv /\ Alone
  BY <1>2, Places DEF RunInv, CtxOK, DiskOK, NoteOK, Claimed, Entered, Alone
<1>4. SlugInv /\ WholeInv
  BY DEF Init, SlugInv, WholeInv
<1>5. PlanInv /\ LatestInv /\ RewriteInv /\ InterruptedRunResumable
  BY <1>2 DEF Init, PlanInv, LatestInv, RewriteInv, InterruptedRunResumable
<1> QED BY <1>1, <1>3, <1>4, <1>5 DEF IInv

LEMMA NextIInv ==
  ASSUME IInv, ~Overlap, [Next]_vars
  PROVE  IInv'
<1>1. CASE UNCHANGED vars
  <2>1. UNCHANGED <<chunk, part, manifest, pointer, note, writer, pc, ctx, todo, swept, latest, adrift, index>>
    BY <1>1 DEF vars, disk
  <2>2. TypeOK' /\ Alone' /\ SlugInv' /\ WholeInv' /\ PlanInv' /\ LatestInv'
    BY <2>1 DEF IInv, TypeOK, Alone, SlugInv, WholeInv, PlanInv, LatestInv
  <2>3. RunInv'
    BY <2>1 DEF IInv, RunInv, CtxOK, DiskOK, NoteOK, Own, Gone
  <2>4. InterruptedRunResumable' /\ RewriteInv'
    <3>1. (ResumesItsTopic' <=> ResumesItsTopic) /\ (NoRewrite' <=> NoRewrite)
      BY <2>1 DEF ResumesItsTopic, NoRewrite
    <3> QED BY <2>1, <3>1 DEF IInv, InterruptedRunResumable, RewriteInv, Resumable
  <2> QED BY <2>2, <2>3, <2>4 DEF IInv
<1>2. ASSUME NEW r \in Run, NEW o \in Override, NEW t \in Topic, NEW res \in BOOLEAN,
             Start(r, t, o, res)
      PROVE  IInv'
  BY <1>2, StartStep
<1>3. ASSUME NEW r \in Run, NEW o \in Override, StartLast(r, o) PROVE IInv'
  BY <1>3, StartLastStep
<1>4. ASSUME NEW r \in Run, Step(r) \/ Fail(r) \/ Crash(r) PROVE IInv'
  BY <1>4, RouteStep, PreflightStep, MoveOnSteps, AssembleStep, WriteManifestStep,
     WritePointerStep, PlanSectionsStep, BeginWriteStep, PlaceNoteStep, SweepChunkStep,
     SweepManifestStep, ForgetLastRunStep, BeginRewriteStep DEF Step
<1>5. ASSUME NEW w \in writer, EndWrite(w) PROVE IInv'
  BY <1>5, EndWriteStep
<1> QED BY <1>1, <1>2, <1>3, <1>4, <1>5 DEF Next

\* Of runs that do not overlap: the invariant the properties rest on.
THEOREM Invariant == ~Overlap => (Spec => []IInv)
<1> SUFFICES ASSUME ~Overlap PROVE Spec => []IInv
  OBVIOUS
<1>1. Init => IInv
  BY InitIInv
<1>2. IInv /\ [Next]_vars => IInv'
  BY NextIInv
<1> QED BY <1>1, <1>2, PTL DEF Spec
-----------------------------------------------------------------------------
(* The properties.                                                         *)

\* Which steps write what.
LEMMA WhoWrites ==
  ASSUME TypeOK, [Next]_vars
  PROVE  /\ chunk' = chunk \/ (\E r \in Run : SweepChunk(r)) \/ (\E w \in writer : EndWrite(w))
         /\ note' = note \/ \E r \in Run : PlaceNote(r)
         /\ manifest' = manifest \/ \E r \in Run : WriteManifest(r) \/ SweepManifest(r)
         /\ \A r \in Run : pc[r] # "complete" /\ pc'[r] = "complete" =>
              ForgetLastRun(r) \/ EndRewrite(r) \/ ForgetRefused(r) \/ RewriteRefused(r)
<1>0. ASSUME NEW r \in Run, NEW x \in {"route", "preflight", "approve", "manifest", "plan",
             "sections", "assembly", "place", "finish", "cleanup", "pointer", "sweep",
             "unmanifest", "forget", "rewrite", "failed", "crashed"},
             pc' = [pc EXCEPT ![r] = x] \/ pc' = pc
      PROVE  \A q \in Run : pc[q] # "complete" => pc'[q] # "complete"
  BY <1>0 DEF TypeOK
<1>1. CASE UNCHANGED vars
  BY <1>1 DEF vars, disk
<1>2. ASSUME NEW r \in Run, NEW o, NEW t, NEW res, Start(r, t, o, res)
      PROVE  /\ chunk' = chunk /\ note' = note /\ manifest' = manifest
             /\ \A q \in Run : pc[q] # "complete" => pc'[q] # "complete"
  BY <1>0, <1>2 DEF Start, Goto, disk
<1>3. ASSUME NEW r \in Run,
             \/ Route(r) \/ Preflight(r) \/ Approve(r) \/ SectionsDone(r) \/ Assemble(r)
             \/ Incomplete(r) \/ Finish(r) \/ BeginSweep(r) \/ Fail(r) \/ Crash(r)
             \/ WritePointer(r) \/ PlanSections(r) \/ BeginRewrite(r)
             \/ \E i \in Heading : BeginWrite(r, i) \/ SectionFails(r, i)
      PROVE  /\ chunk' = chunk /\ note' = note /\ manifest' = manifest
             /\ \A q \in Run : pc[q] # "complete" => pc'[q] # "complete"
  <2>1. CASE \/ Route(r) \/ Preflight(r) \/ Approve(r) \/ SectionsDone(r) \/ Assemble(r)
             \/ Incomplete(r)
    BY <1>0, <2>1 DEF Route, Preflight, Approve, SectionsDone, Assemble, Incomplete, Goto, disk
  <2>2. CASE \/ Finish(r) \/ BeginSweep(r) \/ Fail(r) \/ Crash(r) \/ WritePointer(r)
             \/ PlanSections(r) \/ BeginRewrite(r)
    BY <1>0, <2>2
       DEF Finish, BeginSweep, Fail, Crash, WritePointer, PlanSections, BeginRewrite, Goto, disk
  <2>3. CASE \E i \in Heading : BeginWrite(r, i) \/ SectionFails(r, i)
    BY <1>0, <2>3 DEF BeginWrite, SectionFails, disk
  <2> QED BY <1>3, <2>1, <2>2, <2>3
<1>4. ASSUME NEW r \in Run, WriteManifest(r) \/ SweepManifest(r)
      PROVE  /\ chunk' = chunk /\ note' = note
             /\ \A q \in Run : pc[q] # "complete" => pc'[q] # "complete"
  BY <1>0, <1>4 DEF WriteManifest, SweepManifest, Goto
<1>5. ASSUME NEW r \in Run, PlaceNote(r)
      PROVE  /\ chunk' = chunk /\ manifest' = manifest
             /\ \A q \in Run : pc[q] # "complete" => pc'[q] # "complete"
  BY <1>0, <1>5 DEF PlaceNote, Goto
<1>6. ASSUME NEW r \in Run, SweepChunk(r)
      PROVE  /\ note' = note /\ manifest' = manifest
             /\ \A q \in Run : pc[q] # "complete" => pc'[q] # "complete"
  BY <1>0, <1>6 DEF SweepChunk
<1>7. ASSUME NEW r \in Run,
             ForgetLastRun(r) \/ EndRewrite(r) \/ ForgetRefused(r) \/ RewriteRefused(r)
      PROVE  /\ chunk' = chunk /\ note' = note /\ manifest' = manifest
             /\ \A q \in Run : q # r => pc'[q] = pc[q]
  BY <1>7 DEF ForgetLastRun, EndRewrite, ForgetRefused, RewriteRefused, Goto, TypeOK, disk
<1>8. ASSUME NEW w \in writer, EndWrite(w)
      PROVE  note' = note /\ manifest' = manifest /\ pc' = pc
  BY <1>8 DEF EndWrite
<1>9. CASE \E r \in Run, o \in Override :
             \/ \E t \in Topic, res \in BOOLEAN : Start(r, t, o, res)
             \/ StartLast(r, o)
  BY <1>2, <1>9 DEF StartLast
<1>10. CASE \E r \in Run : Step(r) \/ Fail(r) \/ Crash(r)
  BY <1>3, <1>4, <1>5, <1>6, <1>7, <1>10 DEF Step
<1>11. CASE \E w \in writer : EndWrite(w)
  BY <1>8, <1>11
<1> QED BY <1>1, <1>9, <1>10, <1>11 DEF Next

\* A note in the vault has all its sections, of the plan of the run that assembled
\* it, whatever was cancelled, killed and resumed before: for any number of runs.
THEOREM WholeNotes == ~Overlap => (Spec => []NoteWhole)
<1>1. IInv => NoteWhole
  BY DEF IInv, WholeInv, NoteWhole, Notes
<1> QED BY <1>1, Invariant, PTL

\* As long as the last run of a topic that reached the disk has not deleted its
\* sidecar, a resume of the topic finds that run's plan, unless the rewrite of the
\* pointer by another run was killed or refused half-way in between.
THEOREM ResumeFinds == ~Overlap => (Spec => []InterruptedRunResumable)
<1>1. IInv => InterruptedRunResumable
  BY DEF IInv
<1> QED BY <1>1, Invariant, PTL

\* A section that reached the disk is deleted only once a note holds it: the
\* clean-up comes after the note, and a chunk is of the plan of its sidecar.
THEOREM ChunksKept == ~Overlap => (Spec => ChunksOutliveRuns)
<1> SUFFICES ASSUME ~Overlap PROVE Spec => ChunksOutliveRuns
  OBVIOUS
<1>1. ASSUME IInv, [Next]_vars, NEW x \in Slug \X Heading, chunk[x] # None, chunk'[x] = None
      PROVE  \E y \in Notes : y.parts[x[2]] = chunk[x]
  <2>0. TypeOK /\ RunInv /\ SlugInv
    BY <1>1 DEF IInv
  <2>1. ASSUME NEW w \in writer, EndWrite(w) PROVE FALSE
    <3>1. w.slug \in Slug /\ w.i \in Heading /\ w.plan # None
      BY <2>0 DEF TypeOK
    <3>2. chunk'[x] = chunk[x] \/ chunk'[x] = w.plan
      BY <2>0, <2>1, <3>1 DEF EndWrite, TypeOK
    <3> QED BY <1>1, <3>1, <3>2
  <2>2. PICK r \in Run : SweepChunk(r)
    BY <1>1, <2>0, <2>1, WhoWrites
  <2>3. /\ pc[r] = "sweep" /\ swept[r] < ctx[r].n
        /\ chunk' = [chunk EXCEPT ![<<ctx[r].slug, swept[r] + 1>>] = None]
    BY <2>2 DEF SweepChunk
  <2>4. PICK s \in Slug, k \in Heading :
          s = ctx[r].slug /\ k = swept[r] + 1 /\ k \in 1 .. ctx[r].n /\ x = <<s, k>>
    <3>1. ctx[r].slug \in Slug /\ ctx[r].n \in Heading /\ swept[r] \in 0 .. MaxHeadings
      BY <2>0, <2>3, Places DEF RunInv, CtxOK, TypeOK
    <3>2. x = <<ctx[r].slug, swept[r] + 1>>
      BY <1>1, <2>0, <2>3 DEF TypeOK
    <3> QED BY <2>3, <3>1, <3>2 DEF Heading
  <2>5. chunk[x] = ctx[r].plan
    BY <1>1, <2>0, <2>3, <2>4 DEF SlugInv, RunInv, DiskOK, Own, Claimed, Entered
  <2>6. PICK p \in Path : note[p] # None /\ note[p].parts[k] = ctx[r].plan
    BY <2>0, <2>3, <2>4 DEF RunInv, NoteOK
  <2> QED BY <2>4, <2>5, <2>6 DEF Notes
<1>2. IInv /\ [Next]_vars =>
        [\A x \in Slug \X Heading : chunk[x] # None /\ chunk'[x] = None =>
           \E y \in Notes : y.parts[x[2]] = chunk[x]]_vars
  BY <1>1
<1> QED BY <1>2, Invariant, PTL DEF Spec, ChunksOutliveRuns

\* A run that completes leaves no chunk, no .part file and no sidecar of its slug, and
\* no pointer to it unless the system refused to write the pointer; and it drops the
\* topic's entry only when that is its own: a thread that outlived its run cannot
\* bring a chunk back, since its .part file is gone.
THEOREM LeavesNothing == ~Overlap => (Spec => CleanExit)
<1> SUFFICES ASSUME ~Overlap PROVE Spec => CleanExit
  OBVIOUS
<1>1. ASSUME IInv, [Next]_vars, NEW r \in Run, pc[r] = "forget", pointer' # pointer
      PROVE  pointer[ctx[r].topic] = ctx[r].slug
  BY <1>1 DEF IInv, RunInv, DiskOK
<1>2. ASSUME IInv, [Next]_vars, NEW r \in Run, pc[r] # "complete", pc'[r] = "complete"
      PROVE  LET s == ctx[r].slug
                 t == ctx[r].topic
             IN /\ manifest'[s] = None
                /\ \A i \in Heading : chunk'[s, i] = None /\ <<s, i>> \notin part'
                /\ t \notin adrift' => pointer'[t] = None /\ pointer'[Last] # s
  <2>0. TypeOK /\ CtxOK(r) /\ DiskOK(r) /\ SlugInv /\ RewriteInv
    BY <1>2 DEF IInv, RunInv
  <2>1. ForgetLastRun(r) \/ EndRewrite(r) \/ ForgetRefused(r) \/ RewriteRefused(r)
    BY <1>2, <2>0, WhoWrites
  <2>2. pc[r] \in {"forget", "rewrite"} /\ UNCHANGED <<chunk, part, manifest, ctx>>
    BY <2>1 DEF ForgetLastRun, EndRewrite, ForgetRefused, RewriteRefused, disk
  <2>3. PICK s \in Slug, t \in Topic : s = ctx[r].slug /\ t = ctx[r].topic
    <3>1. ctx[r].topic \in Topic
      BY <2>0, <2>2 DEF CtxOK, Context
    <3> QED BY <2>0, <2>2, <3>1, Places DEF CtxOK
  <2>4. manifest[s] = None
    BY <2>0, <2>2, <2>3 DEF DiskOK, RewriteInv
  <2>5. \A i \in Heading : chunk[<<s, i>>] = None /\ <<s, i>> \notin part
    BY <2>0, <2>4 DEF SlugInv
  <2>6. s # None /\ t # Last
    BY DEF Slug
  <2>7. ASSUME t \notin adrift' PROVE pointer'[t] = None /\ pointer'[Last] # s
    <3>1. CASE ForgetLastRun(r)
      BY <2>6, <3>1 DEF ForgetLastRun, NoIndex
    <3>2. CASE EndRewrite(r)
      BY <2>0, <2>3, <3>2 DEF EndRewrite, RewriteInv
    <3>3. CASE ForgetRefused(r) \/ RewriteRefused(r)
      BY <2>3, <2>7, <3>3 DEF ForgetRefused, RewriteRefused
    <3> QED BY <2>1, <3>1, <3>2, <3>3
  <2> QED BY <2>2, <2>3, <2>4, <2>5, <2>7
<1>3. IInv /\ [Next]_vars =>
        [\A r \in Run :
           LET s == ctx[r].slug
               t == ctx[r].topic
           IN /\ pc[r] = "forget" /\ pointer' # pointer => pointer[t] = s
              /\ pc[r] # "complete" /\ pc'[r] = "complete" =>
                   /\ manifest'[s] = None
                   /\ \A i \in Heading : chunk'[s, i] = None /\ <<s, i>> \notin part'
                   /\ t \notin adrift' => pointer'[t] = None /\ pointer'[Last] # s]_vars
  BY <1>1, <1>2
<1> QED BY <1>3, Invariant, PTL DEF Spec, CleanExit

\* A run never replaces a note that is there, nor the sidecar of another plan, though
\* it looks at the disk long before it writes: the name is free until it is taken.
THEOREM ReplacesNothing == ~Overlap => (Spec => NothingReplaced)
<1> SUFFICES ASSUME ~Overlap PROVE Spec => NothingReplaced
  OBVIOUS
<1>1. ASSUME IInv, [Next]_vars, NEW p \in Path, note[p] # None
      PROVE  note'[p] = note[p]
  <2>0. TypeOK /\ RunInv
    BY <1>1 DEF IInv
  <2>1. ASSUME NEW r \in Run, PlaceNote(r) PROVE note'[p] = note[p]
    <3>1. ctx[r].dest # p
      BY <1>1, <2>0, <2>1 DEF PlaceNote, RunInv, NoteOK
    <3> QED BY <2>0, <2>1, <3>1 DEF PlaceNote, TypeOK
  <2> QED BY <1>1, <2>0, <2>1, WhoWrites
<1>2. ASSUME IInv, [Next]_vars, NEW s \in Slug, manifest[s] # None, manifest'[s] # None
      PROVE  manifest'[s].plan = manifest[s].plan
  <2>0. TypeOK /\ RunInv
    BY <1>2 DEF IInv
  <2>1. ASSUME NEW r \in Run, WriteManifest(r) PROVE manifest'[s].plan = manifest[s].plan
    <3>1. pc[r] = "manifest" /\ DiskOK(r)
      BY <2>0, <2>1 DEF WriteManifest, RunInv
    <3>2. CASE ctx[r].slug # s
      BY <2>0, <2>1, <3>2 DEF WriteManifest, TypeOK
    <3>3. CASE ctx[r].slug = s
      <4>1. manifest[s].plan = ctx[r].plan
        BY <1>2, <3>1, <3>3 DEF DiskOK, Own
      <4>2. manifest'[s].plan = ctx[r].plan
        BY <2>0, <2>1, <3>3 DEF WriteManifest, TypeOK
      <4> QED BY <4>1, <4>2
    <3> QED BY <3>2, <3>3
  <2>2. ASSUME NEW r \in Run, SweepManifest(r) PROVE manifest'[s].plan = manifest[s].plan
    BY <1>2, <2>0, <2>2 DEF SweepManifest, TypeOK
  <2> QED BY <1>2, <2>0, <2>1, <2>2, WhoWrites
<1>3. IInv /\ [Next]_vars =>
        [/\ \A p \in Path : note[p] # None => note'[p] = note[p]
         /\ \A s \in Slug : manifest[s] # None /\ manifest'[s] # None =>
              manifest'[s].plan = manifest[s].plan]_vars
  BY <1>1, <1>2
<1> QED BY <1>3, Invariant, PTL DEF Spec, NothingReplaced
=============================================================================
