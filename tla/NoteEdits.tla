----------------------------- MODULE NoteEdits -----------------------------
(***************************************************************************)
(* What happens to a note between its assembly and the end of its run: the *)
(* stages TransitionStage, TagsWrittenStage, FormatterStage and            *)
(* LinkingStage (pipeline/stages.py) read the file, work on what they read *)
(* (the weaver's answer, a vault tool and the bus are awaited meanwhile)   *)
(* and put the result in its place through _write_back, while the user has *)
(* the note open in an editor.                                             *)
(*                                                                         *)
(* The stages between them do not write the note: WordCountStage only      *)
(* reports, TaggingStage is in module Tagging, MocStage writes another     *)
(* note.  A write replaces the file in one step (_write_note_atomically).  *)
(***************************************************************************)
EXTENDS NoteText

CONSTANTS Topic,
          Plan,         \* the heading lists a run may have
          Chunk,        \* the texts a section may have
          Names,        \* the notes of the vault
          Entities,     \* _note_entities: the names among the note's tags
          Reply,        \* lines the weaver may answer with: <<section, about>>
          Related,      \* what get_related_notes may answer: sequences of names
          Mine,         \* what the user writes, in this order
          MaxEdits      \* bound: edits of the user

\* A frontmatter block: its tags line, and whether the user has a line in it.
Frontmatter == [tags : {"[]", "some"}, own : BOOLEAN]
NoFrontmatter == [tags |-> "none", own |-> FALSE]
NoNote == [fm |-> NoFrontmatter, body |-> <<>>]
Field == "field"    \* the user's line in the frontmatter

\* What the user writes is recognised: it names no note and no entity.
ASSUME NoteEditsAssumption ==
  /\ Topic \in Text /\ Plan \subseteq Seq(Text) /\ Chunk \subseteq Seq(NoteLine)
  /\ Names \subseteq Text /\ Entities \in Seq(Text) /\ Related \subseteq Seq(Text)
  /\ Mine \in Seq(Text) /\ Field \notin Range(Mine) /\ MaxEdits \in 0 .. Len(Mine)
  /\ Range(Mine) \cap (Names \cup Range(Entities) \cup Range(LastWord)) = {}

VARIABLES placed,   \* history: the body assembly put in the vault
          note,     \* the file: [fm, body]
          stage, phase,
          held,     \* the note as the stage read it
          made,     \* what _write_back is about to write
          linked,   \* history: the notes LinkingStage linked in the text
          edits,    \* edits of the user so far
          saved,    \* history: what the user saved while no stage had read it
          bared     \* history: the note has been without frontmatter

run == <<stage, phase, held, made, linked>>
user == <<edits, saved, bared>>
vars == <<placed, note, run, user>>

TypeOK ==
  /\ note.fm \in Frontmatter \cup {NoFrontmatter}
  /\ stage \in {"transitions", "tags", "formatting", "linking", "done"}
  /\ phase \in {"read", "hold", "write"}
  /\ linked \in SUBSET Names /\ saved \in SUBSET (Range(Mine) \cup {Field})
  /\ edits \in 0 .. MaxEdits /\ bared \in BOOLEAN

\* AssemblyStage: the links to no note are unwrapped and the text is normalised;
\* its last line ends in a newline, a blank line for normalise_markdown.
Placed(plan, chunks) ==
  Normalise(Append(Unwrapped(TrimEnd(Assembled(Topic, plan, chunks)), Names), Blank))

Init ==
  /\ \E plan \in Plan : \E chunks \in [DOMAIN plan -> Chunk] : placed = Placed(plan, chunks)
  /\ note = [fm |-> [tags |-> "[]", own |-> FALSE], body |-> placed]
  /\ stage = "transitions" /\ phase = "read"
  /\ held = NoNote /\ made = NoNote
  /\ linked = {} /\ edits = 0 /\ saved = {} /\ bared = FALSE

-----------------------------------------------------------------------------
(* The stages.                                                             *)

\* The run goes on with the next stage; it never comes back to this note.
Go(next) ==
  /\ stage' = next /\ phase' = "read" /\ held' = NoNote /\ made' = NoNote

After(s) == CASE s = "transitions" -> "tags" [] s = "tags" -> "formatting"
              [] s = "formatting" -> "linking" [] OTHER -> "done"

\* The stage's read_text.
Read ==
  /\ stage \in {"transitions", "formatting", "linking"} /\ phase = "read"
  /\ held' = note /\ phase' = "hold"
  /\ UNCHANGED <<placed, note, stage, made, linked, user>>

\* _write_back up to the write: the frontmatter is the one on disk by now, and a
\* body that lost a quarter is refused.
Candidate(body) ==
  IF held.fm = NoFrontmatter THEN Trim(Unfenced(Trim(body))) ELSE TrimEnd(body)

\* Mutant of WriteBack: the frontmatter of the note as it was read.
WriteBack_HeldFrontmatter(body) ==
  LET new == Normalise(Candidate(body))
  IN  IF Candidate(body) = <<>> \/ Truncates(new, note.body) THEN Go(After(stage))
      ELSE /\ made' = [fm |-> held.fm, body |-> new]
           /\ phase' = "write" /\ held' = NoNote /\ UNCHANGED stage

WriteBack(body) ==
  LET new == Normalise(Candidate(body))
  IN  IF Candidate(body) = <<>> \/ Truncates(new, note.body) THEN Go(After(stage))
      ELSE /\ made' = [fm |-> IF note.fm = NoFrontmatter THEN held.fm ELSE note.fm,
                       body |-> new]
           /\ phase' = "write" /\ held' = NoNote /\ UNCHANGED stage

\* The sections for which the answer has a transition that may be used.
Accepted(reply) ==
  {r[1] : r \in {q \in reply : Valid(Skeleton(held.body), q[1], q[2], Topic)}}

\* Zero transitions leave the note as it is.
SpliceAccepted(sections) ==
  IF sections = {} THEN Go("tags") ELSE WriteBack(Splice(held.body, sections))

\* TransitionStage: a missing weaver, an error and an empty answer are all an answer
\* without transitions.
Weave ==
  /\ stage = "transitions" /\ phase = "hold"
  /\ \E reply \in SUBSET Reply : SpliceAccepted(Accepted(reply))
  /\ UNCHANGED <<placed, note, linked, user>>

\* apply_tags: the tags line is replaced, or added; a note with no frontmatter gets
\* a new block.
Tagged(fm, tags) == [fm EXCEPT !.tags = tags]

\* TagsWrittenStage: read, apply_tags and write without an await.
WriteTags ==
  /\ stage = "tags" /\ Go("formatting")
  /\ \E tags \in {"[]", "some"} : note' = [note EXCEPT !.fm = Tagged(@, tags)]
  /\ UNCHANGED <<placed, linked, user>>

\* FormatterStage
Format ==
  /\ stage = "formatting" /\ phase = "hold"
  /\ IF ApplyStructure(held.body) = held.body THEN Go("linking")
     ELSE WriteBack(ApplyStructure(held.body))
  /\ UNCHANGED <<placed, note, linked, user>>

\* LinkingStage: the tool is told what was linked just now, and leaves it out; a
\* vault without it answers nothing.  When nothing was added the note is not
\* written, and keeps the section that was stripped.
Connect ==
  /\ stage = "linking" /\ phase = "hold"
  /\ LET bare == StripRelated(held.body)
         body == LinkMentions(bare, Resolved(Entities, Names))
         fresh == {n \in Names : Link(n) \in Range(body) \ Range(bare)}
     IN  \E related \in {r \in Related : Range(r) \cap fresh = {}} :
           IF fresh = {} /\ Rendered(related) = <<>>
           THEN Go("done") /\ UNCHANGED linked
           ELSE /\ WriteBack(AppendRelated(body, related))
                /\ linked' = IF phase' = "write" THEN fresh ELSE {}
  /\ UNCHANGED <<placed, note, user>>

\* _write_note_atomically
Place ==
  /\ phase = "write" /\ note' = made /\ Go(After(stage))
  /\ UNCHANGED <<placed, linked, user>>

-----------------------------------------------------------------------------
(* The user's editor.                                                      *)

CanSave == edits < MaxEdits /\ stage # "done"

Save(lines) ==
  /\ CanSave /\ edits' = edits + 1
  /\ note' = [note EXCEPT !.body = lines]
  /\ saved' = IF phase = "read" THEN saved \cup {Mine[edits + 1]} ELSE saved
  /\ UNCHANGED <<placed, run, bared>>

AddBelow == Save(note.body \o <<Blank, Para(Mine[edits + 1])>>)
AddAbove == Save(<<Para(Mine[edits + 1]), Blank>> \o note.body)

\* The frontmatter is read again by _write_back, right before the write.
AddField ==
  /\ CanSave /\ edits' = edits + 1
  /\ note.fm # NoFrontmatter
  /\ note' = [note EXCEPT !.fm.own = TRUE]
  /\ saved' = IF phase # "write" THEN saved \cup {Field} ELSE saved
  /\ UNCHANGED <<placed, run, bared>>

DropFrontmatter ==
  /\ CanSave /\ edits' = edits + 1
  /\ note.fm # NoFrontmatter
  /\ note' = [note EXCEPT !.fm = NoFrontmatter]
  /\ bared' = TRUE
  /\ UNCHANGED <<placed, run, saved>>

Stage == Read \/ Weave \/ WriteTags \/ Format \/ Connect \/ Place
User == AddBelow \/ AddAbove \/ AddField \/ DropFrontmatter

Next == Stage \/ User

Spec == Init /\ [][Next]_vars /\ WF_vars(Stage)
-----------------------------------------------------------------------------
(* Properties.                                                             *)

\* A section the plan calls Related Notes is taken for the linker's own, and a line
\* that says no more than the heading above it is left out by the formatter.
Clashes ==
  \E i \in DOMAIN placed :
    /\ placed[i].kind = "head"
    /\ \E t \in {RelatedNotes} \cup Range(Mine) : t \in {placed[i].text, LinkSafe(placed[i].text)}

\* No code block opens with a fence that structure and normalise do not know.
PlainFences(ls) == \A i \in DOMAIN ls : ls[i].kind # "info"

\* Every entry the table of contents has for a numbered section is the text of a
\* heading of the note, with nothing in it that breaks a link, whatever the later
\* stages and the user did (structure.py:18, "every link in the generated TOC
\* resolves").
TocResolves ==
  ~Clashes =>
    \A i \in DOMAIN note.body :
      LET e == note.body[i]
      IN  e.kind = "entry" /\ e.num # 0
            => /\ e.text \notin DOMAIN Sanitised
               /\ \E j \in DOMAIN note.body : note.body[j] = Heading(3, e.num, e.text)

\* The transition of section n stands right below the heading of section n, and
\* outside code, also after the formatter has numbered the sections by a count
\* of its own (transitions.py, splice_transitions: "the indices here agree").  A
\* note without frontmatter may be taken for what is fenced in it, and a section
\* taken for the linker's own may hold the end of a code block.
TransitionsInPlace ==
  PlainFences(placed) /\ ~Clashes /\ ~bared =>
    LET heads == Heads(note.body, Strict)
    IN  \A i \in DOMAIN note.body : note.body[i].kind = "trans" =>
          /\ i - 2 \in heads
          /\ note.body[i - 2].num \in {0, note.body[i].num}

\* What a line of prose says, whatever a stage may do to its looks.  A link shows
\* the name of the note or the last word of it, and the line did so before.
Said(l) ==
  IF l.kind \notin {"head", "link", "para"} THEN l
  ELSE Para(IF l.kind # "head" /\ l.text \in DOMAIN LastWord THEN LastWord[l.text]
            ELSE LinkSafe(l.text))

\* What stages and user add to the prose, and what may go of it: rules and blank lines.
Added(l) ==
  \/ l.kind \in {"blank", "rule", "trans", "callout", "entry", "item"}
  \/ l = Heading(2, 0, RelatedNotes)
  \/ l.kind = "para" /\ l.text \in Range(Mine)

\* Lines that only repeat a heading may go as well.
Titles == {LinkSafe(placed[i].text) : i \in SectionLines(placed)}
Repeats(l, titles) == l.kind # "head" /\ \E t \in titles : Said(l) = Said(Para(t))

\* What assembly wrote.
Words(ls, titles) ==
  LET prose == Prose(ls, Strict)
  IN  FlattenSeq([i \in DOMAIN ls |->
        CASE i \notin prose -> <<ls[i]>>
          [] i \in prose /\ (Added(ls[i]) \/ Repeats(ls[i], titles)) -> <<>>
          [] OTHER -> <<Said(ls[i])>>])

\* The note body never goes through a model, and nothing of it is lost or moved
\* ("the note body must never round-trip through a model", TransitionStage): at
\* any time the file says what assembly wrote, in its order, code to the letter.
TextKept ==
  PlainFences(placed) /\ ~Clashes /\ ~bared =>
    Words(note.body, Titles) = Words(placed, Titles)

\* LinkingStage links a name once, never one that was linked already, and its
\* section names no note that it has just linked in the text.
LinkedOnce ==
  \A n \in Names :
    LET At(ls) == {i \in DOMAIN ls : ls[i] = Link(n)}
    IN  /\ Cardinality(At(note.body)) <= Max({1, Cardinality(At(placed))})
        /\ n \in linked /\ stage = "done" => Item(n) \notin Range(note.body)

\* What the user saves while no stage is at work on the note it has read is never
\* lost; a line in the frontmatter only when it is saved in the very moment of a
\* write ("the on-disk frontmatter is ALWAYS preserved", _write_back).
EditsKept ==
  ~bared /\ ~Clashes =>
    /\ \A m \in saved \ {Field} : Para(m) \in Range(note.body)
    /\ Field \in saved => note.fm.own

\* normalise.py:20, "the transformation is idempotent": a note the pipeline has
\* written is not changed by normalising it again.
RulesSettle == Normalise(note.body) = note.body
=============================================================================
