--------------------------- MODULE NoteInvariants ---------------------------
(***************************************************************************)
(* What the proofs about NoteEdits speak of: how often a line is in a text,*)
(* what holds of a note at every stage and phase, and readers, which follow*)
(* a text line by line and know which fence is open.                       *)
(***************************************************************************)
EXTENDS NoteEdits

At(l, ls) == {i \in DOMAIN ls : ls[i] = l}
Count(l, ls) == Cardinality(At(l, ls))

------------------------------------------------------------------------------
(* What the stages may do to headings, links and the lines of the user.     *)

\* No heading is taken for the linker's, or for a line of the user's.
Fit(ls) ==
  \A l \in Range(ls) : l.kind = "head" =>
    \A t \in {RelatedNotes} \cup Range(Mine) : t \notin {l.text, LinkSafe(l.text)}

Apart(ls) == \A l \in Range(ls) : l.kind = "head" => l.text # RelatedNotes

\* What a step that makes the text b of the text a may do to links and to the
\* lines of the user.
FewFrom(a, b) ==
  \A n : Count(Link(n), b) <= Count(Link(n), a) \/ Count(Link(n), b) <= 1

KeepsMine(a, b) == \A m \in Range(Mine) : Para(m) \in Range(a) => Para(m) \in Range(b)

\* The notes that may be linked, under the names they are looked for.
Linked ==
  {t \in [entity : Range(Entities), name : Text] : t.name \in Names /\ t.entity \in Keys(t.name)}

------------------------------------------------------------------------------
(* The invariant: types, headings, the user's field and lines, links.       *)

Note == [fm : Frontmatter \cup {NoFrontmatter}, body : Seq(NoteLine)]

\* A stage holds the note, or is about to write it, only while it is at work on it.
Phases ==
  /\ TypeOK
  /\ placed \in Seq(NoteLine) /\ note \in Note
  /\ phase = "hold" => held \in Note
  /\ phase = "write" => made \in Note
  /\ phase # "read" => stage \in {"transitions", "formatting", "linking"}

\* Until the formatter has been at it, no heading is like a line of the user's; none is
\* ever taken for the linker's.
Headed ==
  ~Clashes =>
    /\ stage \in {"transitions", "tags", "formatting"} => Fit(note.body)
    /\ stage \in {"transitions", "formatting"} /\ phase = "hold" => Fit(held.body)
    /\ stage = "transitions" /\ phase = "write" => Fit(made.body)
    /\ stage = "formatting" /\ phase = "write" => Apart(made.body)
    /\ stage = "linking" => Apart(note.body)
    /\ stage = "linking" /\ phase = "hold" => Apart(held.body)

\* The user's field is in the note and in what is about to be written.
Fielded ==
  ~bared =>
    /\ note.fm \in Frontmatter
    /\ phase = "hold" => held.fm \in Frontmatter
    /\ phase = "write" => made.fm \in Frontmatter
    /\ Field \in saved => note.fm.own /\ (phase = "write" => made.fm.own)

\* So are the user's lines, and in what the stage holds.
Lined ==
  ~bared /\ ~Clashes =>
    \A m \in saved \ {Field} :
      /\ Para(m) \in Range(note.body)
      /\ phase = "hold" => Para(m) \in Range(held.body)
      /\ phase = "write" => Para(m) \in Range(made.body)

Few(ls) ==
  \A n \in Names : Count(Link(n), ls) <= Count(Link(n), placed) \/ Count(Link(n), ls) <= 1

FewLinks ==
  /\ Few(note.body)
  /\ phase = "hold" => Few(held.body)
  /\ phase = "write" => Few(made.body)

\* The notes linked just now are not in the section too.
Parted ==
  \A n \in linked :
    \/ stage = "linking" /\ phase = "write" /\ Item(n) \notin Range(made.body)
    \/ stage = "done" /\ Item(n) \notin Range(note.body)

IInv == Phases /\ Headed /\ Fielded /\ Lined /\ FewLinks /\ Parted

------------------------------------------------------------------------------
(* One step of a stage.                                                     *)

\* The stage goes to write what it made of b.
Writes(b) ==
  /\ stage' = stage /\ phase' = "write"
  /\ made' \in Note /\ made'.body = Normalise(Candidate(b))
  /\ made'.fm = IF note.fm = NoFrontmatter THEN held.fm ELSE note.fm

\* A stage has made the text b of what it holds, and the user has done nothing.
Worked(b) ==
  /\ phase = "hold" /\ b \in Seq(NoteLine)
  /\ UNCHANGED <<placed, note, user>> /\ linked' \subseteq Names
  /\ Go(After(stage)) \/ Writes(b)

\* What the text b must be for the invariant to go on.
Fair(b) ==
  /\ FewFrom(held.body, b)
  /\ ~Clashes => /\ KeepsMine(held.body, b)
                 /\ stage = "transitions" => Fit(b)
                 /\ stage = "formatting" => Apart(b)

\* What every stage's step does to the parts of the invariant but the last.
Others == Phases /\ Headed /\ Fielded /\ Lined /\ FewLinks

------------------------------------------------------------------------------
(* The table of contents.                                                   *)

\* What is asked of the plans and texts: _link_safe leaves nothing in a text that it
\* would take out ("Idempotent: the output contains none of the characters it
\* removes", structure.py:128; a text of such characters alone is left as it is),
\* and no section has numbered headings or a table of contents of its own.
Untabled(ls) ==
  \A l \in Range(ls) : l.kind # "entry" /\ (l.kind = "head" => l.num = 0)

SafeIsSafe == Range(Sanitised) \cap DOMAIN Sanitised = {}

PlainChunks == \A c \in Chunk : Untabled(c)

\* Every entry for a numbered section has its heading.
Tabled(ls) ==
  \A e \in Range(ls) : e.kind = "entry" /\ e.num # 0 =>
    /\ e.text \notin DOMAIN Sanitised
    /\ Heading(3, e.num, e.text) \in Range(ls)

\* Before the formatter a text has no table; after it each entry has its heading.
TocInv ==
  ~bared /\ ~Clashes =>
    /\ stage \in {"transitions", "tags", "formatting"} => Untabled(note.body)
    /\ stage \in {"transitions", "formatting"} /\ phase = "hold" => Untabled(held.body)
    /\ stage = "transitions" /\ phase = "write" => Untabled(made.body)
    /\ Tabled(note.body)
    /\ phase = "hold" => Tabled(held.body)
    /\ phase = "write" => Tabled(made.body)

\* What the text b must be for that to go on.
FairToc(b) ==
  ~bared /\ ~Clashes => Tabled(b) /\ (stage = "transitions" => Untabled(b))

------------------------------------------------------------------------------
(* Reading a text line by line.                                             *)

\* A reader d goes from state to state; each state knows the fence that is open.
Reader(d, S) ==
  /\ d \in [S \X NoteLine -> S]
  /\ \A s \in S : s.open \in Text
  /\ \A s \in S, l \in NoteLine : d[<<s, l>>].open = Opened(s.open, l, Strict)

\* Its state after ls.
Fed(d, s, ls) ==
  LET upto[i \in 0 .. Len(ls)] == IF i = 0 THEN s ELSE d[<<upto[i - 1], ls[i]>>]
  IN  upto[Len(ls)]

IsFed(f, d, s, ls) ==
  f = [i \in 0 .. Len(ls) |-> IF i = 0 THEN s ELSE d[<<f[i - 1], ls[i]>>]]

Outside(s) == s.open = ""

\* The lines that tell it nothing outside code.
Quiet(d, S, l) == \A s \in S : Outside(s) => d[<<s, l>>] = s

\* Its state after the first i lines.
Seen(d, s, ls, i) == Fed(d, s, SubSeq(ls, 1, i))

------------------------------------------------------------------------------
(* What a text says, its sections and its title.                            *)

Writings == [open : Text, out : Seq(NoteLine)]
Unsaid == [open |-> "", out |-> <<>>]

\* What Words takes from a line of prose.
Left(l, titles) == IF Added(l) \/ Repeats(l, titles) THEN <<>> ELSE <<Said(l)>>

Says(s, l, titles) == IF Outside(s) /\ l.kind \notin Strict THEN Left(l, titles) ELSE <<l>>

WordReader(titles) ==
  [p \in Writings \X NoteLine |->
     [open |-> Opened(p[1].open, p[2], Strict), out |-> p[1].out \o Says(p[1], p[2], titles)]]

\* The texts of the sections.
Outlines == [open : Text, secs : SUBSET Text]
NoOutline == [open |-> "", secs |-> {}]

Sections(s, l) ==
  IF Outside(s) /\ l.kind = "head" /\ l.level = 2 THEN s.secs \cup {l.text} ELSE s.secs

SectionReader ==
  [p \in Outlines \X NoteLine |->
     [open |-> Opened(p[1].open, p[2], Strict), secs |-> Sections(p[1], p[2])]]

\* Where the first heading of the first level is.
Titlings == [open : Text, first : {"none", "prose", "code"}]
NoTitle == [open |-> "", first |-> "none"]

First(s, l) ==
  IF l.kind = "head" /\ l.level = 1 /\ s.first = "none"
  THEN IF Outside(s) THEN "prose" ELSE "code" ELSE s.first

TitleReader ==
  [p \in Titlings \X NoteLine |->
     [open |-> Opened(p[1].open, p[2], Strict), first |-> First(p[1], p[2])]]

------------------------------------------------------------------------------
(* What the passes do to what is read.                                      *)

\* Blank lines, rules, transitions and lines of the user mean nothing to the reader.
Bland(l) == l.kind \in {"blank", "rule", "trans"} \/ (l.kind = "para" /\ l.text \in Range(Mine))

Mild(d, S) == Reader(d, S) /\ \A l \in NoteLine : Bland(l) => Quiet(d, S, l)

\* The user's two ways to add a line.
Adds(b, ls, m) == b = ls \o <<Blank, Para(m)>> \/ b = <<Para(m), Blank>> \o ls

IsTitle(l) == l.kind = "head" /\ l.level = 1

------------------------------------------------------------------------------
(* That the text is kept.                                                   *)

\* The last segment of a name that may be linked is its own last segment, and has
\* nothing in it that breaks a link: _LINK_HOSTILE would have matched the name.
LastIsLast ==
  \A n \in DOMAIN LastWord \ Unlinkable : Said(Para(LastWord[n])) = Para(LastWord[n])

\* A line below the text would not be in a code block.
Closes(ls) == Len(ls) + 1 \in Prose(Append(ls, Blank), Strict)

Word(ls) == Fed(WordReader(Titles), Unsaid, ls)
Outline(ls) == Fed(SectionReader, NoOutline, ls)
Titling(ls) == Fed(TitleReader, NoTitle, ls)

\* The text says what assembly wrote.
Kept(ls) == PlainFences(ls) /\ Word(ls) = Word(placed)

\* So do its headings, until the formatter has been at it.
Young(ls) == Outline(ls) = Outline(placed) /\ Titling(ls) = Titling(placed)

\* What assembly wrote can be told from what is added later.
Plainly == PlainFences(placed) /\ Closes(placed) /\ ~Clashes

TextInv ==
  Plainly /\ ~bared =>
    /\ Titling(placed).first = "prose"
    /\ Kept(note.body)
    /\ phase = "hold" => Kept(held.body)
    /\ phase = "write" => Kept(made.body)
    /\ stage \in {"transitions", "tags", "formatting"} => Young(note.body)
    /\ stage \in {"transitions", "formatting"} /\ phase = "hold" => Young(held.body)
    /\ stage = "transitions" /\ phase = "write" => Young(made.body)

\* What the text b must be for that to go on.
FairText(b) ==
  Plainly /\ ~bared => Kept(b) /\ (stage = "transitions" => Young(b))

------------------------------------------------------------------------------
(* Transitions in their place, by what a reader finds above them: a heading *)
(* outside code, and the blank line below it.  Until the formatter has been *)
(* at the note, a section is known by its place among the headings of the   *)
(* second level (order); after that by the number of its heading (number).  *)
(* A transition anywhere else leaves the reader lost.                       *)

Watches == [open : Text, at : {"away", "head", "below", "lost"}, mark : Nat]
Unplaced == [open |-> "", at |-> "away", mark |-> 0]

\* The headings that a transition may follow.
Opens(w, s, l) ==
  /\ Outside(s) /\ l.kind = "head"
  /\ IF w = "order" THEN l.level = 2 ELSE l.level # 1

Suits(w, s, l) ==
  /\ Outside(s) /\ s.at = "below"
  /\ s.mark = l.num \/ (w = "number" /\ s.mark = 0)

Stands(w, s, l) ==
  IF s.at = "lost" \/ (l.kind = "trans" /\ ~Suits(w, s, l)) THEN "lost"
  ELSE IF Opens(w, s, l) THEN "head"
  ELSE IF Outside(s) /\ s.at = "head" /\ l = Blank THEN "below" ELSE "away"

Marks(w, s, l) ==
  IF ~Opens(w, s, l) THEN s.mark ELSE IF w = "order" THEN s.mark + 1 ELSE l.num

PlaceReader(w) ==
  [p \in Watches \X NoteLine |->
     [open |-> Opened(p[1].open, p[2], Strict),
      at |-> Stands(w, p[1], p[2]), mark |-> Marks(w, p[1], p[2])]]

Stray(s) == s.at = "lost"

\* What normalise_markdown puts between what is written and the next line.
Gaps == Seq({Blank, Rule})

\* Two readers of the same open fence and heading: the second is not lost unless the
\* first is.
Beside(s, t) == t.open = s.open /\ (~Stray(s) => ~Stray(t) /\ t.mark = s.mark)

\* What the lines of a text are for normalise_markdown, the reader's state being s:
\* below a heading, nothing has been written since that heading.
Beneath(w, a, s) ==
  LET t == Fed(PlaceReader(w), Unplaced, a.out)
  IN  /\ a.open = s.open /\ Beside(s, t)
      /\ ~Stray(s) /\ s.at # "away" => Outside(s) /\ a.headed /\ t.at = "head"

\* The reader is not lost in the text: by place, and by number.
Ordered(ls) == ~Stray(Fed(PlaceReader("order"), Unplaced, ls))
Laid(ls) == ~Stray(Fed(PlaceReader("number"), Unplaced, ls))

Unwoven(ls) == \A i \in DOMAIN ls : ls[i].kind # "trans"

\* Side by side, and standing where the first stands unless that is away.
Follows(s, t) == Beside(s, t) /\ (~Stray(s) /\ s.at # "away" => t.at = s.at)

\* One reader goes by place and the other by number.
Renumbered(s, t) ==
  /\ t.open = s.open
  /\ ~Stray(s) => ~Stray(t) /\ (s.at # "away" => t.at = s.at /\ t.mark \in {0, s.mark})

------------------------------------------------------------------------------
(* That the transitions stay in their place.                                *)

\* The text a transition may be put in.
Fresh(ls) == Unwoven(ls) /\ PlainFences(ls)

\* No chunk has a transition of its own.
UnwovenChunks == \A c \in Chunk : Unwoven(c)

\* The transitions are put in a text that has none; until the formatter they go by
\* the order of the sections, and after it by their numbers.
PlaceInv ==
  PlainFences(placed) /\ ~Clashes /\ ~bared =>
    /\ stage = "transitions" => Fresh(note.body)
    /\ stage = "transitions" /\ phase = "hold" => Fresh(held.body)
    /\ stage = "transitions" /\ phase = "write" => Ordered(made.body)
    /\ stage \in {"tags", "formatting"} => Ordered(note.body)
    /\ stage = "formatting" /\ phase = "hold" => Ordered(held.body)
    /\ stage = "formatting" /\ phase = "write" => Laid(made.body)
    /\ stage \in {"linking", "done"} => Laid(note.body)
    /\ stage = "linking" /\ phase = "hold" => Laid(held.body)
    /\ stage = "linking" /\ phase = "write" => Laid(made.body)

\* What the text b must be for that to go on.
FairPlace(b) ==
  PlainFences(placed) /\ ~Clashes /\ ~bared =>
    IF stage = "transitions" THEN Ordered(b) ELSE Laid(b)

==============================================================================
