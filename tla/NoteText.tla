------------------------------ MODULE NoteText ------------------------------
(***************************************************************************)
(* What the pipeline's text passes do to a note, without state:            *)
(* pipeline/structure.py, normalise.py, transitions.py, linking.py, and    *)
(* the frontmatter, unwrapping and wikilink helpers of stages.py.          *)
(*                                                                         *)
(* A note is a frontmatter block and a sequence of lines.  A line is what  *)
(* the passes can tell about it: a heading has a level, the number its     *)
(* text begins with (0: none) and the rest of the text; a fence has its    *)
(* character; a paragraph line is a word the passes compare, or a link.    *)
(* Every line of text counts as long as every other.  A file ends in a     *)
(* newline, which is not a line here.                                      *)
(***************************************************************************)
EXTENDS Integers, SequencesExt

CONSTANTS Text,         \* what a line may say
          Sanitised,    \* _link_safe: what it makes of the hostile heading texts
          LastWord,     \* a note's name to the last segment of it
          NameLike,     \* note names that could be somebody's: _is_name_like
          Unlinkable    \* note names _LINK_HOSTILE matches

RelatedNotes == "Related Notes"

ASSUME TextAssumption ==
  /\ {"", RelatedNotes} \subseteq Text
  /\ Sanitised \in [DOMAIN Sanitised -> Text]
  /\ LastWord \in [DOMAIN LastWord -> Text] /\ NameLike \subseteq DOMAIN LastWord

Kind == {"head", "para", "link", "blank", "rule", "fence", "info", "callout", "entry", "item",
         "trans"}

NoteLine == [kind : Kind, level : Nat, num : Nat, text : Text]

Line(kind, level, num, text) == [kind |-> kind, level |-> level, num |-> num, text |-> text]

Heading(level, num, text) == Line("head", level, num, text)
Para(text) == Line("para", 0, 0, text)
Link(name) == Line("link", 0, 0, name)          \* [[name]] or [[name|alias]]
Blank == Line("blank", 0, 0, "")
Rule == Line("rule", 0, 0, "")
Fence(char) == Line("fence", 0, 0, char)        \* ```, ```python, ~~~
InfoFence(char) == Line("info", 0, 0, char)     \* ```c++, ```js title="x"
Callout == Line("callout", 0, 0, "")            \* > [!abstract]- Table of Contents
Entry(h) == Line("entry", 0, h.num, h.text)     \* > - [[#heading]]
Item(name) == Line("item", 0, 0, name)          \* - [[name]]
Trans(n) == Line("trans", 0, n, "")             \* the transition of section n

\* structure._is_fence and normalise._is_fence know a fence by a plain info
\* string only; transitions and linking by its first three characters.
Strict == {"fence"}
Loose == {"fence", "info"}

\* The lines of the set S, in their order.
Lines(ls, S) == FlattenSeq([i \in DOMAIN ls |-> IF i \in S THEN <<ls[i]>> ELSE <<>>])

\* The fence that is open after line l.  It is closed by one of its character.
Opened(open, l, fences) ==
  IF l.kind \notin fences THEN open
  ELSE IF open = "" THEN l.text ELSE IF open = l.text THEN "" ELSE open

\* The lines outside fenced blocks, read from the first to the last.
Prose(ls, fences) ==
  LET Track(a, i) ==
        [open |-> Opened(a.open, ls[i], fences),
         prose |-> IF ls[i].kind \notin fences /\ a.open = "" THEN a.prose \cup {i} ELSE a.prose]
      upto[i \in 0 .. Len(ls)] ==
        IF i = 0 THEN [open |-> "", prose |-> {}] ELSE Track(upto[i - 1], i)
  IN  upto[Len(ls)].prose

Heads(ls, fences) == {i \in Prose(ls, fences) : ls[i].kind = "head"}

TrimEnd(ls) ==
  LET solid == {i \in DOMAIN ls : ls[i] # Blank}
  IN  IF solid = {} THEN <<>> ELSE SubSeq(ls, 1, Max(solid))

Trim(ls) ==
  LET solid == {i \in DOMAIN ls : ls[i] # Blank}
  IN  IF solid = {} THEN <<>> ELSE SubSeq(ls, Min(solid), Max(solid))

-----------------------------------------------------------------------------
(* normalise.py                                                            *)

\* normalise_markdown over the body: rules wait (ruled) until what follows them
\* is known, and are dropped next to a heading.  A blank line waits as well
\* (pending).  The blank that is written before a kept rule is the one that
\* came after it: the one before was forgotten when the rule was met.
Unread == [out |-> <<>>, open |-> "", pending |-> FALSE, ruled |-> FALSE,
           headed |-> FALSE, ruledAtHead |-> FALSE]

Opt(cond, l) == IF cond THEN <<l>> ELSE <<>>

\* What is written up to a fence, a heading or any other line.
UptoFence(a, l) == a.out \o Opt(a.pending, Blank) \o Opt(a.ruled, Rule) \o <<l>>

UptoHead(a, l) ==
  LET mid == a.out \o Opt(a.ruled /\ ~a.ruledAtHead /\ a.pending, Blank)
  IN  mid \o Opt(mid # <<>> /\ mid[Len(mid)] # Blank, Blank) \o <<l>>

UptoText(a, l) == IF a.headed THEN a.out \o <<Blank, l>> ELSE UptoFence(a, l)

Take(a, l) ==
  CASE a.open # "" ->
         [a EXCEPT !.out = Append(@, l), !.open = Opened(@, l, Strict)]
    [] a.open = "" /\ l.kind \in Strict ->
         [a EXCEPT !.out = UptoFence(a, l), !.open = l.text,
                   !.pending = FALSE, !.ruled = FALSE, !.headed = FALSE]
    [] a.open = "" /\ l = Blank -> [a EXCEPT !.pending = TRUE]
    [] a.open = "" /\ l = Rule ->
         [a EXCEPT !.ruledAtHead = IF a.ruled THEN @ ELSE a.headed,
                   !.ruled = TRUE, !.pending = FALSE]
    [] a.open = "" /\ l.kind = "head" ->
         [a EXCEPT !.out = UptoHead(a, l), !.headed = TRUE, !.pending = FALSE, !.ruled = FALSE]
    [] OTHER ->
         [a EXCEPT !.out = UptoText(a, l), !.headed = FALSE, !.pending = FALSE, !.ruled = FALSE]

\* A rule at the end of the note is kept, unless it follows a heading.
Written(a) ==
  IF a.ruled /\ ~a.headed THEN a.out \o Opt(a.pending, Blank) \o <<Rule>> ELSE a.out

Normalise(ls) ==
  LET upto[i \in 0 .. Len(ls)] == IF i = 0 THEN Unread ELSE Take(upto[i - 1], ls[i])
  IN  Written(upto[Len(ls)])

-----------------------------------------------------------------------------
(* structure.py                                                            *)

LinkSafe(text) == IF text \in DOMAIN Sanitised THEN Sanitised[text] ELSE text

\* The headings apply_structure goes by; H are the headings outside fences.
TitleOf(ls, H) ==
  LET titles == {i \in H : ls[i].level = 1} IN IF titles = {} THEN 0 ELSE Min(titles)

SectionsOf(ls, H) == {i \in H : ls[i].level = 2}

\* The section line i is in: current_section_text; 0 before the first.
Within(ls, H, i) ==
  LET before == {j \in SectionsOf(ls, H) : j < i}
  IN  IF before = {} \/ TitleOf(ls, H) \in Max(before) .. (i - 1) THEN 0 ELSE Max(before)

\* Mutant of Restates: without the fences in mind.
Restates_InFences(ls, prose, H, i) ==
  LET j == Within(ls, H, i)
  IN  /\ j # 0 /\ ls[i] = Para(LinkSafe(ls[j].text))
      /\ \A m \in (j + 1) .. (i - 1) :
           m \in prose => ls[m].kind \in {"head", "blank"}

\* The section's first line of text repeats its heading.
Restates(ls, prose, H, i) ==
  LET j == Within(ls, H, i)
  IN  /\ i \in prose /\ j # 0 /\ ls[i] = Para(LinkSafe(ls[j].text))
      /\ \A m \in (j + 1) .. (i - 1) :
           m \in prose => ls[m].kind \in {"head", "blank"}

\* Sections are numbered and promoted, what is under them goes down one level.
Restructured(ls, H, i) ==
  LET h == ls[i]
  IN  IF i \notin H \/ i = TitleOf(ls, H) THEN h
      ELSE
        CASE i \in SectionsOf(ls, H) ->
             Heading(3, Cardinality({j \in SectionsOf(ls, H) : j <= i}), LinkSafe(h.text))
        [] Within(ls, H, i) # 0 /\ h.level >= 3 -> [h EXCEPT !.level = Min({@ + 1, 6})]
        [] Within(ls, H, i) # 0 /\ h.level = 1 -> [h EXCEPT !.level = 2]
        [] OTHER -> h

IsSection(h) == h.kind = "head" /\ (h.level = 2 \/ (h.level = 3 /\ h.num # 0))

TocHeads(ls) == LET H == Heads(ls, Strict) IN Lines(ls, {i \in H : IsSection(ls[i])})

\* _find_toc_range: a callout, the quoted and blank lines after it, if one of
\* them is an entry.  Fences are not looked at.
TocRange(ls) ==
  LET Goes(l) == l.kind \in {"callout", "entry", "blank"}
      End(i) == Max({e \in i .. Len(ls) : \A m \in i .. e : Goes(ls[m])})
      old == {i \in DOMAIN ls : ls[i] = Callout /\ \E m \in i .. End(i) : ls[m].kind = "entry"}
  IN  IF old = {} THEN {} ELSE Min(old) .. End(Min(old))

\* The place below the title is counted in the lines before the old callout is
\* taken out, and the title is looked for in fences too.
GenerateToc(ls) ==
  LET rest == Lines(ls, DOMAIN ls \ TocRange(ls))
      titles == {i \in DOMAIN ls : ls[i].kind = "head" /\ ls[i].level = 1}
      text == {i \in DOMAIN rest : i > Min(titles) /\ rest[i] # Blank}
      at == IF titles = {} THEN 0 ELSE IF text = {} THEN Len(rest) ELSE Min(text) - 1
      heads == TocHeads(ls)
  IN  IF Len(heads) < 2 THEN ls
      ELSE SubSeq(rest, 1, at) \o <<Callout>> \o [n \in DOMAIN heads |-> Entry(heads[n])]
             \o <<Blank>> \o SubSeq(rest, at + 1, Len(rest))

ApplyStructure(ls) ==
  LET prose == Prose(ls, Strict)
      H == {i \in prose : ls[i].kind = "head"}
      new == [i \in DOMAIN ls |-> Restructured(ls, H, i)]
  IN  IF H = {} THEN ls
      ELSE GenerateToc(Lines(new, {i \in DOMAIN ls : ~Restates(ls, prose, H, i)}))

-----------------------------------------------------------------------------
(* transitions.py                                                          *)

\* Mutant of SectionLines: headings quoted in a fence open sections too.
SectionLines_InFences(ls) == {i \in DOMAIN ls : ls[i].kind = "head" /\ ls[i].level = 2}

\* _section_heading_lines
SectionLines(ls) == {i \in Heads(ls, Loose) : ls[i].level = 2}

\* extract_skeleton: the headings the weaver sees, in their order.
Skeleton(ls) == Lines(ls, SectionLines(ls))

\* validate_transition: a transition is about what its words share with: the
\* heading it precedes, the heading before, or the topic (which is also what
\* precedes the first heading).
Valid(skeleton, index, about, topic) ==
  /\ index \in DOMAIN skeleton
  /\ about \in {skeleton[index].text, topic}
                \cup {skeleton[n].text : n \in {index - 1} \cap DOMAIN skeleton}

\* splice_transitions: chosen is the set of the sections that get theirs; the
\* blank line after the heading is used up.
Splice(ls, chosen) ==
  LET starts == SectionLines(ls)
      Nth(i) == Cardinality({j \in starts : j <= i})
      Gets(i) == i \in starts /\ Nth(i) \in chosen
      Spliced(i) == CASE Gets(i) -> <<ls[i], Blank, Trans(Nth(i)), Blank>>
                      [] ls[i] = Blank /\ i > 1 /\ Gets(i - 1) -> <<>>
                      [] OTHER -> <<ls[i]>>
  IN  FlattenSeq([i \in DOMAIN ls |-> Spliced(i)])

-----------------------------------------------------------------------------
(* linking.py                                                              *)

\* subject_index: a key two notes claim belongs to neither.
Keys(name) == {name} \cup {LastWord[n] : n \in {name} \cap NameLike}

Filed(key, names) ==
  LET claims == {n \in names : key \in Keys(n)}
  IN  IF Cardinality(claims) = 1 THEN CHOOSE n \in claims : TRUE ELSE ""

\* resolve_entity_notes: the entities that have a note, each note once.
Resolved(entities, names) ==
  LET Stem(n) == Filed(entities[n], names)
      new == {n \in DOMAIN entities : Stem(n) # "" /\ \A m \in 1 .. (n - 1) : Stem(m) # Stem(n)}
  IN  Lines([n \in DOMAIN entities |-> [entity |-> entities[n], name |-> Stem(n)]], new)

\* Mutant of Linkable: prose is every line that is not code.
Linkable_Headings(ls) == Prose(ls, Loose)

\* _linkable_regions
Linkable(ls) ==
  {i \in Prose(ls, Loose) : ls[i].kind \notin {"head", "callout", "entry"}}

\* The surface forms, longest first; a line matches when it says one of them
\* outside a link.
Surfaces(target) ==
  <<target.name,
    IF target.entity \in DOMAIN LastWord THEN LastWord[target.entity] ELSE target.entity>>

AlreadyLinked(ls, name) == \E i \in DOMAIN ls : ls[i] \in {Link(name), Item(name)}

FirstMention(ls, target) ==
  LET open == Linkable(ls)
      Hits(s) == {i \in open : ls[i].kind \in {"para", "head"} /\ ls[i].text = s}
      said == {n \in 1 .. 2 : Hits(Surfaces(target)[n]) # {}}
  IN  IF said = {} THEN 0 ELSE Min(Hits(Surfaces(target)[Min(said)]))

\* Mutant of LinkFirst: without _already_linked.
LinkFirst_Again(ls, target) ==
  LET at == FirstMention(ls, target)
  IN  IF target.name \in Unlinkable \/ at = 0
      THEN ls ELSE [ls EXCEPT ![at] = Link(target.name)]

\* link_first_mentions, for one target.
LinkFirst(ls, target) ==
  LET at == FirstMention(ls, target)
  IN  IF target.name \in Unlinkable \/ AlreadyLinked(ls, target.name) \/ at = 0
      THEN ls ELSE [ls EXCEPT ![at] = Link(target.name)]

LinkMentions(ls, targets) ==
  LET upto[n \in 0 .. Len(targets)] ==
        IF n = 0 THEN ls ELSE LinkFirst(upto[n - 1], targets[n])
  IN  upto[Len(targets)]

\* strip_related_section: the first heading of that name, of any level and
\* number and in a fence too, up to the next heading of level 1 or 2.
StripRelated(ls) ==
  LET named == {i \in DOMAIN ls : ls[i].kind = "head" /\ ls[i].text = RelatedNotes}
      next == {i \in DOMAIN ls : i > Min(named) /\ ls[i].kind = "head" /\ ls[i].level <= 2}
      end == IF next = {} THEN Len(ls) + 1 ELSE Min(next)
  IN  IF named = {} THEN ls
      ELSE TrimEnd(SubSeq(ls, 1, Min(named) - 1) \o SubSeq(ls, end, Len(ls)))

\* render_related_section and append_section; related is a sequence of names.
Rendered(related) == Lines(related, {n \in DOMAIN related : related[n] \notin Unlinkable})

AppendRelated(ls, related) ==
  LET names == Rendered(related)
  IN  IF names = <<>> THEN ls
      ELSE TrimEnd(ls) \o <<Blank, Heading(2, 0, RelatedNotes), Blank>>
             \o [n \in DOMAIN names |-> Item(names[n])]

-----------------------------------------------------------------------------
(* stages.py                                                               *)

\* AssemblyStage._assemble: the title, then a heading above every chunk.
Assembled(topic, headings, chunks) ==
  <<Blank, Heading(1, 0, topic), Blank>>
    \o FlattenSeq([n \in DOMAIN headings |->
         <<Heading(2, 0, headings[n]), Blank>> \o Trim(chunks[n]) \o <<Blank>>])

\* _resolve_wikilinks, anywhere in the text: a link to no note becomes its text.
Unwrapped(ls, names) ==
  [i \in DOMAIN ls |->
     IF ls[i].kind = "link" /\ ls[i].text \notin names THEN Para(ls[i].text) ELSE ls[i]]

\* _unwrap_model_output on a note that lost its frontmatter block, which shields
\* the rest: of a note that ends in a fence and does not begin with a heading,
\* only what is fenced is taken, as if a model had wrapped the note; what is
\* above the first heading or rule is dropped as its preamble.
Unfenced(ls) ==
  LET last == Len(ls)
      opens == {i \in 1 .. (last - 2) : ls[i] = ls[last] /\ SubSeq(ls, i + 1, last - 1) # <<Blank>>}
      anchor == {i \in DOMAIN ls : ls[i] = Rule \/ ls[i].kind = "head"}
  IN  CASE opens # {} /\ ls[last].kind \in Strict /\ 1 \notin anchor ->
             SubSeq(ls, Min(opens) + 1, last - 1)
        [] OTHER -> IF anchor = {} THEN ls ELSE SubSeq(ls, Min(anchor), last)

Size(ls) == Cardinality({i \in DOMAIN ls : ls[i] # Blank})

\* The guard of _write_back.
Truncates(new, disk) == 4 * Size(new) < 3 * Size(disk)
=============================================================================
