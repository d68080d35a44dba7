------------------------------ MODULE Tagging ------------------------------
(***************************************************************************)
(* How a note gets its tags, and the vault's vocabulary grows: TaggingStage *)
(* and _resolve_tags_against_registry (pipeline/stages.py), the reply and   *)
(* the array (pipeline/tagging.py), ThemeRegistry (vault/registry.py) and   *)
(* the entities command (cli/app.py), for several runs, perhaps of several  *)
(* processes, over one .agents/taxonomy.json that its user edits as well.   *)
(*                                                                         *)
(* A tag is a word with its spelling, "many" when it ends in an s that     *)
(* _normalize takes for a plural, and a given name before it, if any.       *)
(* The domain, the category and the marker pass through and are left out,  *)
(* and so are malformed tags, which the registry drops from the line.       *)
(***************************************************************************)
EXTENDS Integers, SequencesExt

CONSTANTS Run,          \* the note runs
          KnownTheme, NewTheme, TypeWord,  \* the words of themes and types
          Surname, Given,                  \* the names
          TopicNames,   \* derive_entities(topic)
          OldNotes,     \* the tags after the type in the notes the vault has
          HasValidator, \* the vault has a validate_tags tool
          Attempts,     \* of the tagging ladder: 3 in the code
          MaxProposed,  \* bound: tags in one slot of a reply
          MaxEdits,     \* bound: edits of the user
          None          \* no file, no registry, no type, no given name

Spelling == {"one", "many"}
ThemeTag == (KnownTheme \cup NewTheme) \X Spelling \X {None}
TypeTag == TypeWord \X {"one"} \X {None}
NameTag == Surname \X Spelling \X (Given \cup {None})
Tag == ThemeTag \cup TypeTag \cup NameTag

Backfill == "backfill"  \* avicenna entities --write
Actor == Run \cup {Backfill}

\* How the text is laid out: with a themes array and every member on lines of its own,
\* or in another way, most likely on one line.
Layout == {"lines", "line"}

\* taxonomy.json, and a registry's raw copy of it; by is history: who wrote it.
Taxonomy == [themes : Seq(Tag), types : Seq(Tag), entities : SUBSET Tag, laid : Layout,
             by : Actor \cup {None}]
Mints == [themes : Seq(Tag), entities : SUBSET Tag]

\* Words are lines of a file or of a reply, and finitely many; None is none of the
\* values it stands beside, nor is the command a run.
ASSUME TaggingAssumption ==
  /\ IsFiniteSet(Tag) /\ TopicNames \subseteq NameTag /\ OldNotes \subseteq Tag
  /\ HasValidator \in BOOLEAN
  /\ Attempts \in Nat \ {0} /\ MaxProposed \in Nat /\ MaxEdits \in Nat
  /\ None \notin Tag \cup Actor /\ None \notin Taxonomy
  /\ Backfill \notin Run

VARIABLES file,     \* taxonomy.json; None while the user's editor writes it
          part,     \* taxonomy.json.part, one name for all processes
          draft,    \* what the user's editor is writing
          edits,    \* edits so far
          notes,    \* the tags after the type in the notes of the vault
          pc,       \* where each run is
          cached,   \* the taxonomy the run's Vault was loaded with
          reg,      \* ctx.theme_registry.raw
          minted,   \* _minted_themes, _minted_entities
          base,     \* what _surgical_persist has read
          saved,    \* what persist returned
          attempt,  \* attempts of the ladder begun
          line,     \* resolved_line
          names     \* effective_entities

disk == <<file, part, draft, edits, notes>>
stage == <<pc, cached, reg, minted, base, saved, attempt, line, names>>
vars == <<disk, stage>>

TypeOK ==
  /\ file \in Taxonomy \cup {None} /\ part \in Taxonomy \cup {None}
  /\ draft \in Taxonomy \cup {None} /\ edits \in 0 .. MaxEdits
  /\ notes \subseteq Tag
  /\ pc \in [Actor -> {"out", "bound", "ask", "read", "write", "replace", "check",
                       "floor", "done"}]
  /\ cached \in [Run -> Taxonomy \cup {None}]
  /\ reg \in [Actor -> Taxonomy \cup {None}]
  /\ minted \in [Actor -> Mints]
  /\ base \in [Actor -> Taxonomy \cup {None}]
  /\ saved \in [Actor -> BOOLEAN]
  /\ attempt \in [Run -> 0 .. Attempts]
  /\ line \in [Run -> Seq(Tag)]
  /\ names \in [Run -> SUBSET Tag]

NoMints == [themes |-> <<>>, entities |-> {}]

Init ==
  /\ \E layout \in Layout :
       file = [themes |-> SetToSeq(KnownTheme \X {"many"} \X {None}),
               types |-> SetToSeq(TypeTag), entities |-> {}, laid |-> layout, by |-> None]
  /\ part = None /\ draft = None /\ edits = 0 /\ notes = OldNotes
  /\ pc = [a \in Actor |-> "out"]
  /\ cached = [r \in Run |-> None]
  /\ reg = [a \in Actor |-> None]
  /\ minted = [a \in Actor |-> NoMints]
  /\ base = [a \in Actor |-> None]
  /\ saved = [a \in Actor |-> TRUE]
  /\ attempt = [r \in Run |-> 0]
  /\ line = [r \in Run |-> <<>>]
  /\ names = [r \in Run |-> {}]

Goto(a, place) == pc' = [pc EXCEPT ![a] = place]

\* load: the copy does not know the layout; it has the one json.dumps would give it.
Loaded(text) == IF text = None THEN None ELSE [text EXCEPT !.laid = "lines", !.by = None]
-----------------------------------------------------------------------------
(* vault/registry.py: keys, look-ups and mints.                            *)

\* _normalize, of a word already in lower case
Key(t) == <<t[1], "one", t[3]>>
Keys(seq) == {Key(t) : t \in ToSet(seq)}

\* The canonical maps: the first form that has the key.
Form(seq, k) == seq[SelectInSeq(seq, LAMBDA t : Key(t) = k)]

\* _reconcile_surname: the forms under which the figure may be on record; exactly
\* one of the two names is a bare surname.
Namesakes(entities, k) == {f \in entities : f[1] = k[1] /\ (f[3] = None) # (k[3] = None)}

\* What the resolve loop has done so far: the registry, its mints and the line.
\* resolve_entity.
ResolveEntity(s, t) ==
  LET k == Key(t)
      same == {f \in s.reg.entities : Key(f) = k}
      known == IF same # {} THEN same ELSE Namesakes(s.reg.entities, k) IN
  IF same # {} \/ Cardinality(known) = 1
    THEN [s EXCEPT !.line = Append(@, CHOOSE f \in known : TRUE)]
    ELSE [s EXCEPT !.line = Append(@, k), !.reg.entities = @ \cup {k},
                   !.minted.entities = @ \cup {k}]

\* _lookup: the form on record, or the key that the drift oracle folds the tag
\* onto, which the guard hands back as it is.
Lookup(seq, k, merge) ==
  IF k \in Keys(seq) THEN Form(seq, k) ELSE IF merge \in Keys(seq) THEN merge ELSE None

LookupTheme(s, k, merge) == Lookup(s.reg.themes, k, merge)
LookupType(s, k, merge) == Lookup(s.reg.types, k, merge)

\* _mint, by way of mint_theme
MintTheme(s, k) == [s EXCEPT !.line = Append(@, k), !.reg.themes = Append(@, k),
                             !.minted.themes = Append(@, k)]

\* The themes are asked first, then the types, and what is in neither is a theme.
ResolveTheme(s, t, merge) ==
  LET k == Key(t)
      theme == LookupTheme(s, k, merge)
      type == LookupType(s, k, merge)
      known == IF theme # None THEN theme ELSE type IN
  IF known = None THEN MintTheme(s, k) ELSE [s EXCEPT !.line = Append(@, known)]

\* What the oracle is asked about: tags that would be minted.
KnownKeys(a) == Keys(reg[a].themes) \cup Keys(reg[a].types)
GuardCandidate(a, t) == Key(t) \notin KnownKeys(a)
Candidates(a, array) == {t \in ToSet(array.tags) \ array.entities : GuardCandidate(a, t)}

\* check_batch: nothing is near enough, or the nearest key, of equals the first.
Verdicts(keys) == {None} \cup keys

\* No answer, whatever the reason, is no decision; here all candidates get one.
Merges(a, array) == IF Candidates(a, array) = {} THEN {None} ELSE Verdicts(KnownKeys(a))

\* One tag of the loop of _resolve_tags_against_registry: what the caller declares
\* as an entity never reaches the themes.
ResolveTag(s, t, entities, guarded, merge) ==
  IF t \in entities THEN ResolveEntity(s, t)
  ELSE ResolveTheme(s, t, IF t \in guarded THEN merge ELSE None)

\* The loop, begun in state s.
ResolveAll(s, tags, entities, guarded, merge) ==
  LET after[n \in 0 .. Len(tags)] ==
        IF n = 0 THEN s ELSE ResolveTag(after[n - 1], tags[n], entities, guarded, merge)
  IN  after[Len(tags)]

Resolve(a, array, merge) ==
  ResolveAll([reg |-> reg[a], minted |-> minted[a], line |-> <<>>], array.tags,
             array.entities, Candidates(a, array), merge)
-----------------------------------------------------------------------------
(* pipeline/tagging.py: the reply and the array.                           *)

\* The sets of at most n elements, and the first n of a sequence, if it has them.
UpTo(n, S) == {T \in SUBSET S : Cardinality(T) <= n}
FirstN(n, seq) == SubSeq(seq, 1, Min({n, Len(seq)}))

\* parse_tagger_reply, with labelled slots ...
Labelled == [type : TypeTag \cup {None}, themes : UpTo(MaxProposed, ThemeTag),
             names : UpTo(MaxProposed, NameTag)]

\* What the themes are checked against.
Vocabulary(r) == IF reg[r] = None THEN cached[r].themes ELSE reg[r].themes

\* ... and with a TAGS line, whose tags are put in order: the first type is the
\* type, known themes are themes and everything else is an entity.
Repair(tags, types, themes) ==
  {[type |-> t, themes |-> (tags \ {t}) \cap themes, names |-> (tags \ {t}) \ themes] :
     t \in IF tags \cap types = {} THEN {None} ELSE tags \cap types}

\* _repair_with_taxonomy: the types are the Vault's, the themes the registry's.
Repaired(r) ==
  UNION {Repair(tags, ToSet(cached[r].types), ToSet(Vocabulary(r))) :
         tags \in UpTo(MaxProposed, Tag) \ {{}}}

\* assemble_tag_array: a type and themes of the vocabulary, as they are spelt
\* there, or its first ones.
ArrayType(r, p) ==
  IF p.type \in ToSet(cached[r].types) THEN <<p.type>> ELSE FirstN(1, cached[r].types)

\* Mutant of ArrayThemes: a theme need not be in the vocabulary.
ArrayThemes_Open(r, p) == p.themes

ArrayThemes(r, p) ==
  LET known == p.themes \cap ToSet(Vocabulary(r)) IN
  IF known = {} THEN ToSet(FirstN(1, Vocabulary(r))) ELSE known

Entities(p) == IF p.names = {} THEN TopicNames ELSE p.names

\* The arrays a reply can be made into, each with its entities.
Arrays(r) ==
  {[tags |-> ArrayType(r, p) \o SetToSeq(ArrayThemes(r, p)) \o SetToSeq(Entities(p)),
    entities |-> Entities(p)] : p \in Labelled \cup Repaired(r)}
-----------------------------------------------------------------------------
(* persist, for a run and for the entities command.                        *)

\* _surgical_persist reads the file again and appends every mint to it, those of
\* earlier calls too: nothing clears them.  Mutant: the last one only.
Appended_LastOnly(a, text) ==
  [themes |-> text.themes \o (IF minted[a].themes = <<>> THEN <<>>
                              ELSE <<Last(minted[a].themes)>>),
   types |-> text.types, entities |-> text.entities \cup minted[a].entities,
   laid |-> text.laid, by |-> a]

Appended(a, text) ==
  [themes |-> text.themes \o minted[a].themes, types |-> text.types,
   entities |-> text.entities \cup minted[a].entities,
   laid |-> text.laid, by |-> a]

Read(a) ==
  /\ pc[a] = "read"
  /\ base' = [base EXCEPT ![a] = file]
  /\ Goto(a, "write")
  /\ UNCHANGED <<disk, cached, reg, minted, saved, attempt, line, names>>

\* _fallback_persist: the registry's own copy, whatever the file has by now.
Overwritten(a) == [reg[a] EXCEPT !.by = a]

\* Mutant of Written: always the copy the registry was loaded with.
Written_Raw(a) == {Overwritten(a)}

\* What persist may write: the edited text, or the registry's copy when the text does
\* not parse and when the edit gives it up, as it may a text on one line.
Written(a) ==
  IF base[a] = None THEN {Overwritten(a)}
  ELSE {Appended(a, base[a])} \cup {text \in {Overwritten(a)} : base[a].laid = "line"}

Write(a) ==
  /\ pc[a] = "write"
  /\ part' \in Written(a)
  /\ Goto(a, "replace")
  /\ UNCHANGED <<file, draft, edits, notes, cached, reg, minted, base, saved, attempt,
                 line, names>>

\* What persist returns to: the validator, or the end of the entities command.
Return(a, ok) ==
  /\ saved' = [saved EXCEPT ![a] = ok]
  /\ base' = [base EXCEPT ![a] = None]
  /\ IF a = Backfill
       THEN /\ Goto(a, "out")
            /\ reg' = [reg EXCEPT ![a] = None]
            /\ minted' = [minted EXCEPT ![a] = NoMints]
       ELSE Goto(a, "check") /\ UNCHANGED <<reg, minted>>
  /\ UNCHANGED <<draft, edits, notes, cached, attempt, line, names>>

\* os.replace: of whatever is in the part file by then.
Replace(a) ==
  /\ pc[a] = "replace"
  /\ part # None
  /\ file' = part
  /\ part' = None
  /\ Return(a, TRUE)

\* An OSError: the part file is removed, whoever wrote it.
PersistFails(a) ==
  /\ pc[a] \in {"write", "replace"}
  /\ part' = None
  /\ Return(a, FALSE)
  /\ UNCHANGED file
-----------------------------------------------------------------------------
(* TaggingStage.                                                           *)

\* The run is built on a Vault, which loads taxonomy.json once.
LoadVault(r) ==
  /\ pc[r] = "out"
  /\ file # None
  /\ cached' = [cached EXCEPT ![r] = Loaded(file)]
  /\ Goto(r, "bound")
  /\ UNCHANGED <<disk, reg, minted, base, saved, attempt, line, names>>

\* The end of the stage, and what it leaves in the note.
Finish(r, tail) ==
  /\ Goto(r, "done")
  /\ notes' = notes \cup tail
  /\ cached' = [cached EXCEPT ![r] = None]
  /\ reg' = [reg EXCEPT ![r] = None]
  /\ minted' = [minted EXCEPT ![r] = NoMints]
  /\ base' = [base EXCEPT ![r] = None]
  /\ saved' = [saved EXCEPT ![r] = TRUE]
  /\ attempt' = [attempt EXCEPT ![r] = 0]
  /\ line' = [line EXCEPT ![r] = <<>>]
  /\ names' = [names EXCEPT ![r] = {}]
  /\ UNCHANGED <<file, part, draft, edits>>

\* The registry is loaded when the stage begins; it may fail, not the stage.
Begin(r) ==
  /\ pc[r] = "bound"
  /\ reg' = [reg EXCEPT ![r] = Loaded(file)]
  /\ attempt' = [attempt EXCEPT ![r] = 1]
  /\ Goto(r, "ask")
  /\ UNCHANGED <<disk, cached, minted, base, saved, line, names>>

LastAttempt(r) == attempt[r] = Attempts

\* Mutant of NextAttempt: a loop that never ends.
NextAttempt_NoCount(r) == Goto(r, "ask") /\ UNCHANGED attempt

NextAttempt(r) ==
  IF LastAttempt(r)
    THEN Goto(r, "floor") /\ UNCHANGED attempt
    ELSE Goto(r, "ask") /\ attempt' = [attempt EXCEPT ![r] = @ + 1]

\* The tagger cannot be asked.
TaggerFails(r) ==
  /\ pc[r] = "ask"
  /\ Goto(r, "floor")
  /\ UNCHANGED <<disk, cached, reg, minted, base, saved, attempt, line, names>>

Unparseable(r) ==
  /\ pc[r] = "ask"
  /\ NextAttempt(r)
  /\ UNCHANGED <<disk, cached, reg, minted, base, saved, line, names>>

\* A reply is put in order, assembled and resolved; new themes are persisted
\* before the line is validated, and new entities with them but not alone.
Reply(r) ==
  /\ pc[r] = "ask"
  /\ \E array \in Arrays(r) :
       /\ names' = [names EXCEPT ![r] = array.entities]
       /\ IF reg[r] = None
            THEN /\ line' = [line EXCEPT ![r] = array.tags]
                 /\ Goto(r, "check")
                 /\ UNCHANGED <<reg, minted>>
            ELSE \E merge \in Merges(r, array) :
                   LET s == Resolve(r, array, merge) IN
                   /\ line' = [line EXCEPT ![r] = s.line]
                   /\ reg' = [reg EXCEPT ![r] = s.reg]
                   /\ minted' = [minted EXCEPT ![r] = s.minted]
                   /\ Goto(r, IF s.minted.themes = minted[r].themes THEN "check" ELSE "read")
  /\ UNCHANGED <<disk, cached, base, saved, attempt>>

\* A line that passes, or that nothing can check, is the note's; TagsWrittenStage
\* comes next and is taken with it.
Accept(r) ==
  /\ pc[r] = "check"
  /\ Finish(r, ToSet(SubSeq(line[r], 2, Len(line[r]))))

Refuse(r) ==
  /\ pc[r] = "check"
  /\ HasValidator
  /\ NextAttempt(r)
  /\ line' = [line EXCEPT ![r] = <<>>]
  /\ names' = [names EXCEPT ![r] = {}]
  /\ UNCHANGED <<disk, cached, reg, minted, base, saved>>

\* _build_floor_tags, after the type
FloorTags(r) == ToSet(FirstN(1, cached[r].themes)) \cup TopicNames

\* The floor, from the taxonomy of the Vault; it may be refused or impossible.
Floor(r) ==
  /\ pc[r] = "floor"
  /\ \/ cached[r].types # <<>> /\ Finish(r, FloorTags(r))
     \/ Finish(r, {})

\* The run has no tagger, the validator raises, or the run is cancelled or killed:
\* what it has written stays.
Stop(r) ==
  /\ pc[r] \in {"bound", "ask", "read", "write", "replace", "check", "floor"}
  /\ Finish(r, {})
-----------------------------------------------------------------------------
(* The entities command, and the user's editor.                            *)

\* scan_vault_entities: by the validator's rule, every tag that is no theme.
VaultEntities == notes \ ToSet(file.themes)

\* entities_cmd resolves what is not yet recorded, in the order of the names.  It
\* reads the file once more in between, which is not a step here.
Scan ==
  /\ pc[Backfill] = "out"
  /\ file # None
  /\ LET new == VaultEntities \ file.entities
         s == ResolveAll([reg |-> Loaded(file), minted |-> NoMints, line |-> <<>>],
                         SetToSeq(new), new, {}, None) IN
       /\ s.minted # NoMints
       /\ reg' = [reg EXCEPT ![Backfill] = s.reg]
       /\ minted' = [minted EXCEPT ![Backfill] = s.minted]
  /\ Goto(Backfill, "read")
  /\ UNCHANGED <<disk, cached, base, saved, attempt, line, names>>

StopScan ==
  /\ pc[Backfill] \in {"read", "write", "replace"}
  /\ Goto(Backfill, "out")
  /\ reg' = [reg EXCEPT ![Backfill] = None]
  /\ minted' = [minted EXCEPT ![Backfill] = NoMints]
  /\ base' = [base EXCEPT ![Backfill] = None]
  /\ UNCHANGED <<disk, cached, saved, attempt, line, names>>

\* The user drops types that stand together, or adds a theme, and lays the file out
\* as he likes; an editor writes it in place.
Edit ==
  /\ edits < MaxEdits
  /\ file # None
  /\ \E layout \in Layout :
       \/ \E m, n \in DOMAIN file.types :
            /\ m <= n
            /\ draft' = [file EXCEPT !.types = SubSeq(@, 1, m - 1) \o SubSeq(@, n + 1, Len(@)),
                                     !.laid = layout, !.by = None]
       \/ \E t \in (NewTheme \X {"one"} \X {None}) \ ToSet(file.themes) :
            draft' = [file EXCEPT !.themes = Append(@, t), !.laid = layout, !.by = None]
  /\ file' = None
  /\ edits' = edits + 1
  /\ UNCHANGED <<part, notes, stage>>

EditEnds ==
  /\ draft # None
  /\ file' = draft
  /\ draft' = None
  /\ UNCHANGED <<part, edits, notes, stage>>
-----------------------------------------------------------------------------
Step(r) == \/ LoadVault(r) \/ Begin(r) \/ TaggerFails(r) \/ Unparseable(r) \/ Reply(r)
           \/ Read(r) \/ Write(r) \/ Replace(r) \/ PersistFails(r)
           \/ Accept(r) \/ Refuse(r) \/ Floor(r)

Next == \/ \E r \in Run : Step(r) \/ Stop(r)
        \/ Scan \/ Read(Backfill) \/ Write(Backfill) \/ Replace(Backfill)
        \/ PersistFails(Backfill) \/ StopScan
        \/ Edit \/ EditEnds

\* A run that has begun is scheduled, and its calls return: the tagger's by the
\* retry bound of its provider, the validator's by the timeout of its tool.
Spec == Init /\ [][Next]_vars /\ \A r \in Run : WF_vars(pc[r] # "out" /\ Step(r))
-----------------------------------------------------------------------------
(* Properties.                                                             *)

\* The vocabulary is closed: whatever the tagger proposes, names included, a run
\* can only mint a type its Vault still holds and the file has lost, and it mints
\* that as a theme (assemble_tag_array, _resolve_tags_against_registry).  The type
\* invariant is part of it.
OnlyStaleTypesMinted ==
  TypeOK /\ \A r \in Run : \A t \in ToSet(minted[r].themes) :
    t \in Keys(cached[r].types) \ Keys(reg[r].types)

\* What is on its way into taxonomy.json holds everything its writer found there
\* just before, also what the user or another process added after the registry
\* was loaded, if that was a text with its members on lines of their own
\* (_surgical_persist).  Any other text may be written over with the registry's
\* copy (_fallback_persist), and what was added to it since is then lost.
PersistKeeps ==
  /\ part # None /\ part.by \in Actor /\ pc[part.by] = "replace"
  /\ base[part.by] # None /\ base[part.by].laid = "lines"
  => LET read == base[part.by] IN
     /\ IsPrefix(read.themes, part.themes)
     /\ part.types = read.types
     /\ read.entities \subseteq part.entities

\* When a run's line is validated and the last to write the file was this run,
\* successfully, all the themes it minted are there for the validator to see,
\* those of earlier attempts too, whoever overwrote the file in between (persist).
MintedBeforeValidated ==
  \A r \in Run :
    pc[r] = "check" /\ saved[r] /\ file # None /\ file.by = r =>
      ToSet(minted[r].themes) \subseteq ToSet(file.themes)

\* The stage ends, with tags or without, whatever the tagger answers, the validator
\* says and others do to the file (TaggingStage.run).
StageEnds == \A r \in Run : pc[r] = "ask" ~> pc[r] = "done"

=============================================================================
