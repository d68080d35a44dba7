---------------------------- MODULE TaxonomyText ----------------------------
(***************************************************************************)
(* How ThemeRegistry.persist writes what was minted into taxonomy.json     *)
(* without reformatting it (vault/registry.py, "Surgical JSON editing"):   *)
(* an edit of the text, for which module Tagging has the operator Appended.*)
(*                                                                         *)
(* A text is a sequence of tokens: the punctuation, "nl" for a newline,    *)
(* "sp" for a step of indentation or a space, and every string or number   *)
(* as one token, which is what the scanners' in_str loops make of it.  The *)
(* empty text stands for None: the edit is given up.                       *)
(***************************************************************************)
EXTENDS Integers, SequencesExt

White == {"nl", "sp"}
Space == <<"sp">>
NoText == <<>>

\* The text from a to b, and the texts of a sequence with a separator.
Fold(Op(_, _), start, seq) ==     \* FoldLeft; TLC evaluates this form once for all states
  LET upto[i \in 0 .. Len(seq)] == IF i = 0 THEN start ELSE Op(upto[i - 1], seq[i])
  IN  upto[Len(seq)]
From(text, a) == SubSeq(text, a, Len(text))
Joined(texts, separator) ==
  Fold(LAMBDA all, t : IF all = <<>> THEN t ELSE all \o separator \o t, <<>>, texts)
Inserted(text, at, new) == SubSeq(text, 1, at) \o new \o From(text, at + 1)

\* str.find and str.rfind with a start and an end, 0 for -1.
Find(text, tok, after) ==
  LET at == {i \in DOMAIN text : i > after /\ text[i] = tok} IN IF at = {} THEN 0 ELSE Min(at)
RFind(text, tok, before) ==
  LET at == {i \in DOMAIN text : i < before /\ text[i] = tok} IN IF at = {} THEN 0 ELSE Max(at)
LastSolid(text, before) == Max({i \in 1 .. before - 1 : text[i] \notin White})

\* How deep in brackets of the two kinds each place of the text is.
Depths(text, opening, closing) ==
  LET Step(tok) == CASE tok \in opening -> 1 [] tok \in closing -> -1 [] OTHER -> 0
      upto[i \in 0 .. Len(text)] ==
        IF i = 0 THEN <<>>
        ELSE LET before == upto[i - 1]
             IN  Append(before, Step(text[i]) + IF i = 1 THEN 0 ELSE before[i - 1])
  IN  upto[Len(text)]
-----------------------------------------------------------------------------
(* The scanners.                                                           *)

KeyColons(text, key, depths) ==
  LET depth == Depths(text, {"{", "["}, {"}", "]"})
      keys == {i \in DOMAIN text : text[i] = key /\ depth[i] \in depths}
      After(i) == Min({j \in i + 1 .. Len(text) : text[j] \notin White})
  IN  {After(i) : i \in {k \in keys : text[After(k)] = ":"}}

\* Mutant: the first occurrence of the key, at any depth.
FindColon_AnyDepth(text, key) ==
  LET at == KeyColons(text, key, 1 .. Len(text)) IN IF at = {} THEN 0 ELSE Min(at)

\* _find_json_colon: the colon after a key of the root object.
FindColon(text, key) ==
  LET at == KeyColons(text, key, {1}) IN IF at = {} THEN 0 ELSE Min(at)

\* The bracket that closes the one at start; _find_object_end for braces.
CloseOf(text, start, closing) ==
  LET depth == Depths(text, {text[start]}, {closing})
      at == {i \in start .. Len(text) : text[i] = closing /\ depth[i] = depth[start] - 1}
  IN  IF at = {} THEN 0 ELSE Min(at)

\* The indentation of the line that begins after place i.
Indent(text, i) ==
  LET solid == {j \in DOMAIN text : j > i /\ text[j] # "sp"} IN SubSeq(text, i + 1, Min(solid) - 1)

Multiline(text, a, b) == \E i \in a .. b : text[i] = "nl"
BlankBetween(text, a, b) == \A i \in a + 1 .. b - 1 : text[i] \in White
-----------------------------------------------------------------------------
(* The edits.                                                              *)

\* New items or entries on one line, and on lines of their own.
Item(it) == <<it>>
Entry(k) == <<k, ":", "sp", "1">>
OneLine(items, Form(_)) == Joined([i \in DOMAIN items |-> Form(items[i])], <<",", "sp">>)
OwnLines(items, Form(_), indent) ==
  Joined([i \in DOMAIN items |-> indent \o Form(items[i])], <<",", "nl">>)

\* _append_to_array, once the array is found.
AppendBetween(text, bracket, end, items) ==
  LET last == LastSolid(text, end)
      line == RFind(text, "nl", last)
  IN  CASE end = 0 -> NoText
        [] BlankBetween(text, bracket, end) ->
             SubSeq(text, 1, bracket) \o OneLine(items, Item) \o From(text, end)
        [] ~Multiline(text, bracket, end) ->
             Inserted(text, end - 1, <<",", "sp">> \o OneLine(items, Item))
        [] line = 0 -> NoText
        [] OTHER -> Inserted(text, last, <<",", "nl">> \o OwnLines(items, Item, Indent(text, line)))

AppendToArray(text, key, items) ==
  LET colon == FindColon(text, key)
      bracket == Find(text, "[", colon)
  IN  IF colon = 0 \/ bracket = 0 THEN NoText
      ELSE AppendBetween(text, bracket, CloseOf(text, bracket, "]"), items)

\* _create_array_after: a new array below the anchor, in the anchor's style, once
\* the anchor is found.
CreateBelow(text, key, indent, bracket, end, items) ==
  LET rendered == IF Multiline(text, bracket, end)
                  THEN <<"[", "nl">> \o OwnLines(items, Item, indent \o Space)
                         \o <<"nl">> \o indent \o <<"]">>
                  ELSE <<"[">> \o OneLine(items, Item) \o <<"]">>
      member == <<"nl">> \o indent \o <<key, ":", "sp">> \o rendered
  IN  CASE end = 0 -> NoText
        [] end < Len(text) /\ text[end + 1] = "," -> Inserted(text, end + 1, member \o <<",">>)
        [] OTHER -> Inserted(text, end, <<",">> \o member)

CreateArrayAfter(text, key, anchor, items) ==
  LET colon == FindColon(text, anchor)
      bracket == Find(text, "[", colon)
  IN  IF colon = 0 \/ bracket = 0 THEN NoText
      ELSE CreateBelow(text, key, Indent(text, RFind(text, "nl", colon)), bracket,
                       CloseOf(text, bracket, "]"), items)

\* _set_key_in_object, when the object is there, between its braces ...
SetBetween(text, keyLine, brace, end, items) ==
  LET last == LastSolid(text, end)
      line == RFind(text, "nl", last)
      indent == Indent(text, keyLine)
  IN  CASE end = 0 -> NoText
        [] BlankBetween(text, brace, end) ->
             IF keyLine = 0 THEN NoText
             ELSE SubSeq(text, 1, brace) \o <<"nl">> \o indent \o Space \o OneLine(items, Entry)
                    \o <<"nl">> \o indent \o From(text, end)
        [] line = 0 -> NoText
        [] OTHER -> Inserted(text, last, <<",", "nl">> \o OwnLines(items, Entry, Indent(text, line)))

SetInObject(text, colon, items) ==
  LET brace == Find(text, "{", colon)
  IN  IF brace = 0 THEN NoText
      ELSE SetBetween(text, RFind(text, "nl", colon), brace, CloseOf(text, brace, "}"), items)

\* ... and when it is not: a last member of the root object.
SetKeys(text, key, items) ==
  LET colon == FindColon(text, key)
      last == LastSolid(text, RFind(text, "}", Len(text) + 1))
      line == RFind(text, "nl", last + 1)
      indent == Indent(text, line)
  IN  CASE colon # 0 -> SetInObject(text, colon, items)
        [] line = 0 -> NoText
        [] OTHER -> Inserted(text, last,
                      <<",", "nl">> \o indent \o <<key, ":", "sp", "{", "nl">> \o indent \o Space
                        \o OneLine(items, Entry) \o <<"nl">> \o indent \o <<"}">>)
-----------------------------------------------------------------------------
(* json.loads, for the texts here: the reference the edits are held against.*)

Bad == [kind |-> "bad", leaf |-> "", items |-> <<>>, pairs |-> {}]
Leaf(tok) == [Bad EXCEPT !.kind = "leaf", !.leaf = tok]
Array(items) == [Bad EXCEPT !.kind = "array", !.items = items]
Object(pairs) == [Bad EXCEPT !.kind = "object", !.pairs = pairs]
Punctuation == {"{", "}", "[", "]", ":", ",", "end"}

Member(object, k) ==
  LET at == {p \in object.pairs : p[1] = k} IN IF at = {} THEN Bad ELSE (CHOOSE p \in at : TRUE)[2]
Put(pairs, k, v) == {p \in pairs : p[1] # k} \cup {<<k, v>>}
KeysOf(object) == {p[1] : p \in object.pairs}

\* What begins at a token, a value or the rest of an array or of an object, and
\* the place after it.  Of two members with one key the later one counts.
Parsed(t) ==
  LET Found(v, next) == [val |-> v, next |-> next]
      Failed == Found(Bad, Len(t))
      parse[what \in {"value", "items", "members"}, i \in 1 .. Len(t)] ==
        LET Rest(v, closing, Empty, Add(_)) ==
              CASE v.val # Bad /\ t[v.next] = closing -> Found(Add(Empty), v.next + 1)
                [] v.val # Bad /\ t[v.next] = "," ->
                     LET rest == parse[what, v.next + 1]
                     IN  IF rest.val = Bad THEN Failed ELSE Found(Add(rest.val), rest.next)
                [] OTHER -> Failed
        IN  CASE what = "value" /\ t[i] = "[" /\ t[i + 1] = "]" -> Found(Array(<<>>), i + 2)
              [] what = "value" /\ t[i] = "[" /\ t[i + 1] # "]" -> parse["items", i + 1]
              [] what = "value" /\ t[i] = "{" /\ t[i + 1] = "}" -> Found(Object({}), i + 2)
              [] what = "value" /\ t[i] = "{" /\ t[i + 1] # "}" -> parse["members", i + 1]
              [] what = "value" /\ t[i] \in Punctuation \ {"[", "{"} -> Failed
              [] what = "value" /\ t[i] \notin Punctuation -> Found(Leaf(t[i]), i + 1)
              [] what = "items" ->
                   LET v == parse["value", i]
                   IN  Rest(v, "]", Array(<<>>), LAMBDA r : Array(<<v.val>> \o r.items))
              [] what = "members" ->
                   LET v == IF t[i] \notin Punctuation /\ t[i + 1] = ":" THEN parse["value", i + 2]
                            ELSE Failed
                   IN  Rest(v, "}", Object({}), LAMBDA r :
                         IF t[i] \in KeysOf(r) THEN r ELSE Object(r.pairs \cup {<<t[i], v.val>>}))
  IN  parse["value", 1]

Solid(text) == SelectSeq(text, LAMBDA tok : tok \notin White)
Loads(text) ==
  LET t == Solid(text) \o <<"end">>
      v == Parsed(t)
  IN  IF t[v.next] = "end" THEN v.val ELSE Bad
-----------------------------------------------------------------------------
(* _surgical_persist.                                                      *)

Mutations(mints) ==
  SelectSeq(<<<<"themes", "_themeCounts", mints.themes>>, <<"types", "_typeCounts", mints.types>>,
              <<"entities", "_entityCounts", mints.entities>>>>, LAMBDA m : m[3] # <<>>)

Counted(text, m) == IF text = NoText THEN NoText ELSE SetKeys(text, m[2], m[3])
Mutated(text, m) ==
  CASE text = NoText -> NoText
    [] text # NoText /\ FindColon(text, m[1]) = 0 ->
         Counted(CreateArrayAfter(text, m[1], "themes", m[3]), m)
    [] OTHER -> Counted(AppendToArray(text, m[1], m[3]), m)

\* The new text, if it parses and has the keys it had.
Verified(text, new) ==
  LET result == IF new = NoText THEN Bad ELSE Loads(new)
  IN  IF result = Bad \/ ~(KeysOf(Loads(text)) \subseteq KeysOf(result)) THEN NoText ELSE new
Surgical(text, mints) == Verified(text, Fold(Mutated, text, Mutations(mints)))
-----------------------------------------------------------------------------
(* What the edit must come to.                                             *)

\* The value with the items appended and counted.
Grown(v, m) ==
  LET old == Member(v, m[1]).items
      new == [i \in DOMAIN m[3] |-> Leaf(m[3][i])]
      counts == Fold(LAMBDA pairs, it : Put(pairs, it, Leaf("1")), Member(v, m[2]).pairs, m[3])
  IN  Object(Put(Put(v.pairs, m[1], Array(old \o new)), m[2], Object(counts)))

\* Nothing the user wrote is moved or gone: it is there in its order.
Kept(text, new) ==
  LET old == Solid(text)
      Meet(n, tok) == IF n < Len(old) /\ tok = old[n + 1] THEN n + 1 ELSE n
  IN  Fold(Meet, 0, new) = Len(old)

Outcome(text, new, mints) ==
  IF new = NoText THEN text[2] # "nl"
  ELSE /\ Loads(new) = Fold(Grown, Loads(text), Mutations(mints))
       /\ Kept(text, new)

\* The text is given up, or holds exactly what it held and what was minted, the
\* arity of the schema and a comment that reads like a key untouched; a text with
\* its members on lines of their own is never given up.
EditAppends(text, mints) == Outcome(text, Surgical(text, mints), mints)
=============================================================================
