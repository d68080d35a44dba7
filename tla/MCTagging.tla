------------------------------ MODULE MCTagging ------------------------------
(* The instance for TLC: the words of the model, the topic's names, and the ways *)
(* a user may have laid out taxonomy.json for the edits of TaxonomyText.          *)
EXTENDS Tagging, TaxonomyText
topicNames == {<<"kant", "one", None>>}
oldNotes == {<<"kant", "many", None>>}

\* The values of the members: on one line, over several, half and half, empty.
arrays == {<<"[", "]">>, <<"[", "nl", "sp", "]">>, <<"[", "a", ",", "sp", "b", "]">>,
           <<"[", "a", ",", "nl", "sp", "sp", "b", "]">>,
           <<"[", "nl", "sp", "sp", "a", ",", "nl", "sp", "sp", "b", "nl", "sp", "]">>}
counts == {<<"{", "}">>, <<"{", "a", ":", "1", "}">>, <<"{", "x", ":", "5", ",", "b", ":", "1", "}">>,
           <<"{", "nl", "sp", "sp", "x", ":", "sp", "5", "nl", "sp", "}">>}
schema == <<"{", "arity", ":", "{", "themes", ":", "[", "1", ",", "3", "]", "}", "}">>
theme(body) == <<"themes", ":", "sp">> \o body
type(body) == <<"types", ":", "sp">> \o body
count(body) == <<"_themeCounts", ":", "sp">> \o body
fixed == {<<"schema", ":", "sp">> \o schema, <<"comment", ":", "themes">>}

\* With the themes in front, in the middle or last; with and without the rest.
memberLists ==
  UNION {{<<s, theme(a), type(b)>>, <<type(b), s, theme(a)>>, <<s, theme(a), count(c)>>,
          <<count(c), type(b), theme(a), <<"entities", ":">> \o b, <<"_entityCounts", ":">> \o c>>} :
         s \in fixed, a \in arrays, b \in {<<"[", "]">>, <<"[", "t", "]">>}, c \in counts}
onLines(ms, comma) ==
  <<"{", "nl">> \o Joined([i \in DOMAIN ms |-> <<"sp">> \o ms[i]], comma \o <<"nl">>) \o <<"nl", "}">>
documents ==
  {<<"{">> \o Joined(ms, <<",", "sp">>) \o <<"}">> : ms \in memberLists}
    \cup {onLines(ms, <<",">>) : ms \in memberLists} \cup {onLines(ms, <<"sp", ",">>) : ms \in memberLists}
mintings == {[themes |-> <<"x">>, types |-> <<>>, entities |-> <<"k">>],
             [themes |-> <<"x", "y">>, types |-> <<>>, entities |-> <<>>],
             [themes |-> <<>>, types |-> <<"u">>, entities |-> <<"k", "l">>]}

editAppends == \A text \in documents, mints \in mintings : EditAppends(text, mints)

\* Whoever is about to write over a file that parses: however the user has laid it
\* out, the edit is the append that Written takes it for, and only a text whose
\* members are not on lines of their own is given up, where Written allows it.
SurgicalEdits == (\E a \in Actor : pc[a] = "write" /\ base[a] # None) => editAppends
=============================================================================
