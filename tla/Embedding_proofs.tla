-------------------------- MODULE Embedding_proofs --------------------------
(***************************************************************************)
(* What the embedding index promises, for any notes and texts: no vector   *)
(* of an older text, no re-embedding of an unchanged note, and nothing     *)
(* forgotten unless an embedding call failed (module VaultIndex); and that *)
(* the embedding provider is the one await of that index, for any size of  *)
(* a batch, tries and requests at a time: what is proved of the index      *)
(* holds over the provider (module Embedding).                             *)
(***************************************************************************)
EXTENDS Embedding, TLAPS

USE IndexAssumption

\* The vectors awaited are those of the texts whose hashes are already stored,
\* and nothing is awaited outside the embedding call.
Queue ==
  /\ Fresh(hashes, toEmbed)
  /\ pc # "embed" => toEmbed = {}

IInv == TypeOK /\ NothingStale /\ Queue

\* What a pass starts from: one of memory, disk and nothing.
From(m) ==
  /\ m.hashes \in Hashes
  /\ m.entries \subseteq Entry
  /\ Fresh(m.hashes, m.entries)

LEMMA EmptyFrom == From(Empty)
BY DEF From, Empty, NoHashes, Hashes, Entry, Fresh

LEMMA LoadedFrom ==
  ASSUME IInv
  PROVE  From(Loaded)
<1>1. CASE loaded
  BY <1>1 DEF IInv, TypeOK, NothingStale, From, Loaded
<1>2. CASE ~loaded /\ disk = None
  BY <1>2, EmptyFrom DEF Loaded
<1>3. CASE ~loaded /\ disk # None
  <2>1. disk \in [hashes : Hashes, entries : SUBSET Entry]
    BY <1>3 DEF IInv, TypeOK
  <2> QED BY <1>3, <2>1 DEF IInv, NothingStale, From, Loaded
<1> QED BY <1>1, <1>2, <1>3

\* A pass drops every vector whose note has another text now.
LEMMA ScanInv ==
  ASSUME IInv, NEW m, From(m), pc = "idle", Scan(m)
  PROVE  IInv'
<1>0. vault \in Hashes /\ toEmbed = {}
  BY DEF IInv, TypeOK, Queue
<1>1. TypeOK'
  <2>1. entries' \subseteq Entry
    BY DEF Scan, From
  <2>2. toEmbed' \subseteq Entry
    BY <1>0 DEF Scan, Changed, Hashes, Entry
  <2>3. pc' \in {"idle", "embed", "save", "write"} /\ loaded' \in BOOLEAN
    BY DEF Scan
  <2> QED BY <1>0, <2>1, <2>2, <2>3 DEF Scan, IInv, TypeOK
<1>2. Fresh(hashes', entries')
  <2> SUFFICES ASSUME NEW x \in entries' PROVE hashes'[x[1]] = x[2]
    BY DEF Fresh
  <2>1. /\ x \in m.entries /\ x \in Entry
        /\ x[1] \notin Changed(m) /\ x[1] \notin Deleted(m)
        /\ hashes' = vault
    BY DEF Scan, Dropped, From
  <2>2. x[1] \in Note /\ x[2] \in Text
    BY <2>1 DEF Entry
  <2>3. m.hashes[x[1]] = x[2] /\ m.hashes[x[1]] # None
    BY <2>1, <2>2 DEF From, Fresh
  <2>4. vault[x[1]] # None
    BY <2>1, <2>2, <2>3 DEF Deleted
  <2> QED BY <2>1, <2>2, <2>3, <2>4 DEF Changed
<1>3. Fresh(hashes', toEmbed')
  BY DEF Scan, Fresh
<1>4. pc' # "embed" => toEmbed' = {}
  BY DEF Scan
<1>5. NothingStale'
  BY <1>2 DEF Scan, IInv, NothingStale
<1> QED BY <1>1, <1>3, <1>4, <1>5 DEF IInv, Queue

LEMMA NextInv ==
  ASSUME IInv, [Next]_vars
  PROVE  IInv'
<1>1. ASSUME NEW n \in Note, NEW x \in Text \cup {None}, Edit(n, x) PROVE IInv'
  <2>1. vault' \in Hashes
    BY <1>1 DEF Edit, IInv, TypeOK, Hashes
  <2> QED BY <1>1, <2>1 DEF Edit, memory, IInv, TypeOK, NothingStale, Queue
<1>2. CASE Index
  BY <1>2, LoadedFrom, ScanInv DEF Index
<1>3. CASE Rebuild
  BY <1>3, EmptyFrom, ScanInv DEF Rebuild
<1>4. CASE Embedded
  <2>1. TypeOK'
    BY <1>4 DEF Embedded, IInv, TypeOK
  <2>2. Fresh(hashes', entries') /\ Fresh(hashes', toEmbed')
    BY <1>4 DEF Embedded, IInv, NothingStale, Queue, Fresh
  <2> QED BY <1>4, <2>1, <2>2 DEF Embedded, IInv, NothingStale, Queue
<1>5. CASE EmbedFails
  <2>1. TypeOK'
    BY <1>5 DEF EmbedFails, memory, IInv, TypeOK
  <2> QED BY <1>5, <2>1 DEF EmbedFails, memory, IInv, NothingStale, Queue, Fresh
<1>6. CASE BeginSave
  <2>1. TypeOK'
    BY <1>6 DEF BeginSave, memory, IInv, TypeOK
  <2> QED BY <1>6, <2>1 DEF BeginSave, memory, IInv, NothingStale, Queue
<1>7. CASE EndSave
  <2>1. TypeOK'
    BY <1>7 DEF EndSave, memory, IInv, TypeOK
  <2> QED BY <1>7, <2>1 DEF EndSave, memory, IInv, NothingStale, Queue
<1>8. CASE Restart
  <2>1. TypeOK' /\ entries' = {} /\ toEmbed' = {}
    BY <1>8 DEF Restart, IInv, TypeOK, NoHashes, Hashes
  <2> QED BY <1>8, <2>1 DEF Restart, IInv, NothingStale, Queue, Fresh
<1>9. CASE UNCHANGED vars
  BY <1>9 DEF vars, memory, IInv, TypeOK, NothingStale, Queue
<1> QED BY <1>1, <1>2, <1>3, <1>4, <1>5, <1>6, <1>7, <1>8, <1>9 DEF Next

LEMMA InvHolds == Spec => []IInv
<1>1. Init => IInv
  BY DEF Init, IInv, TypeOK, NothingStale, Queue, Fresh, NoHashes, Hashes, Entry
<1> QED BY <1>1, NextInv, PTL DEF Spec

\* No vector of an older text or of a deleted note, in memory or on disk, for any
\* set of notes and texts.
THEOREM IndexNeverStale == Spec => [](TypeOK /\ NothingStale)
BY InvHolds, PTL DEF IInv

\* A vector whose note has not changed survives every pass but a rebuild.
THEOREM UnchangedIsKept == Spec => KeepsUnchanged
<1> DEFINE A == pc = "idle" /\ pc' \in {"embed", "save"} /\ ~Rebuild =>
                  \A e \in Loaded.entries : vault[e[1]] = e[2] => e \in entries'
<1>1. ASSUME IInv, [Next]_vars PROVE [A]_vars
  <2> SUFFICES ASSUME pc = "idle", pc' \in {"embed", "save"}, ~Rebuild,
                      NEW e \in Loaded.entries, vault[e[1]] = e[2]
               PROVE  e \in entries'
    OBVIOUS
  <2>1. Index
    BY <1>1 DEF Next, vars, memory, Edit, Embedded, EmbedFails, BeginSave, EndSave, Restart
  <2>2. From(Loaded) /\ Scan(Loaded)
    BY <1>1, <2>1, LoadedFrom DEF Index
  <2>3. e \in Entry /\ e[1] \in Note /\ e[2] \in Text
    BY <2>2 DEF From, Entry
  <2>4. Loaded.hashes[e[1]] = vault[e[1]] /\ vault[e[1]] # None
    BY <2>2, <2>3 DEF From, Fresh
  <2>5. e[1] \notin Dropped(Loaded)
    BY <2>3, <2>4 DEF Dropped, Changed, Deleted
  <2> HIDE DEF Loaded
  <2> QED BY <2>2, <2>5 DEF Scan
<1> QED BY <1>1, InvHolds, PTL DEF Spec, KeepsUnchanged

\* Covered is kept by a pass: what it does not queue, it had already.
LEMMA ScanCovers ==
  ASSUME IInv, NEW m, From(m), Covered(m.hashes, m.entries), Scan(m)
  PROVE  Covered(hashes', entries' \cup toEmbed')
<1> SUFFICES ASSUME NEW n \in Note, hashes'[n] # None
             PROVE  <<n, hashes'[n]>> \in entries' \cup toEmbed'
  BY DEF Covered
<1>1. hashes' = vault
  BY DEF Scan
<1>2. CASE n \in Changed(m)
  BY <1>1, <1>2 DEF Scan
<1>3. CASE n \notin Changed(m)
  <2>1. m.hashes[n] = vault[n]
    BY <1>1, <1>3 DEF Changed
  <2>2. <<n, vault[n]>> \in m.entries
    BY <1>1, <2>1 DEF Covered
  <2>3. n \notin Dropped(m)
    BY <1>1, <1>3 DEF Dropped, Deleted
  <2> QED BY <1>1, <2>2, <2>3 DEF Scan
<1> QED BY <1>2, <1>3

\* The index forgets the vectors of a note only when an embedding call failed.
THEOREM OnlyFailures == Spec => OnlyFailureForgets
<1>1. ASSUME IInv, [Next]_vars
      PROVE  [NothingForgotten /\ ~EmbedFails => NothingForgotten']_vars
  <2> SUFFICES ASSUME NothingForgotten, ~EmbedFails PROVE NothingForgotten'
    OBVIOUS
  <2>0. pc = "idle" => Covered(hashes, entries)
    BY <1>1 DEF IInv, Queue, NothingForgotten
  <2>1. ASSUME NEW n \in Note, NEW x \in Text \cup {None}, Edit(n, x) PROVE NothingForgotten'
    BY <2>1 DEF Edit, memory, NothingForgotten
  <2>2. CASE Index
    <3>1. From(Loaded) /\ Scan(Loaded) /\ disk' = disk
      BY <1>1, <2>2, LoadedFrom DEF Index, Scan
    <3>2. Covered(Loaded.hashes, Loaded.entries)
      <4>1. CASE loaded
        BY <2>0, <2>2, <4>1 DEF Index, Loaded
      <4>2. CASE ~loaded /\ disk = None
        BY <4>2 DEF Loaded, Empty, NoHashes, Covered
      <4>3. CASE ~loaded /\ disk # None
        BY <4>3 DEF Loaded, NothingForgotten
      <4> QED BY <4>1, <4>2, <4>3
    <3> HIDE DEF Loaded
    <3> QED BY <1>1, <3>1, <3>2, ScanCovers DEF NothingForgotten
  <2>3. CASE Rebuild
    <3>1. Covered(Empty.hashes, Empty.entries)
      BY DEF Empty, NoHashes, Covered
    <3>2. Scan(Empty) /\ disk' = disk
      BY <2>3 DEF Rebuild, Scan
    <3> HIDE DEF Empty
    <3> QED BY <1>1, <3>1, <3>2, EmptyFrom, ScanCovers DEF NothingForgotten
  <2>4. CASE Embedded
    <3>1. entries' \cup toEmbed' = entries \cup toEmbed /\ hashes' = hashes /\ disk' = disk
      BY <2>4 DEF Embedded
    <3> QED BY <3>1 DEF NothingForgotten
  <2>5. CASE BeginSave
    BY <2>5 DEF BeginSave, memory, NothingForgotten
  <2>6. CASE EndSave
    <3>1. toEmbed = {}
      BY <1>1, <2>6 DEF EndSave, IInv, Queue
    <3> QED BY <2>6, <3>1 DEF EndSave, memory, NothingForgotten
  <2>7. CASE Restart
    BY <2>7 DEF Restart, NoHashes, Covered, NothingForgotten
  <2>8. CASE UNCHANGED vars
    BY <2>8 DEF vars, memory, NothingForgotten
  <2> QED BY <1>1, <2>1, <2>2, <2>3, <2>4, <2>5, <2>6, <2>7, <2>8 DEF Next
<1> QED BY <1>1, InvHolds, PTL DEF Spec, OnlyFailureForgets
-----------------------------------------------------------------------------
(* The provider.                                                           *)

\* The vector in a place is of the very text the place is for.
Placed == ProviderTypeOK /\ \A e \in toEmbed : results[e] \in {None, e[2]}

LEMMA CalledPlaced ==
  ASSUME Called(toEmbed')
  PROVE  Placed'
<1>1. path' \in {"none", "batch", "single"} /\ tries' = NoRequests
  BY DEF Called
<1>2. results' = [e \in toEmbed' |-> None]
  BY DEF Called
<1> QED BY <1>1, <1>2 DEF Placed, ProviderTypeOK, NoRequests, Running, Range

\* A step that leaves the queue and the provider alone.
LEMMA SamePlaced ==
  ASSUME Placed, UNCHANGED <<toEmbed, path, tries, results>>
  PROVE  Placed'
BY DEF Placed, ProviderTypeOK, Running

LEMMA SendPlaced ==
  ASSUME Placed, NEW r \in SUBSET Missing, Send(r)
  PROVE  Placed'
<1>1. toEmbed' = toEmbed /\ path' = path /\ results' = results
  BY DEF Send, vars
<1>2. tries' = [q \in Running \cup {r} |-> IF q = r THEN 0 ELSE tries[q]]
  BY DEF Send
<1>3. Running' = Running \cup {r} /\ Running' \subseteq SUBSET toEmbed
  BY <1>2 DEF Running, Missing, Placed, ProviderTypeOK
<1>4. \A q \in Running' : tries'[q] \in 0 .. MaxRetries - 1
  <2>1. 0 \in 0 .. MaxRetries - 1
    BY ProviderAssumption
  <2>2. \A q \in Running : tries[q] \in 0 .. MaxRetries - 1
    BY DEF Placed, ProviderTypeOK, Range, Running
  <2> QED BY <1>2, <1>3, <2>1, <2>2
<1> QED BY <1>1, <1>3, <1>4 DEF Placed, ProviderTypeOK, Range, Running

LEMMA AnswerPlaced ==
  ASSUME Placed, TypeOK, NEW r \in Running, Answer(r)
  PROVE  Placed'
<1>1. toEmbed' = toEmbed /\ path' = path
  BY DEF Answer, vars
<1>2. results' = [e \in toEmbed |-> IF e \in r THEN e[2] ELSE results[e]]
  BY DEF Answer
<1>3. \A e \in toEmbed : results[e] \in {None, e[2]} /\ results[e] \in Text \cup {None} /\ e[2] \in Text
  BY DEF TypeOK, Entry, Placed, ProviderTypeOK
<1>4. results' \in [toEmbed' -> Text \cup {None}] /\ \A e \in toEmbed' : results'[e] \in {None, e[2]}
  BY <1>1, <1>2, <1>3
<1>5. tries' = [q \in Running \ {r} |-> tries[q]]
  BY DEF Answer, Answered, Restrict
<1>6. Running' \subseteq SUBSET toEmbed /\ Range(tries') \subseteq 0 .. MaxRetries - 1
  BY <1>5 DEF Running, Range, Placed, ProviderTypeOK
<1> QED BY <1>1, <1>4, <1>6 DEF Placed, ProviderTypeOK

LEMMA AgainPlaced ==
  ASSUME Placed, NEW r \in Running, Again(r)
  PROVE  Placed'
<1>1. toEmbed' = toEmbed /\ path' = path /\ results' = results
  BY DEF Again, vars
<1>2. tries' = [tries EXCEPT ![r] = @ + 1] /\ tries[r] + 1 < MaxRetries
  BY DEF Again
<1>3. \A q \in Running : tries[q] \in 0 .. MaxRetries - 1
  BY DEF Placed, ProviderTypeOK, Range, Running
<1>4. Running' = Running
  BY <1>2 DEF Running
<1>5. tries'[r] \in 0 .. MaxRetries - 1
  <2>1. tries'[r] = tries[r] + 1
    BY <1>2 DEF Running
  <2> QED BY <1>2, <1>3, <2>1, ProviderAssumption
<1>6. \A q \in Running' : tries'[q] \in 0 .. MaxRetries - 1
  BY <1>2, <1>3, <1>4, <1>5 DEF Running
<1> QED BY <1>1, <1>4, <1>6 DEF Placed, ProviderTypeOK, Range, Running

LEMMA FallbackPlaced ==
  ASSUME Placed, NEW r \in Running, Fallback(r)
  PROVE  Placed'
<1>1. toEmbed' = toEmbed /\ path' = "single" /\ tries' = NoRequests
  BY DEF Fallback, vars
<1>2. results' = [e \in toEmbed |-> None]
  BY DEF Fallback
<1> QED BY <1>1, <1>2 DEF Placed, ProviderTypeOK, NoRequests, Running, Range

LEMMA FullNextPlaced ==
  ASSUME Placed, TypeOK, [FullNext]_fullVars
  PROVE  Placed'
<1>1. ASSUME NEW n \in Note, NEW x \in Text \cup {None}, Edit(n, x), UNCHANGED provider
      PROVE  Placed'
  BY <1>1, SamePlaced DEF Edit, provider
<1>2. CASE Pass
  BY <1>2, CalledPlaced DEF Pass
<1>3. ASSUME NEW r \in SUBSET Missing, Send(r) PROVE Placed'
  BY <1>3, SendPlaced
<1>4. ASSUME NEW r \in Running, Answer(r) \/ Again(r) \/ Fallback(r) PROVE Placed'
  BY <1>4, AnswerPlaced, AgainPlaced, FallbackPlaced
<1>5. CASE Raise
  BY <1>5, CalledPlaced DEF Raise, EmbedFails
<1>6. CASE Return
  BY <1>6, CalledPlaced DEF Return
<1>7. CASE (BeginSave \/ EndSave) /\ UNCHANGED provider
  BY <1>7, SamePlaced DEF BeginSave, EndSave, provider
<1>8. CASE Restart /\ Called({})
  BY <1>8, CalledPlaced DEF Restart
<1>9. CASE UNCHANGED fullVars
  BY <1>9, SamePlaced DEF fullVars, vars, provider
<1> QED BY <1>1, <1>2, <1>3, <1>4, <1>5, <1>6, <1>7, <1>8, <1>9 DEF FullNext

\* The lists that are zipped are the same list: what a call that returns adds to
\* the entries is exactly what was queued.
LEMMA ZippedIsQueue ==
  ASSUME Placed, TypeOK, Missing = {}
  PROVE  Zipped = toEmbed
<1>1. \A e \in toEmbed : results[e] = e[2] /\ <<e[1], e[2]>> = e
  BY DEF Placed, Missing, TypeOK, Entry
<1> QED BY <1>1 DEF Zipped

\* Every step over the provider is a step of the index or leaves it alone.
LEMMA StepMaps ==
  ASSUME Placed, TypeOK, [FullNext]_fullVars
  PROVE  [Next]_vars
<1>1. ASSUME NEW n \in Note, NEW x \in Text \cup {None}, Edit(n, x), UNCHANGED provider
      PROVE  Next
  BY <1>1 DEF Next
<1>2. CASE Pass
  BY <1>2 DEF Pass, Next
<1>3. ASSUME NEW r \in SUBSET Missing, Send(r) PROVE UNCHANGED vars
  BY <1>3 DEF Send
<1>4. ASSUME NEW r \in Running, Answer(r) \/ Again(r) \/ Fallback(r) PROVE UNCHANGED vars
  BY <1>4 DEF Answer, Again, Fallback
<1>5. CASE Raise
  BY <1>5 DEF Raise, Next
<1>6. CASE Return
  BY <1>6, ZippedIsQueue DEF Return, Embedded, Next
<1>7. CASE (BeginSave \/ EndSave) /\ UNCHANGED provider
  BY <1>7 DEF Next
<1>8. CASE Restart /\ Called({})
  BY <1>8 DEF Next
<1>9. CASE UNCHANGED fullVars
  BY <1>9 DEF fullVars
<1> QED BY <1>1, <1>2, <1>3, <1>4, <1>5, <1>6, <1>7, <1>8, <1>9 DEF FullNext

\* However the texts are cut into batches, refused, sent again and answered, the
\* call brings every note the vector of its own text, or raises.
THEOREM ProviderImplementsIndex == FullSpec => ImplementsIndex
<1>1. FullInit => Init /\ IInv /\ Placed
  <2>1. Init => IInv
    BY DEF Init, IInv, TypeOK, NothingStale, Queue, Fresh, NoHashes, Hashes, Entry
  <2>2. FullInit => Placed
    BY DEF FullInit, Init, Placed, ProviderTypeOK, NoRequests, Running, Range
  <2> QED BY <2>1, <2>2 DEF FullInit
<1>2. IInv /\ Placed /\ [FullNext]_fullVars => [Next]_vars /\ IInv' /\ Placed'
  BY StepMaps, FullNextPlaced, NextInv DEF IInv
<1>3. Placed => ProviderTypeOK
  BY DEF Placed
<1> QED BY <1>1, <1>2, <1>3, PTL DEF FullSpec, ImplementsIndex, Spec

\* The index over the provider keeps no vector of an older text either.
THEOREM NeverStaleOverProvider == FullSpec => []NothingStale
<1>1. FullSpec => Spec
  BY ProviderImplementsIndex, PTL DEF ImplementsIndex
<1> QED BY <1>1, IndexNeverStale, PTL
=============================================================================
