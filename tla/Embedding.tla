----------------------------- MODULE Embedding -----------------------------
(***************************************************************************)
(* The embedding provider (providers/google_embedding.py) under the index  *)
(* of module VaultIndex: what its one await is made of.  The texts go in   *)
(* batches, each a request with retries; when a batch is refused, the call *)
(* begins again with one request per text, a few of them at a time.        *)
(*                                                                         *)
(* A vector is the text it was made from.  The list of texts is the set    *)
(* toEmbed: the order of the notes is whatever the file system makes it,   *)
(* and a place in the list of results is the entry it will be zipped with. *)
(***************************************************************************)
EXTENDS VaultIndex, Naturals, FiniteSetsExt, Functions

CONSTANTS MaxRetries,       \* _MAX_RETRIES, the tries of a request
          BatchSize,        \* _BATCH_SIZE
          MaxConcurrency    \* _MAX_CONCURRENCY

ASSUME ProviderAssumption == {MaxRetries, BatchSize, MaxConcurrency} \subseteq Nat \ {0}

VARIABLES path,      \* "none", "batch" or "single": how the texts are sent
          tries,     \* the failed tries of each request on its way, a set of texts
          results    \* the vector in each place, None before it has come

provider == <<path, tries, results>>
fullVars == <<vars, provider>>

NoRequests == [r \in {} |-> 0]
Running == DOMAIN tries
Missing == {e \in toEmbed : results[e] = None}
Answered(r) == Restrict(tries, Running \ {r})

ProviderTypeOK ==
    /\ path \in {"none", "batch", "single"}
    /\ Running \subseteq SUBSET toEmbed /\ Range(tries) \subseteq 0 .. MaxRetries - 1
    /\ results \in [toEmbed -> Text \cup {None}]

FullInit ==
    /\ Init
    /\ path = "none" /\ tries = NoRequests /\ results = NoRequests
-----------------------------------------------------------------------------
\* embed() is called with what the pass has queued, if anything.
Called(texts) ==
    /\ path' = IF texts = {} THEN "none" ELSE "batch"
    /\ tries' = NoRequests
    /\ results' = [e \in texts |-> None]

Pass == (Index \/ Rebuild) /\ Called(toEmbed')

\* One batch after another; single requests together, as the semaphore lets them.
MaySend(r) ==
    /\ r # {}
    /\ \/ path = "batch" /\ Running = {} /\ Cardinality(r) = Min({BatchSize, Cardinality(Missing)})
       \/ /\ path = "single" /\ Cardinality(r) = 1
          /\ r \notin Running /\ Cardinality(Running) < MaxConcurrency

Send(r) ==
    /\ MaySend(r)
    /\ tries' = [q \in Running \cup {r} |-> IF q = r THEN 0 ELSE tries[q]]
    /\ UNCHANGED <<vars, path, results>>

\* Mutant: the vectors are appended as they come.
Answer_InOrderOfArrival(r) ==
    /\ \E places \in kSubset(Cardinality(r), Missing), f \in [Missing -> r] :
          /\ \A e \in r : \E p \in places : f[p] = e
          /\ results' = [e \in toEmbed |-> IF e \in places THEN f[e][2] ELSE results[e]]
    /\ tries' = Answered(r)
    /\ UNCHANGED <<vars, path>>

\* A request is answered, with as many vectors as it has texts.
Answer(r) ==
    /\ results' = [e \in toEmbed |-> IF e \in r THEN e[2] ELSE results[e]]
    /\ tries' = Answered(r)
    /\ UNCHANGED <<vars, path>>

\* 429, 5xx or no connection: the request sleeps and is sent again.
Again(r) ==
    /\ tries[r] + 1 < MaxRetries
    /\ tries' = [tries EXCEPT ![r] = @ + 1]
    /\ UNCHANGED <<vars, path, results>>

\* 400, 422, another status or a wrong number of vectors: what the batches before
\* have brought is thrown away, and every text is sent alone.
Fallback(r) ==
    /\ path = "batch"
    /\ path' = "single" /\ tries' = NoRequests
    /\ results' = [e \in toEmbed |-> None]
    /\ UNCHANGED vars

\* What embed() raises: a refused key, the last try, a refused single request, or
\* what no handler maps (a read timeout, an answer that is not JSON).  A gather
\* raises with the first of its tasks and leaves the others to end unheard.
Raise == EmbedFails /\ Called({})

\* Mutant: the fall-back forgets that the list is longer than a batch.
Zipped_OneBatch ==
    {<<e[1], results[e]>> : e \in CHOOSE s \in SUBSET toEmbed :
        Cardinality(s) = Min({BatchSize, Cardinality(toEmbed)})}

\* The chunks zipped with the list of vectors.
Zipped == {<<e[1], results[e]>> : e \in toEmbed}

Return ==
    /\ pc = "embed" /\ Running = {} /\ Missing = {}
    /\ entries' = entries \cup Zipped
    /\ toEmbed' = {} /\ pc' = "save"
    /\ Called({})
    /\ UNCHANGED <<vault, hashes, loaded, disk>>

FullNext ==
    \/ \E n \in Note, x \in Text \cup {None} : Edit(n, x) /\ UNCHANGED provider
    \/ Pass
    \/ \E r \in SUBSET Missing : Send(r)
    \/ \E r \in Running : Answer(r) \/ Again(r) \/ Fallback(r)
    \/ Raise \/ Return
    \/ (BeginSave \/ EndSave) /\ UNCHANGED provider
    \/ Restart /\ Called({})

FullSpec == FullInit /\ [][FullNext]_fullVars
-----------------------------------------------------------------------------
\* However the texts are cut into batches, refused in the middle, sent again one
\* by one and answered in any order, the call is the one step of module VaultIndex:
\* it brings the vector of every text to the note the text is of, or raises.
ImplementsIndex == []ProviderTypeOK /\ Spec
=============================================================================
