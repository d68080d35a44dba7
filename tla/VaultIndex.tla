----------------------------- MODULE VaultIndex -----------------------------
(***************************************************************************)
(* The incremental embedding index (vault/index.py): one VaultIndex object *)
(* per process life, its index.json, and a vault whose notes are edited,   *)
(* created and deleted meanwhile.                                          *)
(*                                                                         *)
(* A note's text is one of a few Texts; its chunks, and the vectors they   *)
(* get, are abstracted to the pair of the note and the text they were made *)
(* from.  A pass reads the vault between two awaits; the embedding call is *)
(* its only await, and may raise or be cancelled.                          *)
(***************************************************************************)
EXTENDS FiniteSets

CONSTANTS Note,
          Text,
          None,       \* no such note, no hash
          MayFail     \* whether an embedding call may raise

ASSUME IndexAssumption ==
    /\ None \notin Text
    /\ MayFail \in BOOLEAN

VARIABLES vault,      \* the notes on disk
          hashes,     \* _note_hashes
          entries,    \* _entries
          loaded,     \* _loaded
          pc,         \* where the index pass is
          toEmbed,    \* the notes, with their texts, whose vectors are awaited
          disk        \* index.json

memory == <<hashes, entries, loaded>>
vars == <<vault, memory, pc, toEmbed, disk>>

Hashes == [Note -> Text \cup {None}]
Entry == Note \X Text
NoHashes == [n \in Note |-> None]
Empty == [hashes |-> NoHashes, entries |-> {}]

TypeOK ==
    /\ vault \in Hashes
    /\ hashes \in Hashes
    /\ entries \subseteq Entry
    /\ loaded \in BOOLEAN
    /\ pc \in {"idle", "embed", "save", "write"}
    /\ toEmbed \subseteq Entry
    /\ disk \in [hashes : Hashes, entries : SUBSET Entry] \cup {None}

Init ==
    /\ vault = NoHashes
    /\ hashes = NoHashes /\ entries = {} /\ loaded = FALSE
    /\ pc = "idle" /\ toEmbed = {}
    /\ disk = None
-----------------------------------------------------------------------------
\* The user creates, edits or deletes a note.
Edit(n, x) ==
    /\ vault[n] # x
    /\ vault' = [vault EXCEPT ![n] = x]
    /\ UNCHANGED <<memory, pc, toEmbed, disk>>

\* _load: a file that is missing or torn (None) counts as empty.
Loaded == IF loaded THEN [hashes |-> hashes, entries |-> entries]
          ELSE IF disk = None THEN Empty ELSE disk

Changed(m) == {n \in Note : vault[n] # None /\ vault[n] # m.hashes[n]}
Deleted(m) == {n \in Note : vault[n] = None /\ m.hashes[n] # None}

\* Mutant: the vectors of a deleted note stay.
Dropped_Changed(m) == Changed(m)

\* Mutant: every pass starts from nothing.
Dropped_All(m) == Note

\* The notes whose entries a pass removes.
Dropped(m) == Changed(m) \cup Deleted(m)

\* The first half of index(): hash, drop what is stale, queue what changed.
Scan(m) ==
    /\ hashes' = vault
    /\ entries' = {e \in m.entries : e[1] \notin Dropped(m)}
    /\ toEmbed' = {<<n, vault[n]>> : n \in Changed(m)}
    /\ loaded' = TRUE
    /\ pc' = IF Changed(m) = {} THEN "save" ELSE "embed"
    /\ UNCHANGED <<vault, disk>>

Index == pc = "idle" /\ Scan(Loaded)

Rebuild == pc = "idle" /\ Scan(Empty)

\* Mutant: only the vectors of the first batch are kept.
Embedded_OneBatch ==
    /\ pc = "embed"
    /\ entries' = entries \cup {CHOOSE e \in toEmbed : TRUE}
    /\ toEmbed' = {}
    /\ pc' = "save"
    /\ UNCHANGED <<vault, hashes, loaded, disk>>

Embedded ==
    /\ pc = "embed"
    /\ entries' = entries \cup toEmbed
    /\ toEmbed' = {}
    /\ pc' = "save"
    /\ UNCHANGED <<vault, hashes, loaded, disk>>

\* The call raises or the pass is cancelled: index() ends without a save.
EmbedFails ==
    /\ pc = "embed" /\ MayFail
    /\ toEmbed' = {}
    /\ pc' = "idle"
    /\ UNCHANGED <<vault, memory, disk>>

\* _save truncates index.json and writes it.
BeginSave ==
    /\ pc = "save"
    /\ disk' = None
    /\ pc' = "write"
    /\ UNCHANGED <<vault, memory, toEmbed>>

EndSave ==
    /\ pc = "write"
    /\ disk' = [hashes |-> hashes, entries |-> entries]
    /\ pc' = "idle"
    /\ UNCHANGED <<vault, memory, toEmbed>>

\* The process is killed, or just ends, and another one starts.
Restart ==
    /\ hashes' = NoHashes /\ entries' = {} /\ loaded' = FALSE
    /\ pc' = "idle" /\ toEmbed' = {}
    /\ UNCHANGED <<vault, disk>>

Next ==
    \/ \E n \in Note, x \in Text \cup {None} : Edit(n, x)
    \/ Index \/ Rebuild \/ Embedded \/ EmbedFails \/ BeginSave \/ EndSave
    \/ Restart

Spec == Init /\ [][Next]_vars
-----------------------------------------------------------------------------
\* A vector in the index was made from the very text the index has the hash of:
\* neither an edit during the embedding call, nor a failed call, a kill during a
\* save or a reload leaves a vector of an older text, or of a deleted note.
Fresh(h, e) == \A x \in e : h[x[1]] = x[2]
NothingStale == Fresh(hashes, entries) /\ (disk # None => Fresh(disk.hashes, disk.entries))

\* What has a hash has its vectors, or they are being fetched: a later pass may
\* skip it, as index.py:8-9 says it may ("a note edited in Obsidian invalidates
\* by hash on the next index pass").
Covered(h, e) == \A n \in Note : h[n] # None => <<n, h[n]>> \in e
NothingForgotten ==
    /\ Covered(hashes, entries \cup toEmbed)
    /\ disk # None => Covered(disk.hashes, disk.entries)

\* Only a failed embedding call makes the index forget a note: no edit, torn
\* save, restart or successful pass ever does.
OnlyFailureForgets == [][NothingForgotten /\ ~EmbedFails => NothingForgotten']_vars

\* A pass never loses a vector whose note has not changed: that one is not
\* embedded again (index.py:7-9, "nothing triggers a full re-embed").
KeepsUnchanged ==
    [][pc = "idle" /\ pc' \in {"embed", "save"} /\ ~Rebuild =>
         \A e \in Loaded.entries : vault[e[1]] = e[2] => e \in entries']_vars
=============================================================================
