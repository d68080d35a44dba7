----------------------------- MODULE MCNoteRuns -----------------------------
EXTENDS NoteRuns, TLC
\* Runs are interchangeable, and so are topics.
Symmetry == Permutations(Run) \cup Permutations(Topic)
=============================================================================
