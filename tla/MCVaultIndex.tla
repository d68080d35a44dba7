---------------------------- MODULE MCVaultIndex ----------------------------
EXTENDS VaultIndex, TLC
\* Notes are interchangeable, and so are texts.
Symmetry == Permutations(Note) \cup Permutations(Text)
=============================================================================
