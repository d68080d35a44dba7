---------------------------- MODULE MCEmbedding ----------------------------
EXTENDS Embedding, TLC
\* Notes are interchangeable, and so are texts.
Symmetry == Permutations(Note) \cup Permutations(Text)
=============================================================================
