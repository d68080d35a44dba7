--------------------------- MODULE Tagging_proofs ---------------------------
(***************************************************************************)
(* Proofs about the registry and the ladder, for any number of runs, any   *)
(* words and names, any replies and any number of edits.                   *)
(*                                                                         *)
(* The resolve loop is followed tag by tag: what is true of its state      *)
(* (LoopInv) before a tag is true after it, so it is true at the end.      *)
(* IInv says what a run's registry, its mints and the part file have to do *)
(* with each other, and follows taxonomy.json back to who wrote it.        *)
(***************************************************************************)
EXTENDS Tagging, FiniteSetTheorems, SequenceTheorems, WellFoundedInduction, NaturalsInduction,
        TLAPS

Persisting == {"read", "write", "replace"}

\* What an actor has while it is at work.  A registry holds all it has minted.
StageInv ==
  /\ \A r \in Run :
       /\ pc[r] \notin {"out", "done"} => cached[r] # None
       /\ pc[r] \in {"out", "bound", "done"} => reg[r] = None
  /\ \A a \in Actor :
       /\ pc[a] \in Persisting => reg[a] # None
       /\ reg[a] = None => minted[a] = NoMints
       /\ reg[a] # None => ToSet(minted[a].themes) \subseteq ToSet(reg[a].themes)

\* A run mints only types that its Vault has and its registry has not.
MintInv ==
  \A r \in Run :
    minted[r].themes # <<>> =>
      ToSet(minted[r].themes) \subseteq Keys(cached[r].types) \ Keys(reg[r].types)

\* The part file is what its writer may write, as long as the writer is about to replace
\* the taxonomy, and what the user edits is the user's.
PartInv ==
  /\ part # None /\ part.by \in Actor /\ pc[part.by] = "replace" => part \in Written(part.by)
  /\ draft # None => draft.by = None

\* After a persist that succeeded a run's part file is gone, and what the run wrote
\* holds its mints.
SavedInv ==
  \A r \in Run :
    pc[r] \notin Persisting /\ saved[r] /\ minted[r].themes # <<>> =>
      /\ part # None => part.by # r
      /\ file # None /\ file.by = r => ToSet(minted[r].themes) \subseteq ToSet(file.themes)

IInv == TypeOK /\ StageInv /\ MintInv /\ PartInv /\ SavedInv
-----------------------------------------------------------------------------
(* Sequences and finite sets.                                              *)

LEMMA ToSetType ==
  ASSUME NEW S, NEW seq \in Seq(S)
  PROVE  ToSet(seq) \subseteq S
BY DEF ToSet

LEMMA ToSetAppend ==
  ASSUME NEW S, NEW seq \in Seq(S), NEW e \in S
  PROVE  ToSet(Append(seq, e)) = ToSet(seq) \cup {e}
<1>1. Len(Append(seq, e)) = Len(seq) + 1 /\ Len(seq) \in Nat
  OBVIOUS
<1>2. ASSUME NEW x \in ToSet(Append(seq, e)) PROVE x \in ToSet(seq) \cup {e}
  <2>1. PICK i \in 1 .. Len(seq) + 1 : x = Append(seq, e)[i]
    BY <1>1 DEF ToSet
  <2> QED BY <2>1 DEF ToSet
<1>3. ASSUME NEW x \in ToSet(seq) PROVE x \in ToSet(Append(seq, e))
  <2>1. PICK i \in 1 .. Len(seq) : x = seq[i]
    BY DEF ToSet
  <2>2. i \in DOMAIN Append(seq, e) /\ Append(seq, e)[i] = x
    BY <1>1, <2>1
  <2> QED BY <2>2 DEF ToSet
<1>4. e \in ToSet(Append(seq, e))
  <2>1. Len(seq) + 1 \in DOMAIN Append(seq, e) /\ Append(seq, e)[Len(seq) + 1] = e
    BY <1>1
  <2> QED BY <2>1 DEF ToSet
<1> QED BY <1>2, <1>3, <1>4

LEMMA ToSetConcat ==
  ASSUME NEW S, NEW s1 \in Seq(S), NEW s2 \in Seq(S)
  PROVE  /\ s1 \o s2 \in Seq(S)
         /\ ToSet(s1 \o s2) = ToSet(s1) \cup ToSet(s2)
<1>1. Len(s1 \o s2) = Len(s1) + Len(s2) /\ Len(s1) \in Nat /\ Len(s2) \in Nat
  OBVIOUS
<1>2. ASSUME NEW x \in ToSet(s1 \o s2) PROVE x \in ToSet(s1) \cup ToSet(s2)
  <2>1. PICK i \in 1 .. Len(s1) + Len(s2) : x = (s1 \o s2)[i]
    BY <1>1 DEF ToSet
  <2>2. CASE i <= Len(s1)
    BY <1>1, <2>1, <2>2 DEF ToSet
  <2>3. CASE i > Len(s1)
    <3>1. i - Len(s1) \in DOMAIN s2 /\ x = s2[i - Len(s1)]
      BY <1>1, <2>1, <2>3
    <3> QED BY <3>1 DEF ToSet
  <2> QED BY <1>1, <2>2, <2>3
<1>3. ASSUME NEW x \in ToSet(s1) PROVE x \in ToSet(s1 \o s2)
  <2>1. PICK i \in 1 .. Len(s1) : x = s1[i]
    BY DEF ToSet
  <2>2. i \in DOMAIN (s1 \o s2) /\ (s1 \o s2)[i] = x
    BY <1>1, <2>1
  <2> QED BY <2>2 DEF ToSet
<1>4. ASSUME NEW x \in ToSet(s2) PROVE x \in ToSet(s1 \o s2)
  <2>1. PICK i \in 1 .. Len(s2) : x = s2[i]
    BY DEF ToSet
  <2>2. Len(s1) + i \in DOMAIN (s1 \o s2) /\ (s1 \o s2)[Len(s1) + i] = x
    BY <1>1, <2>1
  <2> QED BY <2>2 DEF ToSet
<1> QED BY <1>2, <1>3, <1>4

\* A part of a sequence.
LEMMA SubSeqType ==
  ASSUME NEW S, NEW seq \in Seq(S), NEW m \in Nat \ {0}, NEW n \in 0 .. Len(seq)
  PROVE  /\ SubSeq(seq, m, n) \in Seq(S)
         /\ ToSet(SubSeq(seq, m, n)) \subseteq ToSet(seq)
<1>1. SubSeq(seq, m, n) \in Seq(S)
  OBVIOUS
<1>2. ASSUME NEW i \in DOMAIN SubSeq(seq, m, n)
      PROVE  SubSeq(seq, m, n)[i] \in ToSet(seq)
  <2>1. m + i - 1 \in DOMAIN seq /\ SubSeq(seq, m, n)[i] = seq[m + i - 1]
    BY <1>2
  <2> QED BY <2>1 DEF ToSet
<1> QED BY <1>1, <1>2 DEF ToSet

LEMMA FirstType ==
  ASSUME NEW S, NEW seq \in Seq(S)
  PROVE  /\ FirstN(1, seq) \in Seq(S)
         /\ ToSet(FirstN(1, seq)) \subseteq ToSet(seq)
<1>1. Len(seq) \in Nat
  OBVIOUS
<1>2. Min({1, Len(seq)}) \in {1, Len(seq)} /\ Min({1, Len(seq)}) <= Len(seq)
  BY <1>1 DEF Min
<1>3. 1 \in Nat \ {0} /\ Min({1, Len(seq)}) \in 0 .. Len(seq)
  BY <1>1, <1>2
<1>4. FirstN(1, seq) = SubSeq(seq, 1, Min({1, Len(seq)}))
  BY DEF FirstN
<1> QED BY <1>3, <1>4, SubSeqType

\* A finite set in some order.
LEMMA SetToSeqType ==
  ASSUME NEW S, IsFiniteSet(S)
  PROVE  SetToSeq(S) \in Seq(S)
<1>1. Cardinality(S) \in Nat /\ ExistsBijection(1 .. Cardinality(S), S)
  BY FS_CardinalityType
<1>2. PICK f : f \in Bijection(1 .. Cardinality(S), S)
  BY <1>1 DEF ExistsBijection
<1>3. f \in [1 .. Cardinality(S) -> S] /\ IsInjective(f)
  BY <1>2 DEF Bijection, Injection, IsInjective
<1>4. \E g \in [1 .. Cardinality(S) -> S] : IsInjective(g)
  BY <1>3
<1>5. SetToSeq(S) \in [1 .. Cardinality(S) -> S]
  BY <1>4, Zenon DEF SetToSeq
<1> QED BY <1>1, <1>5

\* A non-empty set of naturals has a least element.
LEMMA LeastNat ==
  ASSUME NEW T, T \subseteq Nat, T # {}
  PROVE  \E x \in T : \A y \in T : x <= y
<1>1. PICK x \in T : \A y \in T : ~ (<<y, x>> \in OpToRel(<, Nat))
  BY NatLessThanWellFounded, WFMin
<1>2. \A y \in T : ~ (y < x)
  BY <1>1 DEF OpToRel
<1> QED BY <1>2

LEMMA PrefixConcat ==
  ASSUME NEW S, NEW s1 \in Seq(S), NEW s2 \in Seq(S)
  PROVE  IsPrefix(s1, s1 \o s2)
BY DEF IsPrefix
-----------------------------------------------------------------------------
(* The vocabulary.                                                         *)

LEMMA KeyType ==
  ASSUME NEW t \in Tag
  PROVE  Key(t) \in Tag
BY DEF Tag, ThemeTag, TypeTag, NameTag, Key, Spelling

LEMMA KeysType ==
  ASSUME NEW seq \in Seq(Tag)
  PROVE  Keys(seq) \subseteq Tag
BY ToSetType, KeyType DEF Keys

\* The form on record is on record.
LEMMA FormType ==
  ASSUME NEW seq \in Seq(Tag), NEW k \in Keys(seq)
  PROVE  Form(seq, k) \in Tag
<1> DEFINE I == {i \in 1 .. Len(seq) : Key(seq[i]) = k}
<1>1. I \subseteq Nat /\ I # {}
  <2>1. PICK i \in DOMAIN seq : Key(seq[i]) = k
    BY DEF Keys, ToSet
  <2> QED BY <2>1
<1>2. PICK x \in I : \A y \in I : x <= y
  BY <1>1, LeastNat
<1>3. Min(I) \in I
  BY <1>2 DEF Min
<1>4. SelectInSeq(seq, LAMBDA t : Key(t) = k) = Min(I)
  BY <1>1 DEF SelectInSeq
<1> QED BY <1>3, <1>4 DEF Form

LEMMA LookupForm ==
  ASSUME NEW seq \in Seq(Tag), NEW k, NEW merge
  PROVE  /\ Lookup(seq, k, merge) \in Tag \cup {None}
         /\ Lookup(seq, k, merge) = None => k \notin Keys(seq)
BY FormType, KeysType, TaggingAssumption DEF Lookup
-----------------------------------------------------------------------------
(* The resolve loop.                                                       *)

State == [reg : Taxonomy, minted : Mints, line : Seq(Tag)]

\* What the loop keeps, begun in state b, when the keys K are those of types:
\* a registry only gains themes, among them all mints, and mints are among K.
LoopInv(s, b, K) ==
  /\ s \in State
  /\ s.reg.types = b.reg.types
  /\ s.reg.by = b.reg.by
  /\ ToSet(b.reg.themes) \subseteq ToSet(s.reg.themes)
  /\ ToSet(s.minted.themes) \subseteq ToSet(s.reg.themes)
  /\ ToSet(s.minted.themes) \subseteq ToSet(b.minted.themes) \cup (K \ Keys(b.reg.types))

\* Tags that the loop may meet: entities, themes on record, and types.
Expected(t, entities, b, K) ==
  t \in entities \/ t \in ToSet(b.reg.themes) \/ Key(t) \in K

\* What the mint of an entity, and of a theme, does to a registry and to its mints.
LEMMA MintEntityType ==
  ASSUME NEW k \in Tag, NEW r \in Taxonomy, NEW m \in Mints, NEW q, NEW n,
         q = [r EXCEPT !.entities = @ \cup {k}], n = [m EXCEPT !.entities = @ \cup {k}]
  PROVE  /\ q \in Taxonomy /\ q.types = r.types /\ q.by = r.by /\ q.themes = r.themes
         /\ n \in Mints /\ n.themes = m.themes
<1>1. q \in Taxonomy /\ q.types = r.types /\ q.by = r.by /\ q.themes = r.themes
  BY DEF Taxonomy
<1>2. n \in Mints /\ n.themes = m.themes
  BY DEF Mints
<1> QED BY <1>1, <1>2

LEMMA MintThemeType ==
  ASSUME NEW k \in Tag, NEW seq \in Seq(Tag)
  PROVE  \E new \in Seq(Tag) : new = Append(seq, k) /\ ToSet(new) = ToSet(seq) \cup {k}
<1>1. Append(seq, k) \in Seq(Tag)
  OBVIOUS
<1> QED BY <1>1, ToSetAppend

LEMMA ResolveEntityInv ==
  ASSUME NEW b \in State, NEW K, NEW s, LoopInv(s, b, K), NEW t \in Tag
  PROVE  LoopInv(ResolveEntity(s, t), b, K)
<1> DEFINE k == Key(t)
           same == {f \in s.reg.entities : Key(f) = k}
           known == IF same # {} THEN same ELSE Namesakes(s.reg.entities, k)
           u == ResolveEntity(s, t)
<1>1. s \in State /\ s.reg.entities \subseteq Tag /\ k \in Tag
  BY KeyType DEF LoopInv, State, Taxonomy
<1>2. known \subseteq Tag
  BY <1>1 DEF Namesakes
<1>3. CASE same # {} \/ Cardinality(known) = 1
  <2>1. known # {}
    BY <1>3, FS_EmptySet
  <2>2. PICK f \in known : f = CHOOSE g \in known : TRUE
    BY <2>1
  <2>3. u = [s EXCEPT !.line = Append(@, f)]
    BY <1>3, <2>2 DEF ResolveEntity
  <2>4. f \in Tag /\ s.line \in Seq(Tag) /\ Append(s.line, f) \in Seq(Tag)
    BY <1>1, <1>2, <2>2 DEF State
  <2>5. u \in State /\ u.reg = s.reg /\ u.minted = s.minted
    BY <1>1, <2>3, <2>4 DEF State
  <2> QED BY <2>5 DEF LoopInv
<1>4. CASE ~ (same # {} \/ Cardinality(known) = 1)
  <2>1. u = [s EXCEPT !.line = Append(@, k), !.reg.entities = @ \cup {k},
                      !.minted.entities = @ \cup {k}]
    BY <1>4 DEF ResolveEntity
  <2>2. /\ u.reg = [s.reg EXCEPT !.entities = @ \cup {k}]
        /\ u.minted = [s.minted EXCEPT !.entities = @ \cup {k}]
        /\ u.line = Append(s.line, k)
        /\ u = [reg |-> u.reg, minted |-> u.minted, line |-> u.line]
    BY <1>1, <2>1 DEF State
  <2>3. PICK r \in Taxonomy, m \in Mints : r = s.reg /\ m = s.minted
    BY <1>1 DEF State
  <2>4. k \in Tag /\ u.reg = [r EXCEPT !.entities = @ \cup {k}]
                  /\ u.minted = [m EXCEPT !.entities = @ \cup {k}]
    BY <1>1, <2>2, <2>3
  <2>5. /\ u.reg \in Taxonomy /\ u.reg.types = r.types /\ u.reg.by = r.by
        /\ u.reg.themes = r.themes
        /\ u.minted \in Mints /\ u.minted.themes = m.themes
    BY <2>4, MintEntityType
  <2>6. u.line \in Seq(Tag)
    BY <1>1, <2>2 DEF State
  <2>7. u \in State
    BY <2>2, <2>5, <2>6 DEF State
  <2> QED BY <2>3, <2>5, <2>7 DEF LoopInv
<1> QED BY <1>3, <1>4

\* A tag that is minted has no key among the themes and types of the registry.
LEMMA ResolveThemeInv ==
  ASSUME NEW b \in State, NEW K, NEW s, LoopInv(s, b, K), NEW t \in Tag, NEW merge,
         t \in ToSet(b.reg.themes) \/ Key(t) \in K
  PROVE  LoopInv(ResolveTheme(s, t, merge), b, K)
<1> DEFINE k == Key(t)
           theme == LookupTheme(s, k, merge)
           type == LookupType(s, k, merge)
           known == IF theme # None THEN theme ELSE type
           u == ResolveTheme(s, t, merge)
<1>1. /\ s \in State /\ s.reg \in Taxonomy /\ s.minted \in Mints /\ s.line \in Seq(Tag)
      /\ s.reg.themes \in Seq(Tag) /\ s.reg.types \in Seq(Tag) /\ k \in Tag
      /\ s.minted.themes \in Seq(Tag)
  BY KeyType DEF LoopInv, State, Taxonomy, Mints
<1>2. /\ theme \in Tag \cup {None} /\ (theme = None => k \notin Keys(s.reg.themes))
      /\ type \in Tag \cup {None} /\ (type = None => k \notin Keys(s.reg.types))
  BY <1>1, LookupForm DEF LookupTheme, LookupType
<1>3. CASE known # None
  <2>1. known \in Tag
    BY <1>2, <1>3
  <2>2. u = [s EXCEPT !.line = Append(@, known)]
    BY <1>3 DEF ResolveTheme
  <2>3. Append(s.line, known) \in Seq(Tag)
    BY <1>1, <2>1
  <2>4. u \in State /\ u.reg = s.reg /\ u.minted = s.minted
    BY <1>1, <2>2, <2>3 DEF State
  <2> QED BY <2>4 DEF LoopInv
<1>4. CASE known = None
  <2>1. u = [s EXCEPT !.line = Append(@, k), !.reg.themes = Append(@, k),
                      !.minted.themes = Append(@, k)]
    BY <1>4 DEF ResolveTheme, MintTheme
  <2>2. /\ u.reg = [s.reg EXCEPT !.themes = Append(@, k)]
        /\ u.minted = [s.minted EXCEPT !.themes = Append(@, k)]
        /\ u.line = Append(s.line, k)
        /\ u = [reg |-> u.reg, minted |-> u.minted, line |-> u.line]
    BY <1>1, <2>1 DEF State
  <2>3. PICK r \in Taxonomy, m \in Mints : r = s.reg /\ m = s.minted
    BY <1>1
  <2>4. r.themes \in Seq(Tag) /\ m.themes \in Seq(Tag)
    BY <1>1, <2>3
  <2>5. PICK rs \in Seq(Tag) : rs = Append(r.themes, k) /\ ToSet(rs) = ToSet(r.themes) \cup {k}
    BY <1>1, <2>4, MintThemeType, Zenon
  <2>6. PICK ms \in Seq(Tag) : ms = Append(m.themes, k) /\ ToSet(ms) = ToSet(m.themes) \cup {k}
    BY <1>1, <2>4, MintThemeType, Zenon
  <2>7. u.reg = [r EXCEPT !.themes = rs] /\ u.minted = [m EXCEPT !.themes = ms]
    BY <2>2, <2>3, <2>5, <2>6
  <2>8. /\ u.reg \in Taxonomy /\ u.reg.types = r.types /\ u.reg.by = r.by
        /\ u.reg.themes = rs
    BY <2>7 DEF Taxonomy
  <2>9. u.minted \in Mints /\ u.minted.themes = ms
    BY <2>7 DEF Mints
  <2>10. u.line \in Seq(Tag)
    BY <1>1, <2>2
  <2>11. u \in State
    BY <2>2, <2>8, <2>9, <2>10 DEF State
  <2>12. k \notin Keys(s.reg.themes) /\ k \notin Keys(b.reg.types)
    BY <1>2, <1>4 DEF LoopInv
  <2>13. t \notin ToSet(b.reg.themes)
    BY <2>12 DEF Keys, LoopInv
  <2> QED BY <2>3, <2>5, <2>6, <2>8, <2>9, <2>11, <2>12, <2>13 DEF LoopInv
<1> QED BY <1>3, <1>4

LEMMA ResolveTagInv ==
  ASSUME NEW b \in State, NEW K, NEW s, LoopInv(s, b, K), NEW t \in Tag,
         NEW entities, NEW guarded, NEW merge, Expected(t, entities, b, K)
  PROVE  LoopInv(ResolveTag(s, t, entities, guarded, merge), b, K)
BY ResolveEntityInv, ResolveThemeInv DEF ResolveTag, Expected

\* The states after each of the first n tags.
IsLoop(g, n, b, tags, entities, guarded, merge) ==
  g = [i \in 0 .. n |->
         IF i = 0 THEN b ELSE ResolveTag(g[i - 1], tags[i], entities, guarded, merge)]

LEMMA LoopExists ==
  ASSUME NEW b, NEW tags, NEW entities, NEW guarded, NEW merge, NEW n \in Nat
  PROVE  \E g : IsLoop(g, n, b, tags, entities, guarded, merge)
<1> DEFINE T == {m \in Nat : ~ \E g : IsLoop(g, m, b, tags, entities, guarded, merge)}
<1>1. SUFFICES ASSUME T # {} PROVE FALSE
  OBVIOUS
<1>2. PICK m \in T : \A y \in T : m <= y
  BY <1>1, LeastNat
<1>3. m # 0
  <2>1. IsLoop([i \in 0 .. 0 |-> b], 0, b, tags, entities, guarded, merge)
    BY DEF IsLoop
  <2> QED BY <1>2, <2>1
<1>4. PICK g : IsLoop(g, m - 1, b, tags, entities, guarded, merge)
  BY <1>2, <1>3
<1>5. g = [i \in 0 .. m - 1 |->
             IF i = 0 THEN b ELSE ResolveTag(g[i - 1], tags[i], entities, guarded, merge)]
  BY <1>4 DEF IsLoop
<1>6. PICK last : last = ResolveTag(g[m - 1], tags[m], entities, guarded, merge)
  OBVIOUS
<1> DEFINE h == [i \in 0 .. m |-> IF i = m THEN last ELSE g[i]]
<1>7. ASSUME NEW i \in 0 .. m
      PROVE  h[i] = IF i = 0 THEN b ELSE ResolveTag(h[i - 1], tags[i], entities, guarded, merge)
  <2>1. m \in Nat /\ (i # 0 => i - 1 \in 0 .. m - 1)
    BY <1>2
  <2>2. CASE i = m
    BY <1>3, <1>6, <2>1, <2>2
  <2>3. CASE i # m
    BY <1>5, <2>1, <2>3
  <2> QED BY <2>2, <2>3
<1>8. IsLoop(h, m, b, tags, entities, guarded, merge)
  BY <1>7 DEF IsLoop
<1> QED BY <1>2, <1>8

LEMMA ResolveAllLast ==
  ASSUME NEW b, NEW tags \in Seq(Tag), NEW entities, NEW guarded, NEW merge
  PROVE  \E g : /\ IsLoop(g, Len(tags), b, tags, entities, guarded, merge)
                /\ ResolveAll(b, tags, entities, guarded, merge) = g[Len(tags)]
<1> DEFINE g == CHOOSE f : IsLoop(f, Len(tags), b, tags, entities, guarded, merge)
<1>1. Len(tags) \in Nat
  OBVIOUS
<1>2. IsLoop(g, Len(tags), b, tags, entities, guarded, merge)
  BY <1>1, LoopExists
<1>3. ResolveAll(b, tags, entities, guarded, merge) = g[Len(tags)]
  BY DEF ResolveAll, IsLoop
<1> QED BY <1>2, <1>3

\* So the loop keeps what each of its turns keeps.
LEMMA ResolveAllInv ==
  ASSUME NEW b \in State, NEW K, LoopInv(b, b, K), NEW tags \in Seq(Tag),
         NEW entities, NEW guarded, NEW merge,
         \A i \in DOMAIN tags : Expected(tags[i], entities, b, K)
  PROVE  LoopInv(ResolveAll(b, tags, entities, guarded, merge), b, K)
<1>1. PICK g : /\ IsLoop(g, Len(tags), b, tags, entities, guarded, merge)
               /\ ResolveAll(b, tags, entities, guarded, merge) = g[Len(tags)]
  BY ResolveAllLast
<1>2. Len(tags) \in Nat
  OBVIOUS
<1>3. \A i \in 0 .. Len(tags) :
        g[i] = IF i = 0 THEN b ELSE ResolveTag(g[i - 1], tags[i], entities, guarded, merge)
  BY <1>1 DEF IsLoop
<1> DEFINE T == {m \in 0 .. Len(tags) : ~ LoopInv(g[m], b, K)}
<1>4. SUFFICES ASSUME ~ LoopInv(g[Len(tags)], b, K) PROVE FALSE
  BY <1>1
<1>5. PICK m \in T : \A y \in T : m <= y
  <2>1. T \subseteq Nat /\ Len(tags) \in T
    BY <1>2, <1>4
  <2> QED BY <2>1, LeastNat
<1>6. m # 0
  BY <1>2, <1>3, <1>5
<1>7. m \in 1 .. Len(tags) /\ m - 1 \in 0 .. Len(tags) /\ LoopInv(g[m - 1], b, K)
  BY <1>2, <1>5, <1>6
<1>8. tags[m] \in Tag /\ Expected(tags[m], entities, b, K)
  BY <1>7
<1>9. LoopInv(ResolveTag(g[m - 1], tags[m], entities, guarded, merge), b, K)
  BY <1>7, <1>8, ResolveTagInv
<1>10. g[m] = ResolveTag(g[m - 1], tags[m], entities, guarded, merge)
  BY <1>3, <1>6, <1>7
<1> QED BY <1>5, <1>9, <1>10
-----------------------------------------------------------------------------
(* The reply.                                                              *)

LEMMA SubsetToSeq ==
  ASSUME NEW S \in SUBSET Tag
  PROVE  SetToSeq(S) \in Seq(Tag) /\ ToSet(SetToSeq(S)) \subseteq S
<1>1. IsFiniteSet(S)
  BY FS_Subset, TaggingAssumption
<1>2. SetToSeq(S) \in Seq(S)
  BY <1>1, SetToSeqType
<1> QED BY <1>2, ToSetType, SeqMonotonic

LEMMA VocabularyType ==
  ASSUME TypeOK, NEW r \in Run, cached[r] # None
  PROVE  /\ cached[r] \in Taxonomy
         /\ cached[r].types \in Seq(Tag) /\ cached[r].themes \in Seq(Tag)
         /\ Vocabulary(r) \in Seq(Tag)
<1>1. cached[r] \in Taxonomy /\ reg[r] \in Taxonomy \cup {None}
  BY DEF TypeOK, Actor
<1> QED BY <1>1 DEF Vocabulary, Taxonomy

\* Whatever the reply, the array holds entities, themes of the vocabulary and a type
\* of the Vault, no others.
LEMMA ArraysType ==
  ASSUME TypeOK, NEW r \in Run, cached[r] # None, NEW array \in Arrays(r)
  PROVE  /\ array.tags \in Seq(Tag) /\ array.entities \in SUBSET Tag
         /\ \A i \in DOMAIN array.tags :
              \/ array.tags[i] \in array.entities
              \/ array.tags[i] \in ToSet(Vocabulary(r))
              \/ array.tags[i] \in ToSet(cached[r].types)
<1>1. PICK p \in Labelled \cup Repaired(r) :
        array = [tags |-> ArrayType(r, p) \o SetToSeq(ArrayThemes(r, p)) \o SetToSeq(Entities(p)),
                 entities |-> Entities(p)]
  BY DEF Arrays
<1>2. p.names \subseteq Tag
  <2>1. CASE p \in Labelled
    BY <2>1 DEF Labelled, UpTo, Tag
  <2>2. CASE p \in Repaired(r)
    <3>1. PICK tags \in UpTo(MaxProposed, Tag) \ {{}} :
            p \in Repair(tags, ToSet(cached[r].types), ToSet(Vocabulary(r)))
      BY <2>2 DEF Repaired
    <3>2. tags \subseteq Tag
      BY <3>1 DEF UpTo
    <3>3. PICK t : p = [type |-> t, themes |-> (tags \ {t}) \cap ToSet(Vocabulary(r)),
                        names |-> (tags \ {t}) \ ToSet(Vocabulary(r))]
      BY <3>1, Zenon DEF Repair
    <3> QED BY <3>2, <3>3
  <2> QED BY <1>1, <2>1, <2>2
<1>3. Entities(p) \in SUBSET Tag
  BY <1>2, TaggingAssumption DEF Entities, Tag
<1>4. /\ cached[r].types \in Seq(Tag) /\ Vocabulary(r) \in Seq(Tag)
  BY VocabularyType
<1>5. ArrayThemes(r, p) \subseteq ToSet(Vocabulary(r)) /\ ArrayThemes(r, p) \in SUBSET Tag
  BY <1>4, FirstType, ToSetType DEF ArrayThemes
<1>6. ArrayType(r, p) \in Seq(Tag) /\ ToSet(ArrayType(r, p)) \subseteq ToSet(cached[r].types)
  <2>1. CASE p.type \in ToSet(cached[r].types)
    <3>1. p.type \in Tag
      BY <1>4, <2>1, ToSetType
    <3>2. ArrayType(r, p) = <<p.type>>
      BY <2>1 DEF ArrayType
    <3> QED BY <2>1, <3>1, <3>2 DEF ToSet
  <2>2. CASE p.type \notin ToSet(cached[r].types)
    BY <1>4, <2>2, FirstType DEF ArrayType
  <2> QED BY <2>1, <2>2
<1>7. PICK s1, s2, s3 : s1 = ArrayType(r, p) /\ s2 = SetToSeq(ArrayThemes(r, p))
                        /\ s3 = SetToSeq(Entities(p))
  OBVIOUS
<1>8. /\ s1 \in Seq(Tag) /\ ToSet(s1) \subseteq ToSet(cached[r].types)
      /\ s2 \in Seq(Tag) /\ ToSet(s2) \subseteq ToSet(Vocabulary(r))
      /\ s3 \in Seq(Tag) /\ ToSet(s3) \subseteq Entities(p)
  BY <1>3, <1>5, <1>6, <1>7, SubsetToSeq
<1>9. PICK s12 : s12 = s1 \o s2
  OBVIOUS
<1>10. s12 \in Seq(Tag) /\ ToSet(s12) = ToSet(s1) \cup ToSet(s2)
  BY <1>8, <1>9, ToSetConcat
<1>11. s12 \o s3 \in Seq(Tag) /\ ToSet(s12 \o s3) = ToSet(s12) \cup ToSet(s3)
  BY <1>8, <1>10, ToSetConcat
<1>12. array.tags = s12 \o s3 /\ array.entities = Entities(p)
  BY <1>1, <1>7, <1>9
<1>13. \A i \in DOMAIN array.tags : array.tags[i] \in ToSet(array.tags)
  BY DEF ToSet
<1> QED BY <1>3, <1>8, <1>10, <1>11, <1>12, <1>13

\* What a run's registry and mints are after a reply.
LEMMA ResolveInv ==
  ASSUME TypeOK, StageInv, NEW r \in Run, cached[r] # None, reg[r] # None,
         NEW array \in Arrays(r), NEW merge, NEW s, s = Resolve(r, array, merge)
  PROVE  /\ s.reg \in Taxonomy /\ s.minted \in Mints /\ s.line \in Seq(Tag)
         /\ s.reg.types = reg[r].types
         /\ ToSet(s.minted.themes) \subseteq ToSet(s.reg.themes)
         /\ ToSet(s.minted.themes) \subseteq
              ToSet(minted[r].themes) \cup (Keys(cached[r].types) \ Keys(reg[r].types))
<1> DEFINE b == [reg |-> reg[r], minted |-> minted[r], line |-> <<>>]
           K == Keys(cached[r].types)
<1>1. r \in Actor /\ reg[r] \in Taxonomy /\ minted[r] \in Mints
  BY DEF TypeOK, Actor
<1>2. b \in State /\ b.reg = reg[r] /\ b.minted = minted[r]
  BY <1>1 DEF State
<1>3. LoopInv(b, b, K)
  BY <1>1, <1>2 DEF LoopInv, StageInv
<1>4. Vocabulary(r) = b.reg.themes
  BY DEF Vocabulary
<1>5. array.tags \in Seq(Tag)
  BY ArraysType
<1>6. ASSUME NEW i \in DOMAIN array.tags PROVE Expected(array.tags[i], array.entities, b, K)
  <2>1. \/ array.tags[i] \in array.entities
        \/ array.tags[i] \in ToSet(b.reg.themes)
        \/ array.tags[i] \in ToSet(cached[r].types)
    BY <1>4, ArraysType
  <2> QED BY <2>1 DEF Expected, Keys
<1>7. LoopInv(ResolveAll(b, array.tags, array.entities, Candidates(r, array), merge), b, K)
  BY <1>2, <1>3, <1>5, <1>6, ResolveAllInv
<1>8. LoopInv(s, b, K)
  BY <1>7 DEF Resolve
<1> QED BY <1>2, <1>8 DEF LoopInv, State
-----------------------------------------------------------------------------
(* The invariant: what leaves a part of it as it is, and the first state.  *)

LEMMA MintFrame ==
  ASSUME MintInv,
         \A r \in Run : minted'[r].themes # <<>> =>
           /\ minted'[r].themes = minted[r].themes
           /\ cached'[r] = cached[r] /\ reg'[r].types = reg[r].types
  PROVE  MintInv'
BY DEF MintInv

LEMMA PartFrame ==
  ASSUME PartInv, UNCHANGED <<part, draft>>,
         \A a \in Actor : pc'[a] = "replace" =>
           pc[a] = "replace" /\ reg'[a] = reg[a] /\ base'[a] = base[a] /\ minted'[a] = minted[a]
  PROVE  PartInv'
<1>1. ASSUME part' # None, NEW a, a = part'.by, a \in Actor, pc'[a] = "replace"
      PROVE  part' \in Written(a)'
  <2>1. part \in Written(a)
    BY <1>1 DEF PartInv
  <2>2. reg'[a] = reg[a] /\ base'[a] = base[a] /\ minted'[a] = minted[a]
    BY <1>1
  <2>3. Overwritten(a)' = Overwritten(a)
    BY <2>2 DEF Overwritten
  <2>4. Appended(a, base[a])' = Appended(a, base[a])
    BY <2>2 DEF Appended
  <2>5. Written(a)' = Written(a)
    BY <2>2, <2>3, <2>4 DEF Written
  <2>6. part' = part
    OBVIOUS
  <2> QED BY <2>1, <2>5, <2>6
<1> QED BY <1>1 DEF PartInv

LEMMA SavedFrame ==
  ASSUME SavedInv, UNCHANGED <<file, part>>,
         \A r \in Run : pc'[r] \notin Persisting /\ saved'[r] /\ minted'[r].themes # <<>> =>
           pc[r] \notin Persisting /\ saved[r] /\ minted'[r].themes = minted[r].themes
  PROVE  SavedInv'
BY DEF SavedInv

LEMMA TagSubsets ==
  /\ KnownTheme \X {"many"} \X {None} \in SUBSET Tag
  /\ NewTheme \X {"one"} \X {None} \in SUBSET Tag
  /\ TypeTag \in SUBSET Tag
BY DEF Tag, ThemeTag, Spelling

LEMMA NoMintsType ==
  NoMints \in Mints /\ NoMints.themes = <<>> /\ ToSet(<<>>) = {}
BY DEF NoMints, Mints, ToSet

LEMMA InitInv == Init => IInv
<1> SUFFICES ASSUME Init PROVE IInv
  OBVIOUS
<1>1. PICK layout, s1, s2 :
        /\ layout \in Layout
        /\ s1 = SetToSeq(KnownTheme \X {"many"} \X {None})
        /\ s2 = SetToSeq(TypeTag)
        /\ file = [themes |-> s1, types |-> s2, entities |-> {}, laid |-> layout, by |-> None]
  BY DEF Init
<1>2. s1 \in Seq(Tag) /\ s2 \in Seq(Tag)
  BY <1>1, TagSubsets, SubsetToSeq
<1>3. file \in Taxonomy
  BY <1>1, <1>2 DEF Taxonomy
<1>4. TypeOK
  BY <1>3, NoMintsType, TaggingAssumption DEF Init, TypeOK, Actor
<1>5. StageInv
  BY DEF Init, StageInv, Actor, Persisting
<1>6. MintInv /\ SavedInv
  BY NoMintsType DEF Init, MintInv, SavedInv, Actor
<1>7. PartInv
  BY DEF Init, PartInv
<1> QED BY <1>4, <1>5, <1>6, <1>7 DEF IInv
-----------------------------------------------------------------------------
(* The steps of a persist, by a run or by the entities command.            *)

LEMMA ReadInv ==
  ASSUME IInv, NEW a \in Actor, Read(a)
  PROVE  IInv'
<1>1. TypeOK'
  BY DEF IInv, TypeOK, Read, Goto, disk
<1>2. StageInv'
  BY DEF IInv, TypeOK, StageInv, Read, Goto, Persisting, Actor
<1>3. MintInv'
  BY MintFrame DEF IInv, Read
<1>4. PartInv'
  BY PartFrame DEF IInv, TypeOK, Read, Goto, disk
<1>5. SavedInv'
  BY SavedFrame DEF IInv, TypeOK, Read, Goto, disk, Persisting, Actor
<1> QED BY <1>1, <1>2, <1>3, <1>4, <1>5 DEF IInv

\* What may be written is a taxonomy, and holds the writer's mints.
LEMMA OverwrittenType ==
  ASSUME TypeOK, StageInv, NEW a \in Actor, reg[a] # None
  PROVE  /\ Overwritten(a) \in Taxonomy
         /\ Overwritten(a).by = a
         /\ ToSet(minted[a].themes) \subseteq ToSet(Overwritten(a).themes)
<1>1. reg[a] \in Taxonomy
  BY DEF TypeOK
<1>2. /\ Overwritten(a) \in Taxonomy /\ Overwritten(a).by = a
      /\ Overwritten(a).themes = reg[a].themes
  BY <1>1 DEF Overwritten, Taxonomy
<1> QED BY <1>2 DEF StageInv

LEMMA AppendedType ==
  ASSUME NEW a \in Actor, minted[a] \in Mints, NEW text \in Taxonomy
  PROVE  /\ Appended(a, text) \in Taxonomy
         /\ Appended(a, text).by = a
         /\ ToSet(minted[a].themes) \subseteq ToSet(Appended(a, text).themes)
         /\ IsPrefix(text.themes, Appended(a, text).themes)
         /\ Appended(a, text).types = text.types
         /\ text.entities \subseteq Appended(a, text).entities
<1>1. PICK m \in Mints : m = minted[a]
  OBVIOUS
<1>2. PICK themes : themes = text.themes \o m.themes
  OBVIOUS
<1>3. Appended(a, text) = [themes |-> themes, types |-> text.types,
                           entities |-> text.entities \cup m.entities,
                           laid |-> text.laid, by |-> a]
  BY <1>1, <1>2 DEF Appended
<1>4. /\ text.themes \in Seq(Tag) /\ text.types \in Seq(Tag) /\ text.entities \subseteq Tag
      /\ text.laid \in Layout /\ m.themes \in Seq(Tag) /\ m.entities \subseteq Tag
  BY DEF Taxonomy, Mints
<1>5. themes \in Seq(Tag) /\ ToSet(themes) = ToSet(text.themes) \cup ToSet(m.themes)
  BY <1>2, <1>4, ToSetConcat
<1>6. IsPrefix(text.themes, themes)
  BY <1>2, <1>4, PrefixConcat
<1>7. Appended(a, text) \in Taxonomy
  BY <1>3, <1>4, <1>5 DEF Taxonomy
<1> QED BY <1>1, <1>3, <1>5, <1>6, <1>7

LEMMA WrittenType ==
  ASSUME TypeOK, StageInv, NEW a \in Actor, reg[a] # None, NEW text \in Written(a)
  PROVE  /\ text \in Taxonomy
         /\ text.by = a
         /\ ToSet(minted[a].themes) \subseteq ToSet(text.themes)
<1>1. CASE text = Overwritten(a)
  BY <1>1, OverwrittenType
<1>2. CASE base[a] # None /\ text = Appended(a, base[a])
  <2>1. base[a] \in Taxonomy /\ minted[a] \in Mints
    BY <1>2 DEF TypeOK
  <2> QED BY <1>2, <2>1, AppendedType
<1> QED BY <1>1, <1>2 DEF Written

LEMMA WriteInv ==
  ASSUME IInv, NEW a \in Actor, Write(a)
  PROVE  IInv'
<1>0. reg[a] # None
  BY DEF IInv, StageInv, Write, Persisting
<1>1. TypeOK'
  BY <1>0, WrittenType DEF IInv, TypeOK, Write, Goto
<1>2. StageInv'
  BY DEF IInv, TypeOK, StageInv, Write, Goto, Persisting, Actor
<1>3. MintInv'
  BY MintFrame DEF IInv, Write
<1>4. PartInv'
  <2>1. Written(a)' = Written(a)
    BY DEF Write, Written, Overwritten, Appended
  <2>2. part'.by = a /\ part' \in Written(a)' /\ draft' = draft
    BY <1>0, <2>1, WrittenType DEF IInv, Write
  <2> QED BY <2>2 DEF IInv, PartInv
<1>5. SavedInv'
  <2>1. part'.by = a /\ pc'[a] = "replace"
    BY <1>0, WrittenType DEF IInv, TypeOK, Write, Goto
  <2>2. \A r \in Run : r # a => pc'[r] = pc[r]
    BY DEF IInv, TypeOK, Write, Goto, Actor
  <2> QED BY <2>1, <2>2 DEF IInv, SavedInv, Write, Persisting
<1> QED BY <1>1, <1>2, <1>3, <1>4, <1>5 DEF IInv

\* What a persist returns to leaves alone.
LEMMA ReturnFrame ==
  ASSUME IInv, NEW a \in Actor, pc[a] \in {"write", "replace"}, NEW ok \in BOOLEAN, Return(a, ok)
  PROVE  /\ pc' \in [Actor -> {"out", "bound", "ask", "read", "write", "replace", "check",
                               "floor", "done"}]
         /\ reg' \in [Actor -> Taxonomy \cup {None}] /\ minted' \in [Actor -> Mints]
         /\ base' \in [Actor -> Taxonomy \cup {None}] /\ saved' \in [Actor -> BOOLEAN]
         /\ pc'[a] \notin Persisting /\ saved'[a] = ok
         /\ \A b \in Actor \ {a} : /\ pc'[b] = pc[b] /\ reg'[b] = reg[b] /\ base'[b] = base[b]
                                   /\ minted'[b] = minted[b] /\ saved'[b] = saved[b]
         /\ \A r \in Run : reg'[r] = reg[r] /\ minted'[r] = minted[r]
         /\ StageInv' /\ MintInv'
<1>1. CASE a = Backfill
  <2>1. /\ pc' = [pc EXCEPT ![a] = "out"]
        /\ reg' = [reg EXCEPT ![a] = None]
        /\ minted' = [minted EXCEPT ![a] = NoMints]
        /\ base' = [base EXCEPT ![a] = None] /\ saved' = [saved EXCEPT ![a] = ok]
        /\ cached' = cached
    BY <1>1 DEF Return, Goto
  <2>2. /\ pc'[a] \notin Persisting
        /\ \A b \in Actor \ {a} : /\ pc'[b] = pc[b] /\ reg'[b] = reg[b] /\ base'[b] = base[b]
                                  /\ minted'[b] = minted[b] /\ saved'[b] = saved[b]
        /\ \A r \in Run : reg'[r] = reg[r] /\ minted'[r] = minted[r] /\ pc'[r] = pc[r]
    BY <1>1, <2>1, TaggingAssumption DEF IInv, TypeOK, Persisting, Actor
  <2>3. StageInv'
    BY <2>1, <2>2 DEF IInv, TypeOK, StageInv, Actor, Persisting
  <2>4. MintInv'
    BY <2>1, <2>2, MintFrame DEF IInv
  <2>5. /\ pc' \in [Actor -> {"out", "bound", "ask", "read", "write", "replace", "check",
                              "floor", "done"}]
        /\ reg' \in [Actor -> Taxonomy \cup {None}] /\ minted' \in [Actor -> Mints]
        /\ base' \in [Actor -> Taxonomy \cup {None}] /\ saved' \in [Actor -> BOOLEAN]
        /\ saved'[a] = ok
    BY <2>1, NoMintsType DEF IInv, TypeOK
  <2> QED BY <2>2, <2>3, <2>4, <2>5
<1>2. CASE a # Backfill
  <2>1. /\ pc' = [pc EXCEPT ![a] = "check"]
        /\ reg' = reg /\ minted' = minted
        /\ base' = [base EXCEPT ![a] = None] /\ saved' = [saved EXCEPT ![a] = ok]
        /\ cached' = cached
    BY <1>2 DEF Return, Goto
  <2>2. /\ pc'[a] \notin Persisting
        /\ \A b \in Actor \ {a} : /\ pc'[b] = pc[b] /\ reg'[b] = reg[b] /\ base'[b] = base[b]
                                  /\ minted'[b] = minted[b] /\ saved'[b] = saved[b]
    BY <2>1 DEF IInv, TypeOK, Persisting
  <2>3. StageInv'
    BY <2>1, <2>2 DEF IInv, TypeOK, StageInv, Actor, Persisting
  <2>4. MintInv'
    BY <2>1, MintFrame DEF IInv
  <2>5. /\ pc' \in [Actor -> {"out", "bound", "ask", "read", "write", "replace", "check",
                              "floor", "done"}]
        /\ reg' \in [Actor -> Taxonomy \cup {None}] /\ minted' \in [Actor -> Mints]
        /\ base' \in [Actor -> Taxonomy \cup {None}] /\ saved' \in [Actor -> BOOLEAN]
        /\ saved'[a] = ok
    BY <2>1 DEF IInv, TypeOK
  <2> QED BY <2>1, <2>2, <2>3, <2>4, <2>5
<1> QED BY <1>1, <1>2

LEMMA ReplaceInv ==
  ASSUME IInv, NEW a \in Actor, Replace(a)
  PROVE  IInv'
<1>0. pc[a] = "replace" /\ part # None /\ file' = part /\ part' = None /\ Return(a, TRUE)
  BY DEF Replace
<1>1. TypeOK'
  BY <1>0, ReturnFrame DEF IInv, TypeOK, Return
<1>2. StageInv' /\ MintInv'
  BY <1>0, ReturnFrame
<1>3. PartInv'
  BY <1>0 DEF IInv, PartInv, Return
<1>4. SavedInv'
  <2>1. SUFFICES ASSUME NEW r \in Run, pc'[r] \notin Persisting, saved'[r],
                        minted'[r].themes # <<>>, part.by = r
                 PROVE  ToSet(minted[r].themes) \subseteq ToSet(part.themes)
    BY <1>0, ReturnFrame DEF SavedInv
  <2>2. CASE r = a
    <3>1. part \in Written(a)
      BY <1>0, <2>1, <2>2 DEF IInv, PartInv
    <3>2. reg[a] # None
      BY <1>0 DEF IInv, StageInv, Persisting
    <3> QED BY <2>2, <3>1, <3>2, WrittenType DEF IInv
  <2>3. CASE r # a
    <3>1. pc'[r] = pc[r] /\ minted'[r] = minted[r] /\ saved'[r] = saved[r]
      BY <1>0, <2>3, ReturnFrame DEF Actor
    <3>2. pc[r] \notin Persisting /\ saved[r] /\ minted[r].themes # <<>>
      BY <2>1, <3>1
    <3> QED BY <1>0, <2>1, <3>2 DEF IInv, SavedInv
  <2> QED BY <2>2, <2>3
<1> QED BY <1>1, <1>2, <1>3, <1>4 DEF IInv

LEMMA PersistFailsInv ==
  ASSUME IInv, NEW a \in Actor, PersistFails(a)
  PROVE  IInv'
<1>0. pc[a] \in {"write", "replace"} /\ file' = file /\ part' = None /\ Return(a, FALSE)
  BY DEF PersistFails
<1>1. TypeOK'
  BY <1>0, ReturnFrame DEF IInv, TypeOK, Return
<1>2. StageInv' /\ MintInv'
  BY <1>0, ReturnFrame
<1>3. PartInv'
  BY <1>0 DEF IInv, PartInv, Return
<1>4. SavedInv'
  <2>1. SUFFICES ASSUME NEW r \in Run, pc'[r] \notin Persisting, saved'[r],
                        minted'[r].themes # <<>>, file # None, file.by = r
                 PROVE  ToSet(minted[r].themes) \subseteq ToSet(file.themes)
    BY <1>0, ReturnFrame DEF SavedInv
  <2>2. r # a
    BY <1>0, <2>1, ReturnFrame
  <2>3. pc[r] \notin Persisting /\ saved[r] /\ minted[r].themes # <<>>
    BY <1>0, <2>1, <2>2, ReturnFrame DEF Actor
  <2> QED BY <1>0, <2>1, <2>3 DEF IInv, SavedInv
<1> QED BY <1>1, <1>2, <1>3, <1>4 DEF IInv

-----------------------------------------------------------------------------
(* The steps of the stage.                                                 *)

LEMMA FinishInv ==
  ASSUME IInv, NEW r \in Run, NEW tail \in SUBSET Tag, Finish(r, tail)
  PROVE  IInv'
<1>1. TypeOK'
  BY NoMintsType, TaggingAssumption DEF IInv, TypeOK, Finish, Goto, Actor
<1>2. StageInv'
  BY DEF IInv, TypeOK, StageInv, Finish, Goto, Persisting, Actor
<1>3. \A b \in Actor : IF b = r THEN pc'[b] = "done" /\ minted'[b] = NoMints
        ELSE /\ pc'[b] = pc[b] /\ reg'[b] = reg[b] /\ base'[b] = base[b]
             /\ minted'[b] = minted[b] /\ saved'[b] = saved[b]
  BY DEF IInv, TypeOK, Finish, Goto, Actor
<1>4. \A q \in Run : q # r => cached'[q] = cached[q]
  BY DEF IInv, TypeOK, Finish
<1>5. MintInv'
  BY <1>3, <1>4, MintFrame, NoMintsType DEF IInv, Actor
<1>6. PartInv'
  BY <1>3, PartFrame DEF IInv, Finish
<1>7. SavedInv'
  BY <1>3, SavedFrame, NoMintsType DEF IInv, Finish, Actor
<1> QED BY <1>1, <1>2, <1>5, <1>6, <1>7 DEF IInv

\* A copy is a taxonomy again.
LEMMA LoadedType ==
  ASSUME NEW text \in Taxonomy \cup {None}
  PROVE  /\ Loaded(text) \in Taxonomy \cup {None}
         /\ text # None => Loaded(text) \in Taxonomy
<1>1. CASE text = None
  BY <1>1 DEF Loaded
<1>2. CASE text # None
  <2>1. PICK t \in Taxonomy : t = text
    BY <1>2
  <2>2. "lines" \in Layout /\ None \in Actor \cup {None}
    BY DEF Layout
  <2>3. [t EXCEPT !.laid = "lines", !.by = None] \in Taxonomy
    BY <2>2 DEF Taxonomy
  <2> QED BY <1>2, <2>1, <2>3 DEF Loaded
<1> QED BY <1>1, <1>2

LEMMA LoadVaultInv ==
  ASSUME IInv, NEW r \in Run, LoadVault(r)
  PROVE  IInv'
<1>0. pc[r] = "out" /\ reg[r] = None /\ minted[r] = NoMints
  BY DEF IInv, StageInv, LoadVault, Actor
<1>1. TypeOK'
  <2>1. Loaded(file) \in Taxonomy \cup {None}
    BY LoadedType DEF IInv, TypeOK
  <2> QED BY <2>1 DEF IInv, TypeOK, LoadVault, Goto, disk
<1>2. StageInv'
  <2>1. Loaded(file) # None
    BY LoadedType, TaggingAssumption DEF IInv, TypeOK, LoadVault
  <2> QED BY <2>1 DEF IInv, TypeOK, StageInv, LoadVault, Goto, Persisting, Actor
<1>3. MintInv'
  BY <1>0, MintFrame, NoMintsType DEF IInv, TypeOK, LoadVault
<1>4. PartInv'
  BY PartFrame DEF IInv, TypeOK, LoadVault, Goto, disk
<1>5. SavedInv'
  BY <1>0, SavedFrame, NoMintsType DEF IInv, TypeOK, LoadVault, Goto, disk, Actor
<1> QED BY <1>1, <1>2, <1>3, <1>4, <1>5 DEF IInv

LEMMA BeginInv ==
  ASSUME IInv, NEW r \in Run, Begin(r)
  PROVE  IInv'
<1>0. pc[r] = "bound" /\ reg[r] = None /\ minted[r] = NoMints
  BY DEF IInv, StageInv, Begin, Actor
<1>1. TypeOK'
  <2>1. 1 \in 0 .. Attempts
    BY TaggingAssumption
  <2>2. Loaded(file) \in Taxonomy \cup {None}
    BY LoadedType DEF IInv, TypeOK
  <2> QED BY <2>1, <2>2 DEF IInv, TypeOK, Begin, Goto, disk, Actor
<1>2. StageInv'
  BY <1>0, NoMintsType DEF IInv, TypeOK, StageInv, Begin, Goto, Persisting, Actor
<1>3. MintInv'
  BY <1>0, MintFrame, NoMintsType DEF IInv, TypeOK, Begin, Actor
<1>4. PartInv'
  BY PartFrame DEF IInv, TypeOK, Begin, Goto, disk, Actor
<1>5. SavedInv'
  BY <1>0, SavedFrame, NoMintsType DEF IInv, TypeOK, Begin, Goto, disk, Actor
<1> QED BY <1>1, <1>2, <1>3, <1>4, <1>5 DEF IInv

LEMMA NextAttemptType ==
  ASSUME TypeOK, NEW r \in Run, NextAttempt(r)
  PROVE  /\ attempt' \in [Run -> 0 .. Attempts]
         /\ \/ pc' = [pc EXCEPT ![r] = "ask"]
            \/ pc' = [pc EXCEPT ![r] = "floor"]
<1>1. attempt \in [Run -> 0 .. Attempts] /\ Attempts \in Nat
  BY TaggingAssumption DEF TypeOK
<1>2. CASE LastAttempt(r)
  BY <1>1, <1>2 DEF NextAttempt, Goto
<1>3. CASE ~ LastAttempt(r)
  <2>1. attempt[r] + 1 \in 0 .. Attempts
    BY <1>1, <1>3 DEF LastAttempt
  <2> QED BY <1>1, <1>3, <2>1 DEF NextAttempt, Goto
<1> QED BY <1>2, <1>3

\* The steps that only take a run to another place of the stage.
LEMMA MoveInv ==
  ASSUME IInv, NEW r \in Run, pc[r] \in {"ask", "check"},
         pc' = [pc EXCEPT ![r] = "ask"] \/ pc' = [pc EXCEPT ![r] = "floor"],
         attempt' \in [Run -> 0 .. Attempts], line' \in [Run -> Seq(Tag)],
         names' \in [Run -> SUBSET Tag],
         UNCHANGED <<disk, cached, reg, minted, base, saved>>
  PROVE  IInv'
<1>0. \A b \in Actor \ {r} : pc'[b] = pc[b]
  BY DEF IInv, TypeOK
<1>1. TypeOK'
  BY DEF IInv, TypeOK, disk
<1>2. StageInv'
  BY <1>0 DEF IInv, TypeOK, StageInv, Persisting, Actor
<1>3. MintInv'
  BY MintFrame DEF IInv
<1>4. PartInv'
  BY <1>0, PartFrame DEF IInv, TypeOK, disk
<1>5. SavedInv'
  BY <1>0, SavedFrame DEF IInv, TypeOK, disk, Persisting, Actor
<1> QED BY <1>1, <1>2, <1>3, <1>4, <1>5 DEF IInv

LEMMA AskInv ==
  ASSUME IInv, NEW r \in Run, TaggerFails(r) \/ Unparseable(r) \/ Refuse(r)
  PROVE  IInv'
<1>1. CASE TaggerFails(r)
  BY <1>1, MoveInv DEF TaggerFails, Goto, IInv, TypeOK
<1>2. CASE Unparseable(r)
  <2>1. NextAttempt(r) /\ pc[r] = "ask" /\ UNCHANGED <<disk, cached, reg, minted, base, saved, line, names>>
    BY <1>2 DEF Unparseable
  <2> QED BY <2>1, MoveInv, NextAttemptType DEF IInv, TypeOK
<1>3. CASE Refuse(r)
  <2>1. /\ NextAttempt(r) /\ pc[r] = "check"
        /\ line' = [line EXCEPT ![r] = <<>>] /\ names' = [names EXCEPT ![r] = {}]
        /\ UNCHANGED <<disk, cached, reg, minted, base, saved>>
    BY <1>3 DEF Refuse
  <2>2. line' \in [Run -> Seq(Tag)] /\ names' \in [Run -> SUBSET Tag]
    BY <2>1 DEF IInv, TypeOK
  <2> QED BY <2>1, <2>2, MoveInv, NextAttemptType DEF IInv
<1> QED BY <1>1, <1>2, <1>3

\* A reply without a registry changes neither the vocabulary nor the mints.
LEMMA ReplyInv ==
  ASSUME IInv, NEW r \in Run, Reply(r)
  PROVE  IInv'
<1>1. PICK array \in Arrays(r) :
        /\ names' = [names EXCEPT ![r] = array.entities]
        /\ IF reg[r] = None
             THEN /\ line' = [line EXCEPT ![r] = array.tags]
                  /\ Goto(r, "check")
                  /\ UNCHANGED <<reg, minted>>
             ELSE \E merge \in Merges(r, array) :
                    LET s == Resolve(r, array, merge) IN
                    /\ line' = [line EXCEPT ![r] = s.line]
                    /\ reg' = [reg EXCEPT ![r] = s.reg]
                    /\ minted' = [minted EXCEPT ![r] = s.minted]
                    /\ Goto(r, IF s.minted.themes = minted[r].themes THEN "check" ELSE "read")
  BY DEF Reply
<1>2. pc[r] = "ask" /\ UNCHANGED <<disk, cached, base, saved, attempt>>
  BY DEF Reply
<1>3. cached[r] # None /\ r \in Actor
  BY <1>2 DEF IInv, StageInv, Actor
<1>4. array.tags \in Seq(Tag) /\ array.entities \in SUBSET Tag
  BY <1>3, ArraysType DEF IInv
<1>5. names' \in [Run -> SUBSET Tag]
  BY <1>1, <1>4 DEF IInv, TypeOK
<1>6. CASE reg[r] = None
  <2>1. /\ line' = [line EXCEPT ![r] = array.tags] /\ pc' = [pc EXCEPT ![r] = "check"]
        /\ UNCHANGED <<reg, minted>>
    BY <1>1, <1>6 DEF Goto
  <2>2. \A b \in Actor \ {r} : pc'[b] = pc[b]
    BY <2>1 DEF IInv, TypeOK
  <2>3. TypeOK'
    BY <1>2, <1>4, <1>5, <2>1 DEF IInv, TypeOK, disk
  <2>4. StageInv'
    BY <1>2, <2>1, <2>2 DEF IInv, TypeOK, StageInv, Persisting, Actor
  <2>5. MintInv'
    BY <1>2, <2>1, MintFrame DEF IInv
  <2>6. PartInv'
    BY <1>2, <2>1, <2>2, PartFrame DEF IInv, TypeOK, disk
  <2>7. SavedInv'
    BY <1>2, <2>1, <2>2, SavedFrame DEF IInv, TypeOK, disk, Persisting, Actor
  <2> QED BY <2>3, <2>4, <2>5, <2>6, <2>7 DEF IInv
<1>7. CASE reg[r] # None
  <2>1. PICK merge, s :
          /\ s = Resolve(r, array, merge)
          /\ line' = [line EXCEPT ![r] = s.line]
          /\ reg' = [reg EXCEPT ![r] = s.reg]
          /\ minted' = [minted EXCEPT ![r] = s.minted]
          /\ Goto(r, IF s.minted.themes = minted[r].themes THEN "check" ELSE "read")
    BY <1>1, <1>7
  <2>2. /\ s.reg \in Taxonomy /\ s.minted \in Mints /\ s.line \in Seq(Tag)
        /\ s.reg.types = reg[r].types
        /\ ToSet(s.minted.themes) \subseteq ToSet(s.reg.themes)
        /\ ToSet(s.minted.themes) \subseteq
             ToSet(minted[r].themes) \cup (Keys(cached[r].types) \ Keys(reg[r].types))
    BY <1>3, <1>7, <2>1, ResolveInv DEF IInv
  <2>3. s.reg # None
    BY <2>2, TaggingAssumption
  <2>4. /\ pc' = [pc EXCEPT ![r] = IF s.minted.themes = minted[r].themes THEN "check" ELSE "read"]
        /\ reg'[r] = s.reg /\ minted'[r] = s.minted
        /\ pc'[r] = IF s.minted.themes = minted[r].themes THEN "check" ELSE "read"
        /\ \A b \in Actor \ {r} : pc'[b] = pc[b] /\ reg'[b] = reg[b] /\ minted'[b] = minted[b]
    BY <1>3, <2>1 DEF IInv, TypeOK, Goto
  <2>5. TypeOK'
    <3>1. /\ pc' \in [Actor -> {"out", "bound", "ask", "read", "write", "replace", "check",
                                "floor", "done"}]
          /\ reg' \in [Actor -> Taxonomy \cup {None}] /\ minted' \in [Actor -> Mints]
          /\ line' \in [Run -> Seq(Tag)]
      BY <2>1, <2>2, <2>4 DEF IInv, TypeOK
    <3> QED BY <1>2, <1>5, <3>1 DEF IInv, TypeOK, disk
  <2>6. StageInv'
    BY <1>2, <2>2, <2>3, <2>4 DEF IInv, StageInv, Persisting, Actor
  <2>7. MintInv'
    <3>1. ASSUME NEW q \in Run, q # r, minted'[q].themes # <<>>
          PROVE  ToSet(minted'[q].themes) \subseteq Keys(cached'[q].types) \ Keys(reg'[q].types)
      BY <1>2, <2>4, <3>1 DEF IInv, MintInv, Actor
    <3>2. ToSet(minted[r].themes) \subseteq Keys(cached[r].types) \ Keys(reg[r].types)
      BY NoMintsType DEF IInv, MintInv
    <3>3. ToSet(minted'[r].themes) \subseteq Keys(cached'[r].types) \ Keys(reg'[r].types)
      BY <1>2, <2>2, <2>4, <3>2
    <3> QED BY <3>1, <3>3 DEF MintInv
  <2>8. PartInv'
    BY <1>2, <2>4, PartFrame DEF IInv, disk
  <2>9. SavedInv'
    BY <1>2, <2>4, SavedFrame DEF IInv, disk, Persisting, Actor
  <2> QED BY <2>5, <2>6, <2>7, <2>8, <2>9 DEF IInv
<1> QED BY <1>6, <1>7

\* Whatever ends the stage leaves tags in the note.
LEMMA EndInv ==
  ASSUME IInv, NEW r \in Run, Accept(r) \/ Floor(r) \/ Stop(r)
  PROVE  IInv'
<1>1. ASSUME NEW tail, Finish(r, tail), tail \subseteq Tag PROVE IInv'
  BY <1>1, FinishInv
<1>2. CASE Accept(r)
  <2>1. line[r] \in Seq(Tag)
    BY DEF IInv, TypeOK
  <2>2. Len(line[r]) \in 0 .. Len(line[r]) /\ 2 \in Nat \ {0}
    BY <2>1
  <2>3. ToSet(SubSeq(line[r], 2, Len(line[r]))) \subseteq Tag
    BY <2>1, <2>2, SubSeqType, ToSetType
  <2> QED BY <1>1, <1>2, <2>3 DEF Accept
<1>3. CASE Floor(r)
  <2>1. cached[r] # None
    BY <1>3 DEF IInv, StageInv, Floor
  <2>2. ToSet(FirstN(1, cached[r].themes)) \subseteq Tag
    BY <2>1, VocabularyType, FirstType, ToSetType DEF IInv
  <2>3. FloorTags(r) \subseteq Tag
    BY <2>2, TaggingAssumption DEF FloorTags, Tag
  <2> QED BY <1>1, <1>3, <2>3 DEF Floor
<1>4. CASE Stop(r)
  BY <1>1, <1>4 DEF Stop
<1> QED BY <1>2, <1>3, <1>4
-----------------------------------------------------------------------------
(* The entities command and the user's editor.                             *)

\* The command resolves entities only.
LEMMA ScanType ==
  ASSUME IInv, file # None, NEW new \in SUBSET Tag, NEW s,
         s = ResolveAll([reg |-> Loaded(file), minted |-> NoMints, line |-> <<>>],
                        SetToSeq(new), new, {}, None)
  PROVE  /\ s.reg \in Taxonomy /\ s.minted \in Mints
         /\ ToSet(s.minted.themes) \subseteq ToSet(s.reg.themes)
<1> DEFINE b == [reg |-> Loaded(file), minted |-> NoMints, line |-> <<>>]
<1>1. Loaded(file) \in Taxonomy
  BY LoadedType DEF IInv, TypeOK
<1>2. b \in State /\ b.minted.themes = <<>>
  BY <1>1, NoMintsType DEF State
<1>3. LoopInv(b, b, {})
  BY <1>2, NoMintsType DEF LoopInv
<1>4. SetToSeq(new) \in Seq(Tag) /\ ToSet(SetToSeq(new)) \subseteq new
  BY SubsetToSeq
<1>5. \A i \in DOMAIN SetToSeq(new) : Expected(SetToSeq(new)[i], new, b, {})
  BY <1>4 DEF Expected, ToSet
<1>6. LoopInv(s, b, {})
  BY <1>2, <1>3, <1>4, <1>5, ResolveAllInv
<1> QED BY <1>6 DEF LoopInv, State

LEMMA ScanInv ==
  ASSUME IInv, Scan
  PROVE  IInv'
<1>1. PICK new, s :
        /\ new = VaultEntities \ file.entities
        /\ s = ResolveAll([reg |-> Loaded(file), minted |-> NoMints, line |-> <<>>],
                          SetToSeq(new), new, {}, None)
        /\ reg' = [reg EXCEPT ![Backfill] = s.reg]
        /\ minted' = [minted EXCEPT ![Backfill] = s.minted]
  BY DEF Scan
<1>2. /\ file # None /\ pc[Backfill] = "out" /\ pc' = [pc EXCEPT ![Backfill] = "read"]
      /\ UNCHANGED <<disk, cached, base, saved, attempt, line, names>>
  BY DEF Scan, Goto
<1>3. new \in SUBSET Tag
  BY <1>1 DEF VaultEntities, IInv, TypeOK
<1>4. /\ s.reg \in Taxonomy /\ s.minted \in Mints
      /\ ToSet(s.minted.themes) \subseteq ToSet(s.reg.themes)
  BY <1>1, <1>2, <1>3, ScanType
<1>5. s.reg # None
  BY <1>4, TaggingAssumption
<1>6. /\ Backfill \in Actor
      /\ pc'[Backfill] = "read" /\ reg'[Backfill] = s.reg /\ minted'[Backfill] = s.minted
      /\ \A b \in Actor \ {Backfill} :
           pc'[b] = pc[b] /\ reg'[b] = reg[b] /\ minted'[b] = minted[b]
      /\ Run = Actor \ {Backfill}
  BY <1>1, <1>2, TaggingAssumption DEF IInv, TypeOK, Actor
<1>7. TypeOK'
  <2>1. /\ pc' \in [Actor -> {"out", "bound", "ask", "read", "write", "replace", "check",
                              "floor", "done"}]
        /\ reg' \in [Actor -> Taxonomy \cup {None}] /\ minted' \in [Actor -> Mints]
    BY <1>1, <1>2, <1>4 DEF IInv, TypeOK
  <2> QED BY <1>2, <2>1 DEF IInv, TypeOK, disk
<1>8. StageInv'
  BY <1>2, <1>4, <1>5, <1>6 DEF IInv, StageInv, Persisting
<1>9. MintInv'
  BY <1>2, <1>6, MintFrame DEF IInv
<1>10. PartInv'
  BY <1>2, <1>6, PartFrame DEF IInv, disk
<1>11. SavedInv'
  BY <1>2, <1>6, SavedFrame DEF IInv, disk
<1> QED BY <1>7, <1>8, <1>9, <1>10, <1>11 DEF IInv

LEMMA StopScanInv ==
  ASSUME IInv, StopScan
  PROVE  IInv'
<1>1. /\ pc' = [pc EXCEPT ![Backfill] = "out"] /\ reg' = [reg EXCEPT ![Backfill] = None]
      /\ minted' = [minted EXCEPT ![Backfill] = NoMints]
      /\ base' = [base EXCEPT ![Backfill] = None]
      /\ UNCHANGED <<disk, cached, saved, attempt, line, names>>
  BY DEF StopScan, Goto
<1>2. /\ Backfill \in Actor
      /\ pc'[Backfill] = "out" /\ reg'[Backfill] = None /\ minted'[Backfill] = NoMints
      /\ \A b \in Actor \ {Backfill} :
           pc'[b] = pc[b] /\ reg'[b] = reg[b] /\ minted'[b] = minted[b] /\ base'[b] = base[b]
      /\ Run = Actor \ {Backfill}
  BY <1>1, TaggingAssumption DEF IInv, TypeOK, Actor
<1>3. TypeOK'
  BY <1>1, NoMintsType DEF IInv, TypeOK, disk
<1>4. StageInv'
  BY <1>1, <1>2 DEF IInv, StageInv, Persisting
<1>5. MintInv'
  BY <1>1, <1>2, MintFrame DEF IInv
<1>6. PartInv'
  BY <1>1, <1>2, PartFrame DEF IInv, disk
<1>7. SavedInv'
  BY <1>1, <1>2, SavedFrame DEF IInv, disk
<1> QED BY <1>3, <1>4, <1>5, <1>6, <1>7 DEF IInv

\* What the user leaves is a taxonomy again, and no run's.
LEMMA EditInv ==
  ASSUME IInv, Edit
  PROVE  IInv'
<1>1. /\ edits < MaxEdits /\ file # None /\ file' = None /\ edits' = edits + 1
      /\ UNCHANGED <<part, notes, stage>>
  BY DEF Edit
<1>2. PICK text \in Taxonomy : text = file
  BY <1>1 DEF IInv, TypeOK
<1>3. text.types \in Seq(Tag) /\ text.themes \in Seq(Tag)
  BY DEF Taxonomy
<1>4. draft' \in Taxonomy /\ draft'.by = None
  <2>0. PICK layout \in Layout :
          \/ \E m, n \in DOMAIN file.types :
               /\ m <= n
               /\ draft' = [file EXCEPT !.types = SubSeq(@, 1, m - 1) \o SubSeq(@, n + 1, Len(@)),
                                        !.laid = layout, !.by = None]
          \/ \E t \in (NewTheme \X {"one"} \X {None}) \ ToSet(file.themes) :
               draft' = [file EXCEPT !.themes = Append(@, t), !.laid = layout, !.by = None]
    BY DEF Edit
  <2>1. CASE \E m, n \in DOMAIN file.types :
               /\ m <= n
               /\ draft' = [file EXCEPT !.types = SubSeq(@, 1, m - 1) \o SubSeq(@, n + 1, Len(@)),
                                        !.laid = layout, !.by = None]
    <3>1. PICK m, n \in DOMAIN text.types :
            draft' = [text EXCEPT !.types = SubSeq(text.types, 1, m - 1)
                                              \o SubSeq(text.types, n + 1, Len(text.types)),
                                  !.laid = layout, !.by = None]
      BY <1>2, <2>1
    <3>2. /\ m - 1 \in 0 .. Len(text.types) /\ 1 \in Nat \ {0}
          /\ n + 1 \in Nat \ {0} /\ Len(text.types) \in 0 .. Len(text.types)
      BY <1>3
    <3>3. PICK left, right \in Seq(Tag) :
            /\ left = SubSeq(text.types, 1, m - 1)
            /\ right = SubSeq(text.types, n + 1, Len(text.types))
      BY <1>3, <3>2, SubSeqType
    <3>4. PICK types \in Seq(Tag) : types = left \o right
      BY ToSetConcat
    <3>5. draft' = [text EXCEPT !.types = types, !.laid = layout, !.by = None]
      BY <3>1, <3>3, <3>4
    <3> QED BY <3>5 DEF Taxonomy
  <2>2. CASE \E t \in (NewTheme \X {"one"} \X {None}) \ ToSet(file.themes) :
               draft' = [file EXCEPT !.themes = Append(@, t), !.laid = layout, !.by = None]
    <3>1. PICK t \in NewTheme \X {"one"} \X {None} :
            draft' = [file EXCEPT !.themes = Append(@, t), !.laid = layout, !.by = None]
      BY <2>2
    <3>2. t \in Tag /\ draft' = [text EXCEPT !.themes = Append(text.themes, t), !.laid = layout,
                                               !.by = None]
      BY <1>2, <3>1, TagSubsets
    <3>3. Append(text.themes, t) \in Seq(Tag)
      BY <1>3, <3>2, AppendProperties
    <3>4. PICK themes \in Seq(Tag) : themes = Append(text.themes, t)
      BY <3>3
    <3>5. draft' = [text EXCEPT !.themes = themes, !.laid = layout, !.by = None]
      BY <3>2, <3>4
    <3> QED BY <3>5 DEF Taxonomy
  <2> QED BY <2>0, <2>1, <2>2
<1>5. TypeOK'
  <2>1. edits' \in 0 .. MaxEdits
    BY <1>1, TaggingAssumption DEF IInv, TypeOK
  <2> QED BY <1>1, <1>4, <2>1 DEF IInv, TypeOK, stage
<1>6. StageInv' /\ MintInv'
  BY <1>1 DEF IInv, StageInv, MintInv, stage
<1>7. PartInv'
  BY <1>1, <1>4 DEF IInv, PartInv, stage, Written, Overwritten, Appended
<1>8. SavedInv'
  BY <1>1 DEF IInv, SavedInv, stage
<1> QED BY <1>5, <1>6, <1>7, <1>8 DEF IInv

LEMMA EditEndsInv ==
  ASSUME IInv, EditEnds
  PROVE  IInv'
<1>1. draft # None /\ file' = draft /\ draft' = None /\ UNCHANGED <<part, edits, notes, stage>>
  BY DEF EditEnds
<1>2. TypeOK'
  BY <1>1 DEF IInv, TypeOK, stage
<1>3. StageInv' /\ MintInv'
  BY <1>1 DEF IInv, StageInv, MintInv, stage
<1>4. PartInv'
  BY <1>1 DEF IInv, PartInv, stage, Written, Overwritten, Appended
<1>5. \A r \in Run : file'.by # r
  BY <1>1, TaggingAssumption DEF IInv, PartInv, Actor
<1>6. SavedInv'
  BY <1>1, <1>5 DEF IInv, SavedInv, stage
<1> QED BY <1>2, <1>3, <1>4, <1>6 DEF IInv
-----------------------------------------------------------------------------
(* The theorems.                                                           *)

LEMMA NextInv ==
  ASSUME IInv, [Next]_vars
  PROVE  IInv'
<1>1. ASSUME NEW r \in Run, Step(r) \/ Stop(r) PROVE IInv'
  <2>1. r \in Actor
    BY DEF Actor
  <2>2. CASE LoadVault(r) \/ Begin(r) \/ Reply(r)
    BY <2>2, LoadVaultInv, BeginInv, ReplyInv
  <2>3. CASE TaggerFails(r) \/ Unparseable(r) \/ Refuse(r)
    BY <2>3, AskInv
  <2>4. CASE Read(r) \/ Write(r) \/ Replace(r) \/ PersistFails(r)
    BY <2>1, <2>4, ReadInv, WriteInv, ReplaceInv, PersistFailsInv
  <2>5. CASE Accept(r) \/ Floor(r) \/ Stop(r)
    BY <2>5, EndInv
  <2> QED BY <1>1, <2>2, <2>3, <2>4, <2>5 DEF Step
<1>2. CASE Scan \/ StopScan
  BY <1>2, ScanInv, StopScanInv
<1>3. CASE Read(Backfill) \/ Write(Backfill) \/ Replace(Backfill) \/ PersistFails(Backfill)
  <2>1. Backfill \in Actor
    BY DEF Actor
  <2> QED BY <1>3, <2>1, ReadInv, WriteInv, ReplaceInv, PersistFailsInv
<1>4. CASE Edit \/ EditEnds
  BY <1>4, EditInv, EditEndsInv
<1>5. CASE UNCHANGED vars
  <2>1. TypeOK'
    BY <1>5 DEF IInv, TypeOK, vars, disk, stage
  <2>2. StageInv' /\ MintInv' /\ SavedInv'
    BY <1>5 DEF IInv, StageInv, MintInv, SavedInv, vars, disk, stage
  <2>3. PartInv'
    BY <1>5 DEF IInv, PartInv, Written, Overwritten, Appended, vars, disk, stage
  <2> QED BY <2>1, <2>2, <2>3 DEF IInv
<1> QED BY <1>1, <1>2, <1>3, <1>4, <1>5 DEF Next

\* The inductive invariant holds in every state.
THEOREM Invariant == Spec => []IInv
BY InitInv, NextInv, PTL DEF Spec

\* Whatever the taggers propose, and whoever else writes taxonomy.json, a run mints
\* as a theme only a type that its Vault has and its registry has lost
\* (assemble_tag_array, _resolve_tags_against_registry); with it, the types of the
\* variables.
THEOREM Closed == Spec => []OnlyStaleTypesMinted
<1>1. IInv => OnlyStaleTypesMinted
  BY NoMintsType DEF IInv, MintInv, OnlyStaleTypesMinted
<1> QED BY <1>1, Invariant, PTL

\* The part file that a writer is about to put in place of taxonomy.json holds all
\* that the writer read there (_surgical_persist), if what it read had its members on
\* lines of their own; the registry's copy, which lacks what was added since it was
\* loaded, is written over no such text (_fallback_persist).
THEOREM Surgical == Spec => []PersistKeeps
<1>1. ASSUME IInv, part # None, part.by \in Actor, pc[part.by] = "replace",
             base[part.by] # None, base[part.by].laid = "lines"
      PROVE  LET read == base[part.by] IN
             /\ IsPrefix(read.themes, part.themes)
             /\ part.types = read.types
             /\ read.entities \subseteq part.entities
  <2>1. PICK a \in Actor : a = part.by
    BY <1>1
  <2>2. part \in Written(a)
    BY <1>1, <2>1 DEF IInv, PartInv
  <2>3. minted[a] \in Mints /\ base[a] \in Taxonomy
    BY <1>1, <2>1 DEF IInv, TypeOK
  <2>4. part = Appended(a, base[a])
    BY <1>1, <2>1, <2>2 DEF Written
  <2> QED BY <2>1, <2>3, <2>4, AppendedType
<1>2. IInv => PersistKeeps
  BY <1>1 DEF PersistKeeps
<1> QED BY <1>2, Invariant, PTL

\* A line is validated against a taxonomy.json that has all the themes its run has
\* minted, those of earlier attempts too, when the run was the last to write it
\* (persist).
THEOREM ValidatedAfterMint == Spec => []MintedBeforeValidated
<1>1. IInv => MintedBeforeValidated
  <2>1. SUFFICES ASSUME IInv, NEW r \in Run, pc[r] = "check", saved[r], file # None,
                        file.by = r
                 PROVE  ToSet(minted[r].themes) \subseteq ToSet(file.themes)
    BY DEF MintedBeforeValidated
  <2>2. CASE minted[r].themes = <<>>
    BY <2>2, NoMintsType
  <2>3. CASE minted[r].themes # <<>>
    BY <2>1, <2>3 DEF IInv, SavedInv, Persisting
  <2> QED BY <2>2, <2>3
<1> QED BY <1>1, Invariant, PTL
=============================================================================
