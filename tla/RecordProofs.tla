----------------------------- MODULE RecordProofs -----------------------------
(***************************************************************************)
(* The order of the record, and what one MERGE does to the state, for any  *)
(* set of facts.                                                           *)
(***************************************************************************)
EXTENDS Record, FiniteSets, FiniteSetTheorems, WellFoundedInduction, TLAPS

-------------------------------------------------------------------------------
\* The order

LEMMA FactFields == ASSUME NEW f \in Fact PROVE f.batch \in Nat /\ f.row \in Nat /\ Ordering[f.row] \in Nat
  BY RecordAssumption DEF Fact

LEMMA BeatsAsymmetric ==
  ASSUME NEW f \in Fact, NEW g \in Fact, Beats(f, g)
  PROVE  ~Beats(g, f)
  BY FactFields DEF Beats

LEMMA BeatsTotal ==
  ASSUME NEW f \in Fact, NEW g \in Fact, f # g
  PROVE  Beats(f, g) \/ Beats(g, f)
<1>1. f.batch # g.batch \/ f.row # g.row  BY DEF Fact
<1> QED  BY <1>1, FactFields DEF Beats

LEMMA BeatsTransitive ==
  ASSUME NEW f \in Fact, NEW g \in Fact, NEW h \in Fact, Beats(f, g), Beats(g, h)
  PROVE  Beats(f, h)
  BY FactFields DEF Beats

-------------------------------------------------------------------------------
\* One MERGE

\* What a MERGE removes is replaced by a row that beats it.
LEMMA MergeReplaces ==
  ASSUME NEW S \in SUBSET Fact, NEW W \in SUBSET Fact, S = Winners(S),
         NEW f \in S, f \notin Merged(S, W)
  PROVE  \E w \in Merged(S, W) : SameDomain(f, w) /\ Beats(w, f)
<1>1. PICK w \in W : SameDomain(w, f) /\ Beats(w, f)  BY DEF Merged
<1>2. ASSUME NEW s \in S, SameDomain(w, s) PROVE Beats(w, s)
  <2>1. SameDomain(f, s) /\ SameDomain(s, f)  BY <1>1, <1>2 DEF SameDomain
  <2>2. ~Beats(f, s) /\ ~Beats(s, f)  BY <2>1 DEF Winners
  <2>3. s = f  BY <2>2, BeatsTotal
  <2> QED  BY <1>1, <2>3
<1>3. w \in Merged(S, W)  BY <1>2 DEF Merged
<1> QED  BY <1>1, <1>3 DEF SameDomain

\* Reduced facts that are merged into reduced rows absorb them: each row that
\* remains is unbeaten among the old rows and the new ones, and all of these
\* that are unbeaten remain.
LEMMA MergeAbsorbs ==
  ASSUME NEW S \in SUBSET Fact, NEW W \in SUBSET Fact, S = Winners(S), W = Winners(W)
  PROVE  Merged(S, W) = Winners(S \cup Merged(S, W))
<1> DEFINE M == Merged(S, W)
<1>1. M \subseteq S \cup W /\ M \subseteq Fact  BY DEF Merged
<1>2. ASSUME NEW f \in M, NEW g \in S \cup M, SameDomain(f, g), Beats(g, f) PROVE FALSE
  <2>1. g \in S \/ g \in W  BY <1>1
  <2>2. CASE f \in S /\ ~\E w \in W : SameDomain(w, f) /\ Beats(w, f)
    <3>1. g \notin W  BY <1>2, <2>2 DEF SameDomain
    <3> QED  BY <1>2, <2>1, <2>2, <3>1 DEF Winners
  <2>3. CASE f \in W /\ \A s \in S : SameDomain(f, s) => Beats(f, s)
    <3>1. g \notin S  BY <1>1, <1>2, <2>3, BeatsAsymmetric
    <3> QED  BY <1>2, <2>1, <2>3, <3>1 DEF Winners
  <2> QED  BY <2>2, <2>3 DEF Merged
<1>3. \A f \in S \ M : \E w \in M : SameDomain(f, w) /\ Beats(w, f)  BY MergeReplaces
<1> HIDE DEF M
<1>4. M \subseteq Winners(S \cup M)  BY <1>2 DEF Winners
<1>5. Winners(S \cup M) \subseteq M  BY <1>3 DEF Winners
<1> QED  BY <1>4, <1>5 DEF M

\* To reduce reduced rows changes nothing.
LEMMA WinnersIdempotent == ASSUME NEW F PROVE Winners(Winners(F)) = Winners(F)
  BY DEF Winners

LEMMA WinnersOfUnion == ASSUME NEW F, NEW M, M = Winners(F \cup M) PROVE M = Winners(M)
  BY DEF Winners

-------------------------------------------------------------------------------
\* What reducing and merging keep

\* For each of the facts F, A holds one of its domain that F does not beat.
Covers(A, F) == \A f \in F : \E a \in A : SameDomain(f, a) /\ ~Beats(f, a)

LEMMA CoversTransitive ==
  ASSUME NEW A \in SUBSET Fact, NEW B \in SUBSET Fact, NEW C \in SUBSET Fact,
         Covers(A, B), Covers(B, C)
  PROVE  Covers(A, C)
<1>1. ASSUME NEW c \in C PROVE \E a \in A : SameDomain(c, a) /\ ~Beats(c, a)
  <2>1. PICK b \in B : SameDomain(c, b) /\ ~Beats(c, b)  BY DEF Covers
  <2>2. PICK a \in A : SameDomain(b, a) /\ ~Beats(b, a)  BY DEF Covers
  <2>3. ~Beats(c, a)
    <3>1. c = b \/ Beats(b, c)  BY <2>1, BeatsTotal
    <3>2. b = a \/ Beats(a, b)  BY <2>2, BeatsTotal
    <3> QED  BY <2>1, <2>2, <3>1, <3>2, BeatsTransitive, BeatsAsymmetric
  <2> QED  BY <2>1, <2>2, <2>3 DEF SameDomain
<1> QED  BY <1>1 DEF Covers

\* Of finitely many facts the winners cover all: above each fact there is one
\* that no other of its domain beats, or the facts above would descend forever.
LEMMA WinnersCover ==
  ASSUME NEW F \in SUBSET Fact, IsFiniteSet(F)
  PROVE  Covers(Winners(F), F)
<1> DEFINE Above(g) == {h \in F : SameDomain(h, g) /\ Beats(h, g)}
<1>1. ASSUME NEW f \in F PROVE \E w \in Winners(F) : SameDomain(f, w) /\ ~Beats(f, w)
  <2> DEFINE D == {g \in F : SameDomain(f, g) /\ ~Beats(f, g)}
             A == {Above(g) : g \in D}
  <2>1. f \in D
    <3>1. ~Beats(f, f)  BY FactFields DEF Beats
    <3> QED  BY <3>1 DEF SameDomain
  <2>2. IsWellFoundedOn(StrictSubsetOrdering(F), SUBSET F)
    <3>1. FiniteSubsetsOf(F) = SUBSET F  BY FS_FiniteSubsetsOfFinite
    <3> QED  BY <3>1, FS_StrictSubsetOrderingWellFounded
  <2>3. A # {} /\ A \subseteq SUBSET F  BY <2>1
  <2> HIDE DEF A
  <2>4. PICK X \in A : \A Y \in A : <<Y, X>> \notin StrictSubsetOrdering(F)
    BY <2>2, <2>3, WFMin, Zenon
  <2>5. PICK m \in D : X = Above(m)  BY DEF A
  <2>6. ASSUME NEW h \in F, SameDomain(m, h), Beats(h, m) PROVE FALSE
    <3>1. SameDomain(f, h)  BY <2>5, <2>6 DEF SameDomain
    <3>2. ~Beats(f, h)  BY <2>5, <2>6, BeatsTransitive
    <3>3. Above(h) \in A  BY <3>1, <3>2 DEF A
    <3>4. Above(h) \subseteq Above(m)
      <4>1. ASSUME NEW k \in F, SameDomain(k, h), Beats(k, h)
            PROVE  SameDomain(k, m) /\ Beats(k, m)
        BY <2>6, <4>1, BeatsTransitive DEF SameDomain
      <4> QED  BY <4>1
    <3>5. h \in Above(m) /\ h \notin Above(h)
      BY <2>6, BeatsAsymmetric DEF SameDomain
    <3>6. Above(h) # Above(m)  BY <3>5
    <3>7. <<Above(h), X>> \in (SUBSET F) \X (SUBSET F)  BY <2>5
    <3> QED  BY <2>4, <2>5, <3>3, <3>4, <3>6, <3>7 DEF StrictSubsetOrdering
  <2>7. m \in Winners(F)  BY <2>6 DEF Winners
  <2> QED  BY <2>5, <2>7
<1> QED  BY <1>1 DEF Covers

\* Reduced facts of F that cover F are its winners.
LEMMA ReducedCover ==
  ASSUME NEW F \in SUBSET Fact, NEW S \in SUBSET F, S = Winners(S), Covers(S, F)
  PROVE  S = Winners(F)
<1>1. ASSUME NEW s \in S, NEW f \in F, SameDomain(s, f), Beats(f, s) PROVE FALSE
  <2>1. PICK a \in S : SameDomain(f, a) /\ ~Beats(f, a)  BY DEF Covers
  <2>2. a = f \/ Beats(a, f)  BY <2>1, BeatsTotal
  <2>3. Beats(a, s)  BY <1>1, <2>2, BeatsTransitive
  <2>4. SameDomain(s, a)  BY <1>1, <2>1 DEF SameDomain
  <2> QED  BY <2>3, <2>4 DEF Winners
<1>2. ASSUME NEW f \in Winners(F) PROVE f \in S
  <2>1. f \in F  BY DEF Winners
  <2>2. PICK a \in S : SameDomain(f, a) /\ ~Beats(f, a)  BY <2>1 DEF Covers
  <2>3. ~Beats(a, f)  BY <2>2 DEF Winners
  <2> QED  BY <2>1, <2>2, <2>3, BeatsTotal
<1>3. Winners(F) \subseteq S  BY <1>2
<1>4. S \subseteq Winners(F)  BY <1>1 DEF Winners
<1> QED  BY <1>3, <1>4

\* A MERGE covers the rows of the state and the rows merged.
LEMMA MergeCovers ==
  ASSUME NEW S \in SUBSET Fact, NEW W \in SUBSET Fact, S = Winners(S)
  PROVE  Covers(Merged(S, W), S \cup W)
<1> DEFINE M == Merged(S, W)
<1>1. M \subseteq Fact  BY DEF Merged
<1>2. \A f \in S \ M : \E w \in M : SameDomain(f, w) /\ Beats(w, f)  BY MergeReplaces
<1>3. \A f \in Fact : SameDomain(f, f) /\ ~Beats(f, f)
  BY BeatsAsymmetric DEF SameDomain
<1>4. ASSUME NEW f \in S PROVE \E m \in M : SameDomain(f, m) /\ ~Beats(f, m)
  BY <1>1, <1>2, <1>3, BeatsAsymmetric
<1>5. ASSUME NEW f \in W, f \notin M PROVE \E m \in M : SameDomain(f, m) /\ ~Beats(f, m)
  <2>1. PICK s \in S : SameDomain(f, s) /\ ~Beats(f, s)  BY <1>5 DEF Merged
  <2>2. CASE s \in M  BY <2>1, <2>2
  <2>3. CASE s \notin M
    <3>1. PICK w \in M : SameDomain(s, w) /\ Beats(w, s)  BY <1>2, <2>3
    <3>2. f = s \/ Beats(s, f)  BY <2>1, BeatsTotal
    <3>3. Beats(w, f)  BY <1>1, <3>1, <3>2, BeatsTransitive
    <3>4. SameDomain(f, w)  BY <2>1, <3>1 DEF SameDomain
    <3> QED  BY <1>1, <3>3, <3>4, BeatsAsymmetric
  <2> QED  BY <2>2, <2>3
<1> HIDE DEF M
<1>6. \A f \in S \cup W : \E m \in M : SameDomain(f, m) /\ ~Beats(f, m)
  BY <1>3, <1>4, <1>5
<1> QED  BY <1>6 DEF Covers, M

================================================================================
