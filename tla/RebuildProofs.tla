----------------------------- MODULE RebuildProofs -----------------------------
(***************************************************************************)
(* What is proved of Rebuild, for any number of batches and rebuilds: no   *)
(* committed fold is lost, and the state converges.                        *)
(***************************************************************************)
EXTENDS Rebuild, RecordProofs

-------------------------------------------------------------------------------
\* The invariant

Folded == {f \in facts : f.batch \in folded}

\* A fold that is still valid would merge what its batch committed into the
\* state as it is.
FoldOK(b) ==
  /\ batch[b].base \in Nat /\ batch[b].base <= version
  /\ batch[b].rows \subseteq facts /\ Own(b) # {}
  /\ batch[b].base = version => batch[b].rows = Merged(state, Winners(Own(b)))

\* The rows of a swap that is still valid cover the state it replaces: they were
\* computed after the state was captured, from facts that contain it.
RebuildOK(r) ==
  /\ rebuild[r].pc \in {"pin", "swap"} => rebuild[r].before <= version
  /\ rebuild[r].pc = "swap" => rebuild[r].rows = Winners(rebuild[r].rows)
  /\ rebuild[r].pc = "swap" /\ rebuild[r].before = version => Covers(rebuild[r].rows, state)

StateOK ==
  /\ facts \subseteq Fact /\ IsFiniteSet(facts)
  /\ state \subseteq facts /\ state = Winners(state)
  /\ version \in Nat /\ lineage \in BOOLEAN
  /\ folded \subseteq Batch /\ \A b \in folded : Own(b) # {}
  /\ tries \in [Batch -> Nat]
  /\ Covers(state, Folded)

FoldsOK ==
  /\ batch = [b \in Batch |-> batch[b]]
  /\ \A b \in Batch : batch[b] # None => FoldOK(b)

RebuildState == [pc : {"start", "capture", "pin", "swap", "done", "failed"},
                 before : Nat, rows : SUBSET facts, tries : Nat]

RebuildsOK ==
  /\ rebuild \in [Rebuilder -> RebuildState]
  /\ \A r \in Rebuilder : RebuildOK(r)

RebuildInv == StateOK /\ FoldsOK /\ RebuildsOK

LEMMA RebuildInvTypeOK == RebuildInv => TypeOK
  BY DEF RebuildInv, StateOK, FoldsOK, FoldOK, RebuildsOK, RebuildState, TypeOK

LEMMA RebuildInvConverges == RebuildInv => NoFoldLost /\ Converges
<1> SUFFICES ASSUME RebuildInv PROVE NoFoldLost /\ Converges  OBVIOUS
<1>1. NoFoldLost  BY DEF RebuildInv, StateOK, Covers, Folded, NoFoldLost
<1>2. ASSUME \A f \in facts : f.batch \in folded PROVE state = Winners(facts)
  <2>1. Folded = facts  BY <1>2 DEF Folded
  <2>2. Covers(state, facts)  BY <2>1 DEF RebuildInv, StateOK
  <2> QED  BY <2>2, ReducedCover DEF RebuildInv, StateOK
<1> QED  BY <1>1, <1>2 DEF Converges

LEMMA InitRebuildInv == RebuildInit => RebuildInv
<1> SUFFICES ASSUME RebuildInit PROVE RebuildInv  OBVIOUS
<1>1. IsFiniteSet({})  BY FS_EmptySet
<1>2. StateOK  BY <1>1 DEF RebuildInit, Init, StateOK, Winners, Covers, Folded
<1>3. FoldsOK  BY DEF RebuildInit, FoldsOK
<1>4. RebuildsOK  BY DEF RebuildInit, Init, RebuildsOK, RebuildOK, RebuildState
<1> QED  BY <1>2, <1>3, <1>4 DEF RebuildInv

-------------------------------------------------------------------------------
\* Commits to the state table

LEMMA FoldsStay ==
  ASSUME FoldsOK, UNCHANGED <<batch, facts, state, version>>
  PROVE  FoldsOK'
  BY DEF FoldsOK, FoldOK, Own, Winners, Merged, SameDomain, Table, Beats

LEMMA RebuildsStay ==
  ASSUME RebuildsOK, UNCHANGED <<rebuild, facts, state, version>>
  PROVE  RebuildsOK'
  BY DEF RebuildsOK, RebuildOK, RebuildState, Winners, Covers, SameDomain, Table, Beats

LEMMA StateStays ==
  ASSUME StateOK, UNCHANGED <<facts, state, version, folded>>, lineage' \in BOOLEAN,
         tries' \in [Batch -> Nat]
  PROVE  StateOK'
  BY DEF StateOK, Own, Winners, Covers, Folded, SameDomain, Table, Beats

\* A reduced set of facts that covers the state replaces it: this is an
\* absorption, and what read the table before is no longer valid, unless the
\* commit changed nothing.
LEMMA Replaced ==
  ASSUME StateOK, NEW rows \in SUBSET facts, rows = Winners(rows), Covers(rows, state),
         Replace(rows), facts' = facts
  PROVE  /\ Absorb
         /\ version' \in Nat /\ version <= version' /\ lineage' \in BOOLEAN
         /\ version' = version => state' = state
<1>1. state \subseteq Fact /\ rows \subseteq Fact  BY DEF StateOK
<1>2. Covers(rows, state \cup rows)
  <2>1. \A f \in rows : SameDomain(f, f) /\ ~Beats(f, f)
    BY <1>1, BeatsAsymmetric DEF SameDomain
  <2> QED  BY <2>1 DEF Covers
<1>3. rows = Winners(state \cup rows)  BY <1>1, <1>2, ReducedCover
<1>4. state' = rows  BY DEF Replace
<1>5. state' = Winners(state \cup state')  BY <1>3, <1>4
<1>6. Absorb  BY <1>4, <1>5 DEF Absorb
<1>7. version \in Nat  BY DEF StateOK
<1> QED  BY <1>6, <1>7 DEF Replace

\* What is pending stays valid only against a state that did not change.
LEMMA FoldsSurvive ==
  ASSUME StateOK, FoldsOK, NEW b \in Batch, batch' = [batch EXCEPT ![b] = None], facts' = facts,
         version' \in Nat, version <= version', version' = version => state' = state
  PROVE  FoldsOK'
<1>1. ASSUME NEW c \in Batch, batch'[c] # None PROVE FoldOK(c)'
  <2>1. batch'[c] = batch[c] /\ batch[c] # None  BY <1>1 DEF FoldsOK
  <2>2. FoldOK(c)  BY <2>1 DEF FoldsOK
  <2>3. version \in Nat  BY DEF StateOK
  <2> QED  BY <2>1, <2>2, <2>3 DEF FoldOK, Own
<1> QED  BY <1>1 DEF FoldsOK

LEMMA RebuildsSurvive ==
  ASSUME StateOK, RebuildsOK, rebuild' = rebuild, facts' = facts,
         version' \in Nat, version <= version', version' = version => state' = state
  PROVE  RebuildsOK'
<1>1. ASSUME NEW r \in Rebuilder PROVE RebuildOK(r)'
  <2>1. RebuildOK(r) /\ rebuild[r].before \in Nat /\ version \in Nat
    BY DEF RebuildsOK, RebuildState, StateOK
  <2> QED  BY <2>1 DEF RebuildOK
<1> QED  BY <1>1 DEF RebuildsOK, RebuildState

-------------------------------------------------------------------------------
\* The live batches

LEMMA AppendBatchStep ==
  ASSUME RebuildInv, NEW b \in Batch, AppendBatch(b)
  PROVE  RebuildInv' /\ Next
<1> DEFINE new == {[batch |-> b, row |-> r] : r \in RowsOf[b]}
<1>1. /\ Own(b) = {} /\ facts' = facts \cup new
      /\ UNCHANGED <<state, version, lineage, batch, folded, tries, rebuild>>
  BY DEF AppendBatch, Own
<1>2. \A f \in new : f \in Fact /\ f.batch = b  BY RebuildAssumption DEF Fact
<1>3. IsFiniteSet(new)
  <2> DEFINE f == [r \in RowsOf[b] |-> [batch |-> b, row |-> r]]
  <2>1. f \in Surjection(RowsOf[b], new)  BY DEF Surjection
  <2>2. IsFiniteSet(RowsOf[b])  BY RebuildAssumption
  <2> QED  BY <2>1, <2>2, FS_Surjection
<1>4. new # {}
  <2>1. RowsOf[b] # {}  BY RebuildAssumption
  <2> QED  BY <2>1
<1> HIDE DEF new
<1>5. b \notin folded  BY <1>1 DEF RebuildInv, StateOK
<1>6. \A c \in Batch : Own(c) \subseteq Own(c)' /\ (Own(c) # {} => Own(c)' = Own(c))
  BY <1>1, <1>2 DEF Own
<1>7. StateOK'
  <2>1. Folded' = Folded  BY <1>1, <1>2, <1>5 DEF Folded
  <2>2. IsFiniteSet(facts')  BY <1>1, <1>3, FS_Union DEF RebuildInv, StateOK
  <2>3. \A c \in folded : Own(c)' # {}  BY <1>6 DEF RebuildInv, StateOK
  <2> QED
    BY <1>1, <1>2, <2>1, <2>2, <2>3 DEF RebuildInv, StateOK
<1>8. FoldsOK'
  <2>1. ASSUME NEW c \in Batch, batch'[c] # None PROVE FoldOK(c)'
    <3>1. FoldOK(c) /\ batch' = batch  BY <1>1, <2>1 DEF RebuildInv, FoldsOK
    <3>2. Own(c)' = Own(c)  BY <1>6, <3>1 DEF FoldOK
    <3> QED  BY <1>1, <3>1, <3>2 DEF FoldOK
  <2> QED  BY <1>1, <2>1 DEF RebuildInv, FoldsOK
<1>9. RebuildsOK'
  BY <1>1 DEF RebuildInv, RebuildsOK, RebuildOK, RebuildState
<1>10. Commit
  <2>1. facts' \ facts = new  BY <1>1, <1>2 DEF Own
  <2>2. PICK n \in new : TRUE  BY <1>4
  <2>3. n.batch = b  BY <1>2
  <2>4. FactsOf(n.batch, Table(n)) = {}  BY <1>1, <2>3 DEF FactsOf, Own
  <2>5. \A f, g \in new : Table(f) = Table(g)
    BY <1>2, RebuildAssumption DEF Table, Fact
  <2> QED  BY <1>1, <1>2, <1>4, <2>1, <2>2, <2>4, <2>5 DEF Commit
<1> QED  BY <1>7, <1>8, <1>9, <1>10 DEF RebuildInv, Next

LEMMA ScanStep ==
  ASSUME RebuildInv, NEW b \in Batch, Scan(b)
  PROVE  RebuildInv' /\ UNCHANGED <<facts, state>>
<1> DEFINE rows == Merged(state, Winners(Own(b)))
           s == [base |-> version, rows |-> rows]
<1>1. /\ Own(b) # {} /\ batch' = [batch EXCEPT ![b] = s]
      /\ UNCHANGED <<facts, state, version, lineage, folded, rebuild>>
  BY DEF Scan
<1>2. rows \subseteq facts  BY DEF RebuildInv, StateOK, Merged, Winners, Own
<1>3. tries' \in [Batch -> Nat]  BY DEF Scan, RebuildInv, StateOK
<1>4. StateOK'  BY <1>1, <1>3, StateStays DEF RebuildInv, StateOK
<1>5. RebuildsOK'  BY <1>1, RebuildsStay DEF RebuildInv
<1>6. ASSUME NEW c \in Batch, batch'[c] # None PROVE FoldOK(c)'
  <2>1. CASE c = b
    <3>1. batch'[c].base = version /\ batch'[c].rows = rows
      BY <1>1, <2>1 DEF RebuildInv, FoldsOK
    <3>2. Own(c)' = Own(b)  BY <1>1, <2>1 DEF Own
    <3>3. version \in Nat  BY DEF RebuildInv, StateOK
    <3> QED  BY <1>1, <1>2, <3>1, <3>2, <3>3 DEF FoldOK
  <2>2. CASE c # b
    <3>1. batch'[c] = batch[c]  BY <1>1, <2>2 DEF RebuildInv, FoldsOK
    <3>2. FoldOK(c)  BY <1>6, <3>1 DEF RebuildInv, FoldsOK
    <3> QED  BY <1>1, <3>1, <3>2 DEF FoldOK, Own
  <2> QED  BY <2>1, <2>2
<1>7. FoldsOK'  BY <1>1, <1>6 DEF RebuildInv, FoldsOK
<1> QED  BY <1>1, <1>4, <1>5, <1>7 DEF RebuildInv

\* The merged rows cover the state and what the batch committed.
LEMMA MergeStep ==
  ASSUME RebuildInv, NEW b \in Batch, Merge(b)
  PROVE  RebuildInv' /\ Next
<1> DEFINE W == Winners(Own(b))
           rows == batch[b].rows
<1>1. /\ batch[b] # None /\ batch[b].base = version /\ Replace(rows)
      /\ folded' = folded \cup {b} /\ batch' = [batch EXCEPT ![b] = None]
      /\ UNCHANGED <<facts, tries, rebuild>>
  BY DEF Merge
<1>2. /\ facts \subseteq Fact /\ state \subseteq facts /\ state = Winners(state)
      /\ IsFiniteSet(facts) /\ StateOK
  BY DEF RebuildInv, StateOK
<1>3. rows \subseteq facts /\ rows = Merged(state, W) /\ Own(b) # {}
  BY <1>1 DEF RebuildInv, FoldsOK, FoldOK
<1>4. Own(b) \subseteq facts /\ W \subseteq Own(b) /\ IsFiniteSet(Own(b))
  BY <1>2, FS_Subset DEF Own, Winners
<1>5. W = Winners(W)  BY WinnersIdempotent
<1>6. Covers(W, Own(b))  BY <1>2, <1>4, WinnersCover
<1> HIDE DEF W, rows
<1>7. Covers(rows, state \cup W)  BY <1>2, <1>3, <1>4, MergeCovers
<1>8. Covers(rows, state) /\ Covers(rows, W)  BY <1>7 DEF Covers
<1>9. Covers(rows, Own(b))  BY <1>2, <1>3, <1>4, <1>6, <1>8, CoversTransitive
<1>10. rows = Winners(rows)
  <2>1. rows = Winners(state \cup rows)  BY <1>2, <1>3, <1>4, <1>5, MergeAbsorbs
  <2> QED  BY <2>1, WinnersOfUnion
<1>11. /\ Absorb /\ version' \in Nat /\ version <= version' /\ lineage' \in BOOLEAN
       /\ version' = version => state' = state
  BY <1>1, <1>2, <1>3, <1>8, <1>10, Replaced
<1>12. StateOK'
  <2>1. state' = rows  BY <1>1 DEF Replace
  <2>2. Folded' \subseteq Folded \cup Own(b)  BY <1>1 DEF Folded, Own
  <2>3. Covers(rows, Folded)
    <3>1. Covers(state, Folded) /\ Folded \subseteq Fact  BY <1>2 DEF StateOK, Folded
    <3> QED  BY <1>2, <1>3, <1>8, <3>1, CoversTransitive
  <2>4. Covers(rows, Folded')  BY <1>9, <2>2, <2>3 DEF Covers
  <2>5. \A c \in folded' : Own(c)' # {}  BY <1>1, <1>2, <1>3 DEF StateOK, Own
  <2> QED  BY <1>1, <1>2, <1>3, <1>10, <1>11, <2>1, <2>4, <2>5 DEF StateOK
<1>13. FoldsOK'  BY <1>1, <1>2, <1>11, FoldsSurvive DEF RebuildInv
<1>14. RebuildsOK'  BY <1>1, <1>2, <1>11, RebuildsSurvive DEF RebuildInv
<1> QED  BY <1>11, <1>12, <1>13, <1>14 DEF RebuildInv, Next

LEMMA MergeFailsStep ==
  ASSUME RebuildInv, NEW b \in Batch, MergeFails(b)
  PROVE  RebuildInv' /\ UNCHANGED <<facts, state>>
<1>1. /\ batch' = [batch EXCEPT ![b] = None]
      /\ UNCHANGED <<facts, state, version, lineage, folded, tries, rebuild>>
  BY DEF MergeFails
<1>2. StateOK /\ FoldsOK /\ RebuildsOK  BY DEF RebuildInv
<1>3. /\ version' \in Nat /\ version <= version'
      /\ lineage' \in BOOLEAN /\ tries' \in [Batch -> Nat]
  BY <1>1, <1>2 DEF StateOK
<1>4. FoldsOK'  BY <1>1, <1>2, <1>3, FoldsSurvive
<1>5. StateOK' /\ RebuildsOK'  BY <1>1, <1>2, <1>3, StateStays, RebuildsStay
<1> QED  BY <1>1, <1>4, <1>5 DEF RebuildInv

-------------------------------------------------------------------------------
\* The rebuilds

\* A step that only moves rebuild r.
LEMMA RebuildMoves ==
  ASSUME RebuildInv, NEW r \in Rebuilder,
         NEW s \in RebuildState,
         rebuild' = [rebuild EXCEPT ![r] = s],
         s.pc \in {"pin", "swap"} => s.before <= version,
         s.pc = "swap" => s.rows = Winners(s.rows) /\ Covers(s.rows, state),
         lineage' \in BOOLEAN, UNCHANGED <<facts, state, version, batch, folded, tries>>
  PROVE  RebuildInv'
<1>1. StateOK' /\ FoldsOK'
  BY StateStays, FoldsStay DEF RebuildInv, StateOK
<1>2. ASSUME NEW q \in Rebuilder PROVE RebuildOK(q)'
  <2>1. CASE q = r
    <3>1. rebuild'[q] = s  BY <2>1 DEF RebuildInv, RebuildsOK
    <3> QED  BY <3>1 DEF RebuildOK
  <2>2. CASE q # r
    <3>1. rebuild'[q] = rebuild[q] /\ RebuildOK(q)  BY <2>2 DEF RebuildInv, RebuildsOK
    <3> QED  BY <3>1 DEF RebuildOK
  <2> QED  BY <2>1, <2>2
<1>3. RebuildsOK'  BY <1>2 DEF RebuildInv, RebuildsOK, RebuildState
<1> QED  BY <1>1, <1>3 DEF RebuildInv

LEMMA SeedStep ==
  ASSUME RebuildInv, NEW r \in Rebuilder, Seed(r)
  PROVE  RebuildInv' /\ UNCHANGED <<facts, state>>
<1> DEFINE s == [rebuild[r] EXCEPT !.pc = "capture"]
<1>1. /\ s \in RebuildState
      /\ s.pc = "capture" /\ rebuild' = [rebuild EXCEPT ![r] = s]
  BY DEF Seed, RebuildInv, RebuildsOK, RebuildState
<1> HIDE DEF s
<1> QED  BY <1>1, RebuildMoves DEF Seed

LEMMA CaptureStep ==
  ASSUME RebuildInv, NEW r \in Rebuilder, Capture(r)
  PROVE  RebuildInv' /\ UNCHANGED <<facts, state>>
<1> DEFINE s == [rebuild[r] EXCEPT !.pc = "pin", !.before = version]
<1>1. version \in Nat /\ lineage \in BOOLEAN  BY DEF RebuildInv, StateOK
<1>2. rebuild[r] \in RebuildState /\ rebuild' = [rebuild EXCEPT ![r] = s]
  BY DEF Capture, RebuildInv, RebuildsOK
<1>3. s \in RebuildState /\ s.pc = "pin" /\ s.before = version
  BY <1>1, <1>2, Zenon DEF RebuildState
<1> HIDE DEF s
<1>4. s.before <= version  BY <1>1, <1>3
<1> QED  BY <1>1, <1>2, <1>3, <1>4, RebuildMoves DEF Capture

\* The pinned facts contain the state, so their winners cover it.
LEMMA PinStep ==
  ASSUME RebuildInv, NEW r \in Rebuilder, Pin(r)
  PROVE  RebuildInv' /\ UNCHANGED <<facts, state>>
<1> DEFINE rows == Winners(facts)
           s == [rebuild[r] EXCEPT !.pc = "swap", !.rows = rows]
<1>1. /\ facts \subseteq Fact /\ state \subseteq facts /\ IsFiniteSet(facts)
      /\ lineage \in BOOLEAN
  BY DEF RebuildInv, StateOK
<1>2. rows \subseteq facts /\ rows = Winners(rows)  BY WinnersIdempotent DEF Winners
<1>3. Covers(rows, state)
  <2>1. Covers(rows, facts)  BY <1>1, WinnersCover
  <2> QED  BY <1>1, <2>1 DEF Covers
<1>4. rebuild[r].before <= version  BY DEF Pin, RebuildInv, RebuildsOK, RebuildOK
<1>5. rebuild' = [rebuild EXCEPT ![r] = s]  BY DEF Pin, RebuildInv, RebuildsOK
<1> HIDE DEF rows
<1>6. /\ s \in RebuildState
      /\ s.before = rebuild[r].before /\ s.rows = rows
  BY <1>2 DEF RebuildInv, RebuildsOK, RebuildState
<1> HIDE DEF s
<1> QED  BY <1>1, <1>2, <1>3, <1>4, <1>5, <1>6, RebuildMoves DEF Pin

LEMMA RefusedStep ==
  ASSUME RebuildInv, NEW r \in Rebuilder, Refused(r)
  PROVE  RebuildInv' /\ UNCHANGED <<facts, state>>
<1> DEFINE pc == IF rebuild[r].tries + 1 < MaxSwaps THEN "capture" ELSE "failed"
           s == [rebuild[r] EXCEPT !.tries = rebuild[r].tries + 1, !.pc = pc]
<1>1. rebuild' = [rebuild EXCEPT ![r] = s] /\ lineage \in BOOLEAN
  BY DEF Refused, RebuildInv, RebuildsOK, StateOK
<1>2. pc \in {"capture", "failed"}  OBVIOUS
<1> HIDE DEF pc
<1>3. rebuild[r] \in RebuildState  BY DEF RebuildInv, RebuildsOK
<1>4. s \in RebuildState
  <2>1. rebuild[r].tries + 1 \in Nat  BY <1>3 DEF RebuildState
  <2> QED  BY <1>2, <1>3, <2>1, Zenon DEF RebuildState
<1>5. s.pc = pc  BY <1>3 DEF RebuildState
<1> HIDE DEF s
<1> QED  BY <1>1, <1>2, <1>4, <1>5, RebuildMoves DEF Refused

\* A swap that is still valid replaces the state by rows that cover it, and so
\* all that was folded.
LEMMA SwapStep ==
  ASSUME RebuildInv, NEW r \in Rebuilder, Swap(r)
  PROVE  RebuildInv' /\ Next
<1> DEFINE rows == rebuild[r].rows
           s == [rebuild[r] EXCEPT !.pc = "done"]
<1>1. /\ rebuild[r].pc = "swap" /\ rebuild[r].before = version /\ Replace(rows)
      /\ UNCHANGED <<facts, batch, folded, tries>>
  BY DEF Swap
<1>2. rows \subseteq facts /\ rows = Winners(rows) /\ Covers(rows, state)
  BY <1>1 DEF RebuildInv, RebuildsOK, RebuildOK, RebuildState
<1>3. StateOK /\ FoldsOK /\ RebuildsOK  BY DEF RebuildInv
<1> HIDE DEF rows
<1>4. /\ Absorb /\ version' \in Nat /\ version <= version' /\ lineage' \in BOOLEAN
      /\ version' = version => state' = state
  BY <1>1, <1>2, <1>3, Replaced
<1>5. StateOK'
  <2>1. state' = rows /\ Folded' = Folded  BY <1>1 DEF Replace, Folded
  <2>2. Covers(rows, Folded)
    <3>1. Covers(state, Folded) /\ Folded \subseteq Fact /\ state \subseteq Fact /\ rows \subseteq Fact
      BY <1>2, <1>3 DEF StateOK, Folded
    <3> QED  BY <1>2, <3>1, CoversTransitive
  <2> QED  BY <1>1, <1>2, <1>3, <1>4, <2>1, <2>2 DEF StateOK, Own
<1>6. FoldsOK'
  <2>1. ASSUME NEW c \in Batch, batch'[c] # None PROVE FoldOK(c)'
    <3>1. FoldOK(c) /\ version \in Nat  BY <1>1, <1>3, <2>1 DEF FoldsOK, StateOK
    <3> QED  BY <1>1, <1>4, <3>1 DEF FoldOK, Own
  <2> QED  BY <1>1, <1>3, <2>1 DEF FoldsOK
<1>7. RebuildsOK'
  <2>1. rebuild' = [rebuild EXCEPT ![r] = s]  BY DEF Swap, RebuildInv, RebuildsOK
  <2>2. /\ s \in RebuildState
        /\ s.pc = "done"
    BY <1>3 DEF RebuildsOK, RebuildState
  <2> HIDE DEF s
  <2>3. ASSUME NEW q \in Rebuilder PROVE RebuildOK(q)'
    <3>1. CASE q = r  BY <1>3, <2>1, <2>2, <3>1 DEF RebuildOK, RebuildsOK, RebuildState
    <3>2. CASE q # r
      <4>1. rebuild'[q] = rebuild[q] /\ RebuildOK(q) /\ rebuild[q].before \in Nat /\ version \in Nat
        BY <1>3, <2>1, <3>2 DEF RebuildsOK, RebuildState, StateOK
      <4> QED  BY <1>4, <4>1 DEF RebuildOK
    <3> QED  BY <3>1, <3>2
  <2> QED  BY <1>1, <1>3, <2>1, <2>2, <2>3 DEF RebuildsOK, RebuildState
<1> QED  BY <1>4, <1>5, <1>6, <1>7 DEF RebuildInv, Next

-------------------------------------------------------------------------------
LEMMA StepRebuildInv ==
  ASSUME RebuildInv, [RebuildNext]_vars
  PROVE  RebuildInv' /\ [Next]_<<facts, state>>
<1>1. CASE UNCHANGED vars
  <2>1. StateOK'
    BY <1>1 DEF vars, RebuildInv, StateOK, Own, Folded
  <2> QED
    BY <1>1, <2>1, FoldsStay, RebuildsStay DEF vars, RebuildInv
<1>2. CASE RebuildNext
  BY <1>2, AppendBatchStep, ScanStep, MergeStep, MergeFailsStep, SeedStep, CaptureStep, PinStep,
     SwapStep, RefusedStep DEF RebuildNext
<1> QED  BY <1>1, <1>2

LEMMA RebuildInvariant == RebuildSpec => []RebuildInv
  BY InitRebuildInv, StepRebuildInv, PTL DEF RebuildSpec

\* Every variable holds what the code stores in it.
THEOREM RebuildTypes == RebuildSpec => []TypeOK
  BY RebuildInvariant, RebuildInvTypeOK, PTL

\* Whatever batches fold and rebuilds swap, in any order and with any failures,
\* a committed fold stays in the state, or a fact that beats it.
THEOREM FoldsKept == RebuildSpec => []NoFoldLost
  BY RebuildInvariant, RebuildInvConverges, PTL

\* Once all facts are folded the state is their reduction, whatever happened.
THEOREM StateConverges == RebuildSpec => []Converges
  BY RebuildInvariant, RebuildInvConverges, PTL

\* Folds and swaps only absorb facts into the state.
THEOREM RebuildImplementsRecord == RebuildSpec => RecordSpec
<1>1. RebuildInit => Init  BY DEF RebuildInit
<1>2. RebuildInv /\ [RebuildNext]_vars => [Next]_<<facts, state>>  BY StepRebuildInv
<1> QED  BY <1>1, <1>2, RebuildInvariant, PTL DEF RebuildSpec, RecordSpec, Spec

================================================================================
