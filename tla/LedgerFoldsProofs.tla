--------------------------- MODULE LedgerFoldsProofs ---------------------------
(***************************************************************************)
(* What the folds of a ledger return, for any set of rows whose instants   *)
(* are bounded, as those of a table that was written step by step are.     *)
(***************************************************************************)
EXTENDS LedgerFolds, NaturalsInduction, WellFoundedInduction, TLAPS

\* Of numbers up to n, one is the largest.
LEMMA Largest ==
  ASSUME NEW S, S # {}, NEW n \in Nat, NEW f, \A r \in S : f[r] \in Nat /\ f[r] <= n
  PROVE  \E r \in S : \A q \in S : f[q] <= f[r]
<1> DEFINE D == {n - f[r] : r \in S}
<1>1. D \in SUBSET Nat /\ D # {}  OBVIOUS
<1>2. IsWellFoundedOn(OpToRel(<, Nat), Nat)  BY NatLessThanWellFounded
<1>3. PICK d \in D : \A e \in D : ~(<<e, d>> \in OpToRel(<, Nat))  BY <1>1, <1>2, WFMin, Zenon
<1>4. \A e \in D : ~(e < d)  BY <1>1, <1>3 DEF OpToRel
<1>5. PICK r \in S : d = n - f[r]  OBVIOUS
<1>6. \A q \in S : ~(n - f[q] < n - f[r])  BY <1>4, <1>5
<1> QED  BY <1>6

\* Of rows with instants up to n, one is the latest.
LEMMA LatestRow ==
  ASSUME NEW S, S # {}, NEW n \in Nat, \A r \in S : r.recorded \in Nat /\ r.recorded <= n
  PROVE  \E r \in S : \A q \in S : q.recorded <= r.recorded
<1> DEFINE f == [r \in S |-> r.recorded]
<1>1. \A r \in S : f[r] = r.recorded  OBVIOUS
<1> HIDE DEF f
<1>2. \E r \in S : \A q \in S : f[q] <= f[r]  BY <1>1, Largest
<1> QED  BY <1>1, <1>2

\* latest_dispositions drops no delivery: each one with a row has a current row,
\* decided by the latest instant, then by the rank, then by nothing.
THEOREM CurrentRow ==
  ASSUME NEW rows, NEW n \in Nat,
         \A r \in rows : r.recorded \in Nat /\ r.recorded <= n /\ r.disp \in Dispositions,
         NEW r \in rows
  PROVE  \E q \in LatestDispositions(rows) : q.id.delivery = r.id.delivery
<1> DEFINE S == {q \in rows : q.id.delivery = r.id.delivery}
           f == [q \in S |-> 5 * q.recorded + DispositionRank[q.disp]]
<1>1. \A q \in S : /\ q.recorded \in Nat /\ q.recorded <= n
                   /\ DispositionRank[q.disp] \in Nat /\ DispositionRank[q.disp] <= 4
  BY DEF DispositionRank, Dispositions
<1>2. \A q \in S : f[q] = 5 * q.recorded + DispositionRank[q.disp]  OBVIOUS
<1>3. \A q \in S : f[q] \in Nat /\ f[q] <= 5 * n + 4
  <2> HIDE DEF S, f
  <2> QED  BY <1>1, <1>2
<1>4. S # {} /\ 5 * n + 4 \in Nat  OBVIOUS
<1>5. PICK q \in S : \A z \in S : f[z] <= f[q]
  <2> HIDE DEF S, f
  <2> QED  BY <1>3, <1>4, Largest
<1>6. \A z \in S : ~Outranks(z, q)
  <2> HIDE DEF S, f
  <2> QED  BY <1>1, <1>2, <1>5 DEF Outranks
<1>7. q \in LatestDispositions(rows)  BY <1>6 DEF LatestDispositions
<1> QED  BY <1>7

================================================================================
