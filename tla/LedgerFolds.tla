------------------------------ MODULE LedgerFolds ------------------------------
(***************************************************************************)
(* The read model of the delivery ledger (ingestion/core/folds.py).        *)
(*                                                                         *)
(* The ledger is append-only: a disposition changes by appending another   *)
(* row for the same delivery_id.  A set of rows stands for the table,      *)
(* because every fold is insensitive to order and to repeated rows.        *)
(*                                                                         *)
(* A row is a record with at least the fields id (its identity columns, a  *)
(* record with a field delivery), disp and recorded; instants are naturals.*)
(***************************************************************************)
EXTENDS Naturals

\* The tie-break between two rows of one delivery that carry the very same
\* recorded_at.
DispositionRank ==
  [registered |-> 0, incomplete |-> 1, duplicate |-> 2,
   superseded |-> 3, unreadable |-> 4]

Dispositions == {"registered", "incomplete", "duplicate", "superseded", "unreadable"}

\* r beats q in the max over (recorded_at, rank).
Outranks(r, q) ==
  \/ r.recorded > q.recorded
  \/ /\ r.recorded = q.recorded
     /\ DispositionRank[r.disp] > DispositionRank[q.disp]

\* The current row of every delivery: the one no other row of it outranks.
LatestDispositions(rows) ==
  {r \in rows : \A q \in rows : q.id.delivery = r.id.delivery => ~Outranks(q, r)}

RegisteredDeliveries(rows) ==
  {r \in LatestDispositions(rows) : r.disp = "registered"}

================================================================================
