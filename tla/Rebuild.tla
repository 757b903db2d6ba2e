-------------------------------- MODULE Rebuild --------------------------------
(***************************************************************************)
(* The rebuild of a state table from its fact table (spine/effects/        *)
(* rebuild.py) while live batches append facts and fold them               *)
(* (spine/effects/spark.py: append, merge).                                *)
(*                                                                         *)
(* There is no lock.  A MERGE and a swap are optimistic: each is computed  *)
(* from what it read, and its commit is refused when the state table has   *)
(* changed since the snapshot it validates from.  A MERGE that changes     *)
(* nothing commits a snapshot that conflicts with nobody, so `version`     *)
(* counts the commits that changed the table.                              *)
(***************************************************************************)
EXTENDS Record, FiniteSets

CONSTANTS
  None,
  RowsOf,      \* the novel rows of each batch
  Rebuilder,   \* rebuilds that can run at the same time
  MaxSwaps,    \* max_attempts of swap_with_retry
  MaxFolds     \* bound on the attempts at a batch's fold

\* One fact table and its state table.
ASSUME RebuildAssumption ==
  /\ \A q, r \in Row : TableOf[q] = TableOf[r]
  /\ RowsOf \in [Batch -> (SUBSET Row) \ {{}}] /\ \A b \in Batch : IsFiniteSet(RowsOf[b])
  /\ MaxSwaps \in Nat \ {0} /\ MaxFolds \in Nat

VARIABLES
  version,  \* commits that changed the state table
  lineage,  \* the state table has a snapshot
  batch,    \* the fold of each batch that runs: what it scanned
  folded,   \* the batches whose fold has committed
  tries,    \* the folds begun, per batch
  rebuild   \* the attempt of each rebuild

vars == <<facts, state, version, lineage, batch, folded, tries, rebuild>>

\* Commits `rows` as the content of the state table.
Replace(rows) ==
  /\ state' = rows
  /\ version' = IF rows = state THEN version ELSE version + 1
  /\ lineage' = TRUE

-------------------------------------------------------------------------------
\* The live batches

AppendBatch(b) ==
  /\ \A f \in facts : f.batch # b
  /\ facts' = facts \cup {[batch |-> b, row |-> r] : r \in RowsOf[b]}
  /\ UNCHANGED <<state, version, lineage, batch, folded, tries, rebuild>>

\* Mutant: what the attempt derived is folded, committed or not.
OwnCandidates(b) == [batch : {b}, row : RowsOf[b]]

\* read_batch of the fact table.
Own(b) == {f \in facts : f.batch = b}

\* The MERGE statement scans the state table; a batch folds again when its job
\* is run again.
Scan(b) ==
  /\ Own(b) # {} /\ batch[b] = None /\ tries[b] < MaxFolds
  /\ batch' = [batch EXCEPT ![b] = [base |-> version, rows |-> Merged(state, Winners(Own(b)))]]
  /\ tries' = [tries EXCEPT ![b] = @ + 1]
  /\ UNCHANGED <<facts, state, version, lineage, folded, rebuild>>

\* Its commit, validated against what it scanned.
Merge(b) ==
  /\ batch[b] # None /\ batch[b].base = version
  /\ Replace(batch[b].rows)
  /\ folded' = folded \cup {b}
  /\ batch' = [batch EXCEPT ![b] = None]
  /\ UNCHANGED <<facts, tries, rebuild>>

\* A conflict, or the death of the job: the fold raises and nothing changes.
MergeFails(b) ==
  /\ batch[b] # None
  /\ batch' = [batch EXCEPT ![b] = None]
  /\ UNCHANGED <<facts, state, version, lineage, folded, tries, rebuild>>

-------------------------------------------------------------------------------
\* A rebuild

\* rebuild_state_table: a table that was never folded gets its first snapshot
\* from an empty MERGE.
Seed(r) ==
  /\ rebuild[r].pc = "start"
  /\ rebuild' = [rebuild EXCEPT ![r].pc = "capture"]
  /\ lineage' = TRUE
  /\ UNCHANGED <<facts, state, version, batch, folded, tries>>

\* swap_with_retry: before_id, first.
Capture(r) ==
  /\ rebuild[r].pc = "capture" /\ lineage
  /\ rebuild' = [rebuild EXCEPT ![r].pc = "pin", ![r].before = version]
  /\ UNCHANGED <<facts, state, version, lineage, batch, folded, tries>>

\* recompute: the facts at their current snapshot, reduced.
Pin(r) ==
  /\ rebuild[r].pc = "pin"
  /\ rebuild' = [rebuild EXCEPT ![r].pc = "swap", ![r].rows = Winners(facts)]
  /\ UNCHANGED <<facts, state, version, lineage, batch, folded, tries>>

\* Mutant: the overwrite is committed without its validation.
SwapUnvalidated(r) ==
  /\ rebuild[r].pc = "swap"
  /\ Replace(rebuild[r].rows)
  /\ rebuild' = [rebuild EXCEPT ![r].pc = "done"]
  /\ UNCHANGED <<facts, batch, folded, tries>>

\* attempt_state_swap: the validated overwrite.
Swap(r) ==
  /\ rebuild[r].pc = "swap" /\ rebuild[r].before = version
  /\ Replace(rebuild[r].rows)
  /\ rebuild' = [rebuild EXCEPT ![r].pc = "done"]
  /\ UNCHANGED <<facts, batch, folded, tries>>

\* Mutant: a refused swap is tried again from a new snapshot with the old rows.
RefusedKeepingRows(r) ==
  /\ rebuild[r].pc = "swap" /\ rebuild[r].before # version
  /\ rebuild' = [rebuild EXCEPT ![r].tries = @ + 1, ![r].before = version,
                                ![r].pc = IF rebuild[r].tries + 1 < MaxSwaps THEN "swap" ELSE "failed"]
  /\ UNCHANGED <<facts, state, version, lineage, batch, folded, tries>>

\* The swap is refused: capture and compute again, or raise.
Refused(r) ==
  /\ rebuild[r].pc = "swap" /\ rebuild[r].before # version
  /\ rebuild' = [rebuild EXCEPT ![r].tries = @ + 1,
                                ![r].pc = IF rebuild[r].tries + 1 < MaxSwaps THEN "capture" ELSE "failed"]
  /\ UNCHANGED <<facts, state, version, lineage, batch, folded, tries>>

-------------------------------------------------------------------------------
RebuildInit ==
  /\ Init
  /\ version = 0 /\ lineage = FALSE /\ folded = {}
  /\ batch = [b \in Batch |-> None]
  /\ tries = [b \in Batch |-> 0]
  /\ rebuild = [r \in Rebuilder |-> [pc |-> "start", before |-> 0, rows |-> {}, tries |-> 0]]

RebuildNext ==
  \/ \E b \in Batch : AppendBatch(b) \/ Scan(b) \/ Merge(b) \/ MergeFails(b)
  \/ \E r \in Rebuilder : Seed(r) \/ Capture(r) \/ Pin(r) \/ Swap(r) \/ Refused(r)

RebuildSpec == RebuildInit /\ [][RebuildNext]_vars

-------------------------------------------------------------------------------
\* Every variable holds what the code stores in it.
TypeOK ==
  /\ facts \subseteq Fact /\ state \subseteq facts
  /\ version \in Nat /\ lineage \in BOOLEAN /\ folded \subseteq Batch
  /\ tries \in [Batch -> Nat]
  /\ batch = [b \in Batch |-> batch[b]]
  /\ \A b \in Batch : batch[b] # None => batch[b].base \in Nat /\ batch[b].rows \subseteq facts
  /\ rebuild \in [Rebuilder -> [pc : {"start", "capture", "pin", "swap", "done", "failed"},
                                before : Nat, rows : SUBSET facts, tries : Nat]]

\* Folds and rebuilds, in any order, implement the record.
RecordSpec == Spec

\* No rebuild undoes a fold that has committed, whenever it captured, read the
\* facts and swapped: of each fact that was folded the state shows the fact or one
\* that beats it.
NoFoldLost ==
  \A f \in facts : f.batch \in folded => \E s \in state : SameDomain(f, s) /\ ~Beats(f, s)

\* "State is disposable": once every batch is folded the state is the fold of
\* all facts at once, whatever the order of the folds and swaps that led to it.
Converges ==
  (\A f \in facts : f.batch \in folded) => state = Winners(facts)

================================================================================
