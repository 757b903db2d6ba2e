------------------------------- MODULE BatchRun -------------------------------
(***************************************************************************)
(* The spine's run of one batch (spine/run.py and spine/stages): land,     *)
(* pre_check, pull, apply, post_check, commit, fold, publish, as a job     *)
(* that may die between any two of its writes and be run again from the    *)
(* start.  Batches of the feed run at the same time; one batch never has   *)
(* two attempts at once (the execution name of the router, I-20).          *)
(*                                                                         *)
(* Every write is one Iceberg commit.  A stage decides whether to write by *)
(* reading the data of its own batch, so all that an attempt leaves behind *)
(* is what the tables hold.                                                *)
(*                                                                         *)
(* A raw row stands for the one candidate that apply derives from it and   *)
(* for its content_hash, as for the identity transforms.                   *)
(***************************************************************************)
EXTENDS Record, Sequences, FiniteSets

CONSTANTS
  None,
  Tables,      \* the fact tables in declared order
  RowsOf,      \* the rows of each batch; a delivery of headers has none
  KeyOf,       \* record_key of each row
  DeliveryKey, \* delivery_key of each batch
  Malformed,   \* rows the reader flags: no contract admits them
  Drifting,    \* per check stage, rows whose verdict may change between attempts
  MaxAttempts  \* bound on the attempts of each batch

TableSet == {Tables[i] : i \in 1..Len(Tables)}

\* The sentinel of the marker table that no fact table is named.
Completion == "completion"

\* No fact table is named like the sentinel (naming.py asserts it) or like the
\* other targets of a batch's snapshots.
ASSUME BatchRunAssumption ==
  /\ Len(Tables) \in Nat \ {0}
  /\ {"raw", "pre_check", "post_check", Completion} \cap TableSet = {}
  /\ RowsOf \in [Batch -> SUBSET Row] /\ \A b \in Batch : IsFiniteSet(RowsOf[b])
  /\ Malformed \subseteq Row /\ Drifting \in [{"pre_check", "post_check"} -> SUBSET Row]
  /\ \A r \in Row : TableOf[r] \in TableSet
  /\ MaxAttempts \in [Batch -> Nat]

VARIABLES
  quarantine, \* rows of the quarantine table
  markers,    \* <<batch, table>> twins, and <<batch, "completion">>
  snapshots,  \* the Iceberg commits: which attempt wrote what for which batch
  events,     \* <<detail-type, batch>> on the bus
  attempts,   \* attempts begun, per batch
  run,        \* the attempt of each batch that is under way
  basis       \* history: per <<batch, table>> the batches with a marker when
              \* what the batch appended there, or dropped, was decided

vars == <<facts, state, quarantine, markers, snapshots, events, attempts, run, basis>>

-------------------------------------------------------------------------------
\* An attempt

AttemptState == [pc : {"land", "announce", "pre_check", "post_check", "completions", "resolve",
                       "filter", "twin", "append", "complete", "fold", "publish"},
                 next : 1..Len(Tables),
                 rows : SUBSET Row, completed : SUBSET Batch, seen : SUBSET Batch,
                 preds : SUBSET Batch, novel : SUBSET Row]

At(b, step) == run[b] # None /\ run[b].pc = step

\* The table the commit or fold loop of b has reached.
Current(b) == Tables[run[b].next]

\* b goes on to `step`.
Goto(b, step) == run' = [run EXCEPT ![b].pc = step]

\* The loop goes on with the next table, or leaves for `exit`.
NextTable(b, first, exit) ==
  run' = [run EXCEPT ![b].pc = IF run[b].next < Len(Tables) THEN first ELSE exit,
                     ![b].next = IF run[b].next < Len(Tables) THEN @ + 1 ELSE 1,
                     ![b].novel = {}]

Snapshot(b, target) == [batch |-> b, target |-> target, try |-> attempts[b]]

\* The job starts: for the first time, by the retry of the state machine, or
\* redriven although it once succeeded.
Begin(b) ==
  /\ run[b] = None /\ attempts[b] < MaxAttempts[b]
  /\ attempts' = [attempts EXCEPT ![b] = @ + 1]
  /\ run' = [run EXCEPT ![b] = [pc |-> "land", next |-> 1, rows |-> {}, completed |-> {},
                                seen |-> {}, preds |-> {}, novel |-> {}]]
  /\ UNCHANGED <<facts, state, quarantine, markers, snapshots, events, basis>>

\* A stage raises or the job is killed: nothing of the attempt survives.
Die(b) ==
  /\ run[b] # None
  /\ run' = [run EXCEPT ![b] = None]
  /\ UNCHANGED <<facts, state, quarantine, markers, snapshots, events, attempts, basis>>

-------------------------------------------------------------------------------
\* land

\* Mutant: the event stands for the data.
LandedWhenAnnounced(b) == <<"batch-started", b>> \in events

\* table_has_batch on the raw table reads rows, not snapshots: a batch without
\* rows never counts as landed, and every attempt appends its nothing again.
Landed(b) == RowsOf[b] # {} /\ \E s \in snapshots : s.batch = b /\ s.target = "raw"

Land(b) ==
  /\ At(b, "land")
  /\ snapshots' = IF Landed(b) THEN snapshots ELSE snapshots \cup {Snapshot(b, "raw")}
  /\ Goto(b, "announce")
  /\ UNCHANGED <<facts, state, quarantine, markers, events, attempts, basis>>

Announce(b) ==
  /\ At(b, "announce")
  /\ events' = events \cup {<<"batch-started", b>>}
  /\ run' = [run EXCEPT ![b].pc = "pre_check", ![b].rows = RowsOf[b]]
  /\ UNCHANGED <<facts, state, quarantine, markers, snapshots, attempts, basis>>

-------------------------------------------------------------------------------
\* pre_check and post_check

\* Mutant: a batch half committed is judged again.
AllFactsPresent(b) == \A t \in TableSet : FactsOf(b, t) # {}

\* doors.any_fact_present, over one table_has_batch probe per fact table.
AnyFactPresent(b) == \E t \in TableSet : FactsOf(b, t) # {}

Quarantined(b, stage) == {q.row : q \in {x \in quarantine : x.batch = b /\ x.stage = stage}}

\* Without a verdict pre_check refuses only what the reader could not shape.
Shaped(stage, rows) == IF stage = "pre_check" THEN rows \ Malformed ELSE rows

\* What a fresh evaluation may find: the malformed rows, which pre_check
\* refuses, and any of those whose verdict depends on the contract deployed
\* or on the co-effects pulled.
Violations(stage, rows) ==
  {(rows \ Shaped(stage, rows)) \cup D : D \in SUBSET (rows \cap Drifting[stage])}

\* A stage goes on with the rows it admits and appends the others.
Admit(b, stage, rows, violating) ==
  /\ run' = [run EXCEPT ![b].rows = rows,
                        ![b].pc = IF stage = "pre_check" THEN "post_check" ELSE "completions"]
  /\ quarantine' = quarantine \cup {[batch |-> b, stage |-> stage, row |-> r] : r \in violating}
  /\ snapshots' = IF violating = {} THEN snapshots ELSE snapshots \cup {Snapshot(b, stage)}

\* Door 1: what the stage quarantined is subtracted, nothing is judged again.
DurableSubtract(b, stage) ==
  /\ Quarantined(b, stage) # {}
  /\ Admit(b, stage, Shaped(stage, run[b].rows) \ Quarantined(b, stage), {})

\* Door 2: a fact of the batch is durable, so its rows have been admitted.
DurableAuthority(b, stage) ==
  /\ Quarantined(b, stage) = {} /\ AnyFactPresent(b)
  /\ Admit(b, stage, Shaped(stage, run[b].rows), {})

\* Door 3: the batch is judged.
Fresh(b, stage) ==
  /\ Quarantined(b, stage) = {} /\ ~AnyFactPresent(b)
  /\ \E V \in Violations(stage, run[b].rows) : Admit(b, stage, run[b].rows \ V, V)

Check(b, stage) ==
  /\ At(b, stage)
  /\ DurableSubtract(b, stage) \/ DurableAuthority(b, stage) \/ Fresh(b, stage)
  /\ UNCHANGED <<facts, state, markers, events, attempts, basis>>

-------------------------------------------------------------------------------
\* commit

Completed == {b \in Batch : <<b, Completion>> \in markers}

Twinned == {b \in Batch : \E t \in TableSet : <<b, t>> \in markers}

\* read_marker_completions, the first of two reads of the marker table.
ReadCompletions(b) ==
  /\ At(b, "completions")
  /\ run' = [run EXCEPT ![b].completed = Completed \ {b}, ![b].pc = "resolve"]
  /\ UNCHANGED <<facts, state, quarantine, markers, snapshots, events, attempts, basis>>

\* Mutant: the coherence clause is missing.
LatestCompletedUnchecked(completed, twinned) == {p \in completed : \A q \in completed : q <= p}

\* Read 1: the latest completed batch of the feed, unless some other batch
\* shows a twin and no completion.
LatestCompleted(completed, twinned) ==
  IF twinned \subseteq completed
  THEN {p \in completed : \A q \in completed : q <= p}
  ELSE {}

\* Read 2 (no seed names a superseded batch): another batch of the delivery key
\* refuses the resolution.  Its content differs, since batch_id is derived from
\* the content.
KeyMatch(b, marked) == \E q \in marked : DeliveryKey[q] = DeliveryKey[b]

Predecessors(b, completed, twinned) ==
  IF KeyMatch(b, completed \cup twinned) THEN {} ELSE LatestCompleted(completed, twinned)

\* read_marker_presence and resolve_predecessors.
Resolve(b) ==
  LET completed == run[b].completed
      twinned == Twinned \ {b} IN
  /\ At(b, "resolve")
  /\ run' = [run EXCEPT ![b].preds = Predecessors(b, completed, twinned),
                        ![b].seen = completed \cup twinned, ![b].pc = "filter"]
  /\ UNCHANGED <<facts, state, quarantine, markers, snapshots, events, attempts, basis>>

\* delta_filter: a candidate is dropped when the predecessors' partitions hold
\* it and no other content of its record_key.
Unchanged(r, old) == r \in old /\ \A o \in old : KeyOf[o] = KeyOf[r] => o = r

Novel(b, t) ==
  LET old == {f.row : f \in UNION {FactsOf(p, t) : p \in run[b].preds}} IN
  {r \in run[b].rows : TableOf[r] = t /\ ~Unchanged(r, old)}

\* Mutant: the guard reads the twin, which is written first.
HasTwin(b, t) == <<b, t>> \in markers

\* The guard of the commit, table by table.
HasBatch(b, t) == FactsOf(b, t) # {}

\* History: what b adds to the current table, or nothing, is settled.
Decided(b) == basis' = [basis EXCEPT ![<<b, Current(b)>>] = run[b].seen]

\* The step of the commit loop at one table: a table that has the batch only
\* needs its twin; otherwise the candidates are compared with a pinned read of
\* the table.  A failed structural check raises, in every attempt: Die.
Filter(b) ==
  LET t == Current(b)
      novel == Novel(b, t) IN
  /\ At(b, "filter")
  /\ \/ HasBatch(b, t) /\ Goto(b, "twin") /\ UNCHANGED basis
     \/ ~HasBatch(b, t) /\ novel = {} /\ Decided(b) /\ NextTable(b, "filter", "complete")
     \/ /\ ~HasBatch(b, t) /\ novel # {}
        /\ run' = [run EXCEPT ![b].novel = novel, ![b].pc = "twin"]
        /\ UNCHANGED basis
  /\ UNCHANGED <<facts, state, quarantine, markers, snapshots, events, attempts>>

\* Mutant: only a rerun writes the twin.
TwinOfRerun(b) ==
  /\ At(b, "twin")
  /\ markers' = IF run[b].novel = {} THEN markers \cup {<<b, Current(b)>>} ELSE markers
  /\ IF run[b].novel = {} THEN NextTable(b, "filter", "complete") ELSE Goto(b, "append")
  /\ UNCHANGED <<facts, state, quarantine, snapshots, events, attempts, basis>>

\* _ensure_marker_row of the twin, before the facts it announces.
Twin(b) ==
  /\ At(b, "twin")
  /\ markers' = markers \cup {<<b, Current(b)>>}
  /\ IF run[b].novel = {} THEN NextTable(b, "filter", "complete") ELSE Goto(b, "append")
  /\ UNCHANGED <<facts, state, quarantine, snapshots, events, attempts, basis>>

AppendFacts(b) ==
  /\ At(b, "append")
  /\ facts' = facts \cup {[batch |-> b, row |-> r] : r \in run[b].novel}
  /\ snapshots' = snapshots \cup {Snapshot(b, Current(b))}
  /\ Decided(b) /\ NextTable(b, "filter", "complete")
  /\ UNCHANGED <<state, quarantine, markers, events, attempts>>

\* The completion row, commit's last act, even when no fact was written.
Complete(b) ==
  /\ At(b, "complete")
  /\ markers' = markers \cup {<<b, Completion>>}
  /\ Goto(b, "fold")
  /\ UNCHANGED <<facts, state, quarantine, snapshots, events, attempts, basis>>

-------------------------------------------------------------------------------
\* fold and publish

\* Mutant: an attempt folds what it appended itself.
FoldTableAppendedNow(b) ==
  /\ At(b, "fold")
  /\ state' = Merged(state, {f \in Winners(FactsOf(b, Current(b))) : Snapshot(b, Current(b)) \in snapshots})
  /\ NextTable(b, "fold", "publish")
  /\ UNCHANGED <<facts, quarantine, markers, snapshots, events, attempts, basis>>

\* Mutant: the candidates are folded, committed or not.
FoldTableOfCandidates(b) ==
  /\ At(b, "fold")
  /\ state' = Merged(state, Winners({f \in Fact : f.batch = b /\ f.row \in run[b].rows}))
  /\ NextTable(b, "fold", "publish")
  /\ UNCHANGED <<facts, quarantine, markers, snapshots, events, attempts, basis>>

\* The facts of b in one table are reduced and merged, without a guard; a
\* conflicting MERGE raises, which Die stands for.
FoldTable(b) ==
  /\ At(b, "fold")
  /\ state' = Merged(state, Winners(FactsOf(b, Current(b))))
  /\ NextTable(b, "fold", "publish")
  /\ UNCHANGED <<facts, quarantine, markers, snapshots, events, attempts, basis>>

Publish(b) ==
  /\ At(b, "publish")
  /\ events' = events \cup {<<"batch-completed", b>>}
  /\ run' = [run EXCEPT ![b] = None]
  /\ UNCHANGED <<facts, state, quarantine, markers, snapshots, attempts, basis>>

-------------------------------------------------------------------------------
BatchInit ==
  /\ Init
  /\ quarantine = {} /\ markers = {} /\ snapshots = {} /\ events = {}
  /\ attempts = [b \in Batch |-> 0]
  /\ run = [b \in Batch |-> None]
  /\ basis = [bt \in Batch \X TableSet |-> {}]

\* What the attempt of b does next.
Advance(b) ==
  \/ Land(b) \/ Announce(b) \/ \E stage \in {"pre_check", "post_check"} : Check(b, stage)
  \/ ReadCompletions(b) \/ Resolve(b) \/ Filter(b) \/ Twin(b) \/ AppendFacts(b)
  \/ Complete(b) \/ FoldTable(b) \/ Publish(b)

BatchNext == \E b \in Batch : Begin(b) \/ Die(b) \/ Advance(b)

BatchSpec == BatchInit /\ [][BatchNext]_vars

-------------------------------------------------------------------------------
\* Every variable holds what the code stores in it.
TypeOK ==
  /\ facts \subseteq Fact /\ state \subseteq facts
  /\ quarantine \subseteq [batch : Batch, stage : {"pre_check", "post_check"}, row : Row]
  /\ markers \subseteq Batch \X (TableSet \cup {Completion})
  /\ snapshots \subseteq [batch : Batch, try : Nat,
                         target : TableSet \cup {"raw", "pre_check", "post_check"}]
  /\ events \subseteq {"batch-started", "batch-completed"} \X Batch
  /\ attempts \in [Batch -> Nat]
  /\ run = [b \in Batch |-> run[b]] /\ \A b \in Batch : run[b] # None => run[b] \in AttemptState
  /\ basis \in [Batch \X TableSet -> SUBSET Batch]

\* The run implements the record.
RecordSpec == Spec

\* "Exactly one snapshot per (stage, table) per batch", however often the batch
\* is run again and wherever an attempt died, of the snapshots that hold rows.
\* The sentence itself is false of a batch without rows: each of its attempts
\* adds an empty snapshot to the raw table, which no reader of rows can tell.
HoldsRows(s) == s.target = "raw" => RowsOf[s.batch] # {}
OneSnapshot ==
  \A s, q \in {x \in snapshots : HoldsRows(x)} : s.batch = q.batch /\ s.target = q.target => s = q

\* L-2: facts without a marker cannot exist, so the coherence clause sees every
\* batch whose committed facts a drop could interact with.
TwinBeforeFacts ==
  \A f \in facts : <<f.batch, Table(f)>> \in markers

\* A batch has one judgment: no later attempt quarantines a row whose sibling
\* attempt admitted it as a fact, or commits a row that was quarantined, though
\* verdicts may change between attempts.
OneJudgment ==
  \A f \in facts, q \in quarantine : f.batch = q.batch => f.row # q.row

\* A completed batch has lost nothing: every row it landed is quarantined, is a
\* fact of the batch, or was dropped for the same fact of a completed batch.
NothingLost ==
  \A b \in Completed : \A r \in RowsOf[b] :
    \/ \E q \in quarantine : q.batch = b /\ q.row = r
    \/ \E f \in facts : f.row = r /\ f.batch \in Completed

\* When batch-completed is about to be emitted, the state of every domain shows
\* what the batch committed or something that beats it, whatever sibling batches
\* folded meanwhile, and the completion row is there.
AnnouncedIsFolded ==
  \A b \in Batch : At(b, "publish") =>
    /\ b \in Completed
    /\ \A f \in facts : f.batch = b => \E s \in state : SameDomain(f, s) /\ ~Beats(f, s)

\* Nothing runs, and every batch that committed has been folded.
Quiet ==
  /\ \A b \in Batch : run[b] = None
  /\ Twinned \subseteq Completed
  /\ \A f \in facts : \E s \in state : SameDomain(f, s) /\ ~Beats(f, s)

\* The rows the committed batches assert, dropped or not.
Asserted ==
  {a \in [batch : Completed, row : Row] :
     a.row \in RowsOf[a.batch] /\ ~\E q \in quarantine : q.batch = a.batch /\ q.row = a.row}

\* No batch committed after a later-received one had decided what to drop
\* without a trace of it in the marker table: the residual the design accepts.
NoLateBatch ==
  \A b \in Completed, q \in Completed, t \in TableSet : q < b => q \in basis[b, t]

\* The content of the state.
Content(F) == {f.row : f \in F}

\* Dropping unchanged candidates costs no state: what the state shows is what it
\* would show had every batch committed all it asserts.
StateAsAsserted ==
  Quiet /\ NoLateBatch => Content(state) = Content(Winners(Asserted))

================================================================================
