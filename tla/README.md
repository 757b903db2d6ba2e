# Verification of conveyer

TLA+ models, TLC runs and TLAPS proofs for conveyer, a batch-data platform in
two halves:

- **ingestion** (`ingestion/`): Lambdas that notice a partner's files, register
  each delivery exactly once in an append-only Iceberg ledger, copy the objects
  to a canonical zone and announce the delivery on the bus;
- **spine** (`spine/`): for every announced delivery a Glue job that runs one
  batch through eight stages into append-only fact tables and into state tables
  that show, per domain, the winning fact.

Nothing holds a lock. Correctness rests on conditional writes (DynamoDB), on
optimistic commits (Iceberg), on guards that read the data already written, and
on total orders that make the folds insensitive to the order of arrival. That
is what the models are about.

## 1. Inventory

### 1.1 Ingestion

| component | state | operations | hard behaviour |
|---|---|---|---|
| registrar (`registration/registrar.py`, `core/decisions.py`) | none of its own: a plan in memory | `register_delivery`, `record_nondelivery`, `execute` (copy E1, append E2, emit E3, complete E4) | dies between any two effects; retried by Lambda under the same request id; plans on a scan that is stale when appended |
| claims (`effects/cas.py`) | one DynamoDB item per batch: owner, status, `claimed_at`, `expires_at` | conditional put, consistent read, takeover, complete, sweep query | races of two takers, staleness threshold against the Lambda timeout, TTL |
| delivery ledger (`effects/ledger.py`, `core/folds.py`) | append-only rows; folds give the current disposition | append, scan of a feed | concurrent appends, ties, latest-wins |
| s3-push driver (`drivers/s3_push.py`) | none | hash, judge completeness, register | events delivered twice, late or after the object was overwritten |
| sftp-pull driver (`drivers/sftp_pull.py`) | none; the remote directory | scheduled or operator's listing, selection, stream, register; resume by batch | partial failure among candidates, files that grow or are replaced after the listing, overlapping runs, budgets that carry the rest over |
| absence detector (`absence/detector.py`) | overdue marks | hourly sweep of stuck claims and overdue expectations | replay of an event whose object changed |
| weekly maintenance (`maintenance/optimize.py`) | none | optimise, vacuum, reconcile supersessions | plan from a query, append later without a condition |

Interaction: the partner's `PutObject` becomes an EventBridge event, an
asynchronous Lambda invocation with retries, a claim, a plan over the ledger,
an append, a `delivery-registered` event. The sweep re-invokes the driver with
the event of a claim that stays in progress. The weekly job appends to the same
ledger.

Correct means: what the bus announces is in the ledger and in the canonical
zone with the very content that was hashed; content is registered once (within
the lifetime of a claim) and never skipped silently; a delivery key keeps a
live delivery; a stuck registration is resumed.

### 1.2 Spine

| component | state | operations | hard behaviour |
|---|---|---|---|
| router and state machine (`entrypoints/router.py`, terraform) | one execution per batch | start, retry twice, redrive | at-least-once events; zombie attempts excluded by premise |
| job start (`entrypoints/glue_main.py`, `core/model.py`, `core/bind_checks.py`, `core/naming.py`, `config.py`) | none; reads the spec, the catalog and the class inventory | parse of the arguments and of the spec, probes in the engine, describe, bind | the spec at its URI changes between attempts; what is not refused here fails half way |
| grammar of checks (`core/check_grammar.py`) | none | one walk over a parsed expression | Spark runs the authored text, not the walked tree |
| reading and admission (`core/reading.py`, `frames/checks.py`, `frames/quarantine.py`) | raw and quarantine tables | probe of the header, split into records, compile, evaluate, subtract, drift probe | headers of several orders, records over several lines, a judgment recomputed under another contract |
| table bootstrap (`bootstrap/*`) | the catalog, the class inventory | one statement per table, additive changes only | aborted between two tables, run again with another spec, two scripts of which one is forgotten |
| runner (`run.py`, `stages/*`) | `BatchContext`, rebuilt by every attempt | land, pre_check, pull, apply, post_check, commit, fold, publish | killed between any two commits and run again from the start, next to other batches of the feed |
| guards (`core/doors.py`, `effects/spark.py`) | the tables themselves | `table_has_batch`, `marker_row_present` | half committed batches, verdicts that changed since the first attempt |
| delta detection (`core/delta.py`, `frames/delta.py`) | marker table: twins and completions | two reads, filter | sibling batches that commit between the reads |
| record (`core/merge.py`, `frames/fold.py`) | fact and state tables | append, reduce, conditional MERGE | folds in any order, repeated folds, ties |
| rebuild (`effects/rebuild.py`) | state table | seed, capture, pin, swap, retry | live appends and MERGEs between the steps, two rebuilds at once |
| business checks (`frames/business_checks.py`) | quarantine table | compile, join of the memberships, evaluate, subtract | three-valued logic, identity of a quarantined row on a rerun |
| run ledger (`effects/ledger.py`, `core/run_facts.py`) | telemetry rows | a report per stage, best-effort append | lossy by design; no decision reads it; an append may succeed without its answer |

Correct means: each stage writes at most one snapshot per batch and table; facts
never exist without the marker that makes them visible to siblings; a row has
one verdict for good; a completed batch has lost nothing; the state of a domain
is the winning fact, whatever the order of folds and rebuilds; dropping
unchanged rows costs no state. Of a single delivery: a spec that is wrong stops a job
before it lands anything; every landed row ends in one place, whichever door a
rerun takes; a line is refused exactly when it breaks what is declared of its
columns; the run ledger tells what is durable; alarms tell of changes; every
execution ends.

## 2. Modules

| module | what it is |
|---|---|
| `LedgerFolds` | the folds of the delivery ledger: latest disposition, live deliveries |
| `Registration` | the Lambda platform, the claims, the plans, `execute`, the weekly job: everything two drivers share |
| `S3Push` | composes `Registration` with the s3-push driver and the hourly sweep; the properties of ingestion |
| `MCS3Push` | instances of `S3Push` |
| `LedgerFoldsProofs` | TLAPS lemmas about the folds |
| `S3PushProofs` | TLAPS proofs about `S3Push`: its safety; what depends on time and on the order of the ledger |
| `SftpPull` | composes `Registration` with the sftp-pull driver, the resume and both hourly sweeps |
| `SftpPullProofs` | TLAPS proofs about `SftpPull`: its safety; what the ledger remembers of its files |
| `MCSftpPull` | instance of `SftpPull` |
| `Record` | abstract: what fact and state tables promise |
| `BatchRun` | the runner of a batch among its siblings; implements `Record` |
| `MCBatchRun` | instances of `BatchRun` |
| `BatchRunProofs` | TLAPS proofs about `BatchRun` |
| `Rebuild` | the rebuild of a state table against live batches; implements `Record` |
| `MCRebuild` | instance of `Rebuild` |
| `RecordProofs`, `RebuildProofs` | TLAPS proofs about the order and the MERGE, and about `Rebuild` |
| `CheckGrammar` | the expression grammar of checks, and what the engine makes of the same text |
| `Naming` | slugs, derived names and URIs, the arguments of a job |
| `SpecBinding` | what a spec has to satisfy: models, probes, bindings |
| `Admission` | objects, raw rows, checks, candidates, quarantined rows: the frames of a batch |
| `Provisioning` | the catalog and the scripts that create and extend tables |
| `BatchLife` | abstract: what the tables promise of one batch |
| `SpineJob` | one delivery from the router to batch-completed, on all five; implements `BatchLife` |
| `SpineJobProofs` | TLAPS proofs about the reports of `SpineJob`; lemmas about numbers and sequences, trees, the check grammar, names |
| `SpineBatchProofs` | TLAPS proofs about its rows, tables and types, accepted checks, machine names and refused lines, and that it implements `BatchLife` |
| `MCSpineJob` | the scenes of `SpineJob` |

### 2.1 Registration and S3Push

An invocation is `run[p]`: its program counter, the request it acquired, the
identity it works for (its own, or that of the claim it took over) and its plan.
One action is one external call with the pure code around it: `ClaimWin` and
`ClaimLose` are the two outcomes of the conditional put, `ClaimRead` the
consistent read with the staleness decision, `ClaimTake` the conditional update,
`Plan` the scan with the pure plan, then `Copy`, `AppendRows`, `Emit` and
`Complete`. `Fail` ends an invocation after any step and lets the platform retry
it under the same request id.

- *Time* has the code's two grains. `clock` counts seconds: claims are stamped
  and aged with it, and an invocation lives at most `LambdaMax`. `stamp` orders
  the microsecond instants of the ledger and the identifiers minted.
- *Content* stands for the content hash and so for the batch id derived from it.
- *Objects* are names with byte counts: what a registration staged, or what was
  observed of a defective delivery. The append-on-change rule (`AlreadyNoted`)
  compares the objects and nothing else, as `_same_inventory` does: a second
  defective content under the same names and sizes leaves no row of its own.
  `NoSilentSkip` and `NothingOverlooked` say so: of a defective delivery the ledger
  has the verdict with the objects observed, not the content.
- The scan of `Plan` and the clock reading after it are one step: nothing in
  the plan depends on the time between them.
- `EventAge` stands for the retry ages of EventBridge and of the asynchronous
  invocation together.
- `now()` of a claim is merged with the put that stores it.

### 2.2 Record, BatchRun and Rebuild

A row is the `content_hash` of a fact: a number, compared as the code compares
hashes, that determines the table, `record_key`, `domain_id` and the declared
ordering columns. Batches are numbered in the order of
`(received_at, batch_id)`. `Beats` is the strict order of the MERGE condition;
`Winners` the reduce.

`Record` says: a batch adds facts to a table once and for good (`Commit`);
facts are folded so that nothing but facts enters the state and nothing leaves
it but to a fact that beats it (`Absorb`). `BatchRun` and `Rebuild` check
`RecordSpec`, the abstract `Spec` over the same `facts` and `state`.

In `BatchRun` every action is one Iceberg commit, one emitted event or one read
on which a later write depends. `pull` and `apply` write nothing: their effect
on later stages is that verdicts may change between attempts (`Drifting`). `Die`
discards the attempt; `Begin` starts the next one from the first stage, as the
state machine's retry or an operator's redrive does, also after success. A batch
has one attempt at a time: this is premise I-20 of `design/004.1`, enforced
outside the job; zombies are not modelled. The guards of a stage read the data
of the batch itself, which nobody else writes, so they are merged with the write
they guard. The two reads of the marker table (`ReadCompletions`, `Resolve`)
concern other batches and are separate steps. A batch's content determines its
id, so two batches of one delivery key always differ in content. `basis` is a
history variable: which batches were visible when a batch's contribution was
settled.

In `Rebuild` a MERGE scans (`Scan`) and commits (`Merge`) in two steps, a
rebuild captures, pins, swaps. `version` counts the commits that changed the
state table: a MERGE that changes no row conflicts with nobody.

### 2.3 SftpPull

A run of the driver is the registration state `run[p]` plus `pull[p]`: the
listing, the candidates still to do, the file in hand, the bytes spent and the
errors so far. `Begin` reads the clock and scans the ledger, `List` lists and
selects, `Pick` mints the identity of the next file (the budget is asked there),
`Stream` reads the file as it is by then, stages its bytes and judges it; the
steps of `Registration` follow, without a copy. `FileFails` abandons a file and
goes on, `Finish` ends the run and raises when a transient error is remembered.
`Resume` is the invocation of the hourly sweep: it rebuilds the request from the
claim and enters at `claim`. `ScanOverdue`, `Announce`, `Mark` and `SkipMarked`
are the sweep over the expected days, which `SweepEnds` may stop anywhere.

A manifest declares objects, its parts, which arrive one by one (`PartArrives`);
one that lacks a part or does not parse is abandoned before anything is streamed,
and another may be abandoned half way (`BytesMoved`). `Objects` is what the row of
a file lists: the file, the parts and the manifest, or of a defective manifest only
the parts observed, so that two versions of a manifest with one verdict and the
same parts share a row. A size is a number given to each content; a day is an
equal stretch of the clock. An operator's run differs by `force` and by the window
of its listing, which narrows files and parts alike before anything is selected.
The bytes of a file count against the budget once it has ended well.

### 2.4 The life of a delivery in the spine

`SpineJob` follows one delivery through code that other modules define as pure
operators, named as in the source:

- `Naming`: a name is a sequence of characters, so that slugs, prefixes and
  derived tables are computed and not assumed;
- `CheckGrammar`: a table of handlers (admitted shape, wanted families, family
  of the result) and the walk over it, next to `EngineReads` and `EngineType`,
  which say what Spark makes of the same text;
- `SpecBinding`: `Parses` (every validator of `core/model.py`), `EngineProbes`
  (the compile probes of `glue_main`), `validate_bindings`;
- `Admission`: lines to records to raw rows, the compiled contract, three-valued
  checks, violations and snapshots, both subtractions, both drift probes;
- `Provisioning`: the steps of both scripts over the shared catalog. A script
  stamps the class of a table it meets anew without asking what it was
  (`create_record_tables.py:305`), so `TablesOnlyGrow` promises tables, columns
  and types, and of a class only that a spec that was deployed asks for it.

Frames are functions from the locators or keys of their rows, empty where nothing
is written. An expression is a tree nested at most `MaxNesting` deep, and what
walks it is a recursive function over the layers of its nodes, so that everything
these modules declare can be used in proofs. A scene fixes what a job finds: its
specs in the order of their deployment, catalog, inventory, objects, event,
arguments and what may happen to it; `Scenes` is any set of them.

The job is `job`, its program counter a stage or a part of one: `Load`,
`Describe` and `Bind` refuse before anything is written; `Land` and `Announce`;
`PreCheck` and `PostCheck` with the doors of a rerun; `Pull`, `Apply`; commit
and fold table by table (`OpenCommit`, `CommitTable`, `Complete`, `OpenFold`,
`FoldTable`, `EndFold`); `Publish`. Each stage that ends or raises is reported
by `RecordRun`, which decides how the job goes on. `EffectRaises` fails a stage,
`Die` kills the worker, `Retry`, `GiveUp` and `Rerun` are the state machine and
the operator; `Redeploy` replaces the spec, `Refresh` a co-effect's rows,
`Provision` takes a step of a script.

One batch runs alone: no predecessor takes part in delta detection, and the
races of siblings are `BatchRun`'s. `BatchLife` says what a reader of the tables
may rely on whatever happens to the job: each kind of rows is written once and
kept, nothing is refused once facts exist, what is announced is committed, closed
and folded. `LifeSpec` is that specification under the refinement mapping
`closed <- Closed` and the fields of `batch`.

## 3. Runs

| run | instance | what it shows |
|---|---|---|
| `takeover` | one content, two invocations, retries, a crash | a takeover displaces no first attempt at work; completion only behind the event |
| `corrections` | two contents of one key in two slots, one overwritten; defective versions of both, two of which look alike | events are backed, nothing is skipped, the key stays live |
| `expiry` | claims that expire while in progress, an unreadable content, the weekly job | a second registration only after the TTL; the weekly job keeps the newest |
| `stuck_claim` | a crash at any step, the hourly sweep, fairness | a claim left in progress is completed |
| `older_wins` | racing corrections | violation: the older delivery can supersede the newer |
| `two_owners` | a retry of the owner races a takeover | violation: two runs work for one claim |
| `reruns` | two batches, two tables, two attempts each, drifting verdicts | the guards make every write happen once; refinement of `Record` |
| `revert` | three overlapping batches: a value, its correction, its revert | dropping unchanged rows costs no state |
| `divergent` | two contents of one record in one delivery, one unchanged | violation: the state shows the content that loses the order |
| `rebuild` | two rebuilds, two live batches with repeated folds | no fold is lost, the state converges; refinement of `Record` |
| `sftp` | seven feeds: a corrected file, one still written to, a manifest before its part that may be replaced, two defective manifests of one name, an operator's pulls, two files beyond the budget, an expected delivery | claims and events name staged bytes; what is noted is not taken again, what is not is not overlooked; a marked day was announced |
| `job` | about 1300 scenes of one delivery each | a wrong spec fails no stage; rows are conserved, judged by their column and end in one place; the run ledger is truthful and has no gap; tables only grow; executions end; refinement of `BatchLife` |

*Bounds.* Two invocations are enough for every race of the claim protocol
(a taker and the owner, a winner and a loser), because an invocation that ended
leaves only its writes behind; the clock bound leaves room for one staleness
period and the sweep after it, or, in `expiry`, for two lifetimes of a claim.
Two contents and two slots give a correction and an overwrite. Two batches are
enough for every guard; three for the A-B-A revert with a sibling in between.
Every batch, or the middle one, may be attempted twice, so each guard meets the
remains of an attempt killed at each step. The instances of `expiry` and of
`corrections` are separated because a claim that expires while its owner works
makes most of the other promises void: that limit is the design's (30 days,
`_CLAIM_TTL_DAYS`, against 15 minutes).

The batches of `reruns` all have rows. A delivery with a header only is a batch
without rows: the guard of land reads rows, so each of its attempts adds an empty
snapshot to the raw table. `BatchRun` admits such batches, `OneSnapshot` speaks of
the snapshots that hold rows, and the theorems of section 4.2 cover both; the
scenes of `job` have deliveries of a header and of nothing.

`sftp` has two live runs, a clock of 4 with a day of 2, a claim stale after 2
and gone after 3, a budget that one file exhausts, one failure and at most two
uploads and two scheduled runs per feed; an invocation begins in the tick it is sent
(`takeover` and `corrections` have events that wait); uploads end at time 1 (at 4 for the
operator's feed), so that a stale claim, its resume and a sweep of the second
day fit behind them.

`job` has three kinds of scenes, played one by one. *Variants* differ from one
sound delivery in one place: every line shape and cell of a raw contract, each
rule of a spec broken on its own, arguments, URIs and events, all names of up to
four characters over a letter, a dash and a slash, and some thousand
expressions (every operator over leaves of every family, two levels deep), which
are parsed and probed only. *Contents* hold several fact types, memberships,
temporal and decimal bounds, several objects, records over several lines, garbled cells and header names. *Lives* are
twelve deliveries to which something happens: two faults anywhere, one fault
and a rerun under a more lenient, a stricter or a smaller spec, one fault under a
spec with a fact column named `reason_code`, a lost ledger row, a co-effect that changes, two specs that find different records in the same
objects, two that swap the roles of two tables, scripts that run before, between
and after specs, aborted scripts. Each door of each check is reached with something durable behind
it, and each pair of consecutive writes is separated by a fault in some life.
`AggregatesSound` is evaluated as an assumption of the run: the aggregates of
batch checks, which no spec may carry yet, over the same leaves.

*Deadlock.* `CHECK_DEADLOCK FALSE` in the runs of the other modules: the
environment runs out of uploads, attempts or rebuilds and the system rests. `job`
checks for deadlock: its only rest (`Rest`) is an execution that was refused,
failed or succeeded.

*Fairness.* `job`: as long as an execution runs, its job or the state machine
moves again (Glue and Step Functions run what they started, or time it out),
stated as weak fairness of the steps that change the job or the execution; the
absence of deadlock makes one of them enabled then. `stuck_claim`: weak fairness of the steps of a live
invocation (Lambda runs it or kills it), of starting a waiting invocation (the
platform delivers what it accepted), of the sweep (a schedule) and of time.
Failures are bounded, which is what "eventually works" means for a retried job.

## 4. Proofs

Every theorem holds for every value of the constants that satisfies the named
assumptions: any number of batches, tables, invocations, rebuilds and retries.

### 4.1 Ingestion

`S3PushProofs` proves `Spec => []TypeOK`, `EventBacked`, `CompletedBacked` and
`NoSilentSkip`. Types are not inductive
alone: the slot named by a waiting message must hold an object, so that the key
of the acquired upload exists. The safety invariants are strengthened by

- identities minted once: `stamp` bounds every delivery number in use, and an
  identity in a run, a claim or a row determines its batch;
- stages: a run past `copy` has its object in the canonical zone, past `append`
  its registered row in the ledger, past `emit` its event on the bus, and these
  sets only grow (a copy of the same delivery writes the same content).

`CompletedBacked` then follows because only a run past `emit` completes a claim,
and the claim's batch is the run's batch. `NoSilentSkip` is an action property:
the plan of a registration, and of a lost claim, has a row for the content; that
of a defective delivery has a row with the verdict and the objects observed, or
the ledger has had one since an earlier scan.

The second half of the module has the arguments of time and order, for every
timing that satisfies `TimingAssumption`, the design's two inequalities. Their
invariant has two parts.

- `Fenced`: a request id belongs to one invocation, waiting or running
  (`RidsUnique`); the first attempt that owns a claim started before the claim
  was stamped (`OwnersAtWork`); hence whoever read a claim as stale read one
  whose owner's first attempt is over (`ObservedOwnersGone`), since an attempt
  lives shorter than a claim takes to become stale; and a winner's claim is its
  own as long as it works. `TakeoverFindsOwnerDead` follows. It speaks of first
  attempts because retries share the request id: between a taker's read and its
  update a retry of the observed owner may take the claim itself, and another
  taker may meet it there.
- `Ledgered`: a delivery is minted once, and the later of two was received later
  (`MintedOnce`); rows are stamped apart, but for a superseding row and the
  registration it was planned with (`RowsDated`, `Corrections`), which is why
  the latest registration of a key is never superseded and `KeyStaysLive` holds;
  a delivery noted as a duplicate or a defect is never registered
  (`NotedApart`); two registrable deliveries of one content are a claim's life
  apart (`Spent`), which is `ReRegistrationOnlyAfterTTL`.

`ReconcileKeepsTheNewest` needs only that the latest row of a delivery is unique.

`SftpPullProofs` proves `PullTypeOK`, `StagedBeforeClaim` and
`MarkedIsAnnounced` from `PullInv`. The driver streams before it claims, so the invariant
follows the bytes: a run at a claim has the bytes of its request in the
canonical zone, a run that is about to take over or carries out a registration
has those of its identity, and so has every claim. The canonical zone only
grows in this driver, hence a claim that outlives its run still names bytes that
are there when it is resumed. A resume holds nothing of a pull, which is why a
dead run leaves nothing behind. A sweep about to mark a day has announced it;
that there is a first day to announce is the well-foundedness of the naturals.

Its second invariant, `PullHistory`, is about what the ledger remembers.

- Deliveries. One is minted once and stands for one file and one content, in
  claims, rows and runs alike (`MintedOnce`); a pull keeps the delivery it was
  given to itself until it wins its claim (`KeepsToItself`), so that what it
  notes as a duplicate is registered nowhere (`NotedApart`). A resume is the
  exception, since it works under the delivery of a claim, and every resume was
  preceded by a sweep of its batch (`ResumesSwept`). This gives
  `SelfDuplicateOnlyAfterResume`.
- Folds. A run scans rows of the ledger (`Planned`); each of them has a current
  row of the same delivery, whatever the ranks and instants (`CurrentRow` of
  `LedgerFoldsProofs`), and of the same file, so `NotedIsNotTakenAgain`.
- Files. A file that a run owes, because it was there and quiet before the run
  started and is unchanged, is still to be taken, is in hand, or the ledger tells
  of it (`Traced`). It leaves the list when it is picked, is in hand from the
  stream to the append, and an append or an earlier note ends the trace; a file
  changed meanwhile is no longer owed. `NothingOverlooked` is the case of a run
  that has neither list nor hand.

`NothingOverlooked` promises a row under the file's own name and size (`Told`), or
a registration of its content, since a run that takes over a stale claim registers
under the identity of the claim, which may name another file of the same content;
or, of a defective manifest, which no row names, a row of its key with the verdict
of this run and the parts it observed. The last may be the row of an earlier
version of the manifest (`NotedAlready`).

### 4.2 Batch runner

`BatchRunProofs` proves `TypeOK`, `OneSnapshot`, `TwinBeforeFacts` and
`OneJudgment` from one invariant, for batches with and without rows (of a batch
without rows `OneSnapshot` claims nothing about the raw table, where the sentence
"exactly one snapshot" is false). The guards read the data of the batch, so the
invariant says that the data tells the truth about the writes: a snapshot of a
stage has left quarantined rows, a snapshot of a table has left facts
(`SnapshotsVisible`); an attempt past a check carries no row which that check
quarantined, and what it is about to append belongs to a table without any fact
of the batch and with its twin (`AttemptOK`).

It also proves `NothingLost`. Each row of a batch is traced: an
attempt past `pre_check` has quarantined what it no longer carries; a row of the
table in hand is novel or accounted for; the tables behind it are accounted for;
a table that has facts of the batch already accounts for all its rows there,
which is why a rerun may skip it. `Accounted` is monotone, so nothing that other
batches do matters. It says more than `NothingLost` needs: a row that is no fact
of its batch was dropped for the fact of a completed batch that is the latest of
all that the batch had seen in the marker table when it last decided about the
table (`basis`), since a predecessor is the latest of what is seen or there is none.

It also proves the refinement of `Record`, with the strengthening
that the state is reduced, and `AnnouncedIsFolded`: the fold of each table
leaves a state that covers what the batch committed there, and every later fold
covers the state before it.

Its last theorem, `DropsCostNoState`, is `StateAsAsserted` for every feed without
ties (`NoTies`: of two rows of a batch in one domain the declared ordering
columns tell which wins). At rest the state is the winners of all facts
(`StateAtRest`), and each winner `w` of what is asserted is the content of one of
them (`DroppedWinner`): if `w` was dropped, a fact of a batch `p` stands for it,
and a fact that beat this one without beating `w` would be of `p` itself or of
the batch of `w`, a tie, or of a batch between the two, which `NoLateBatch` says
was seen, and then `p` was not the latest. The hypothesis is not for the proof's
sake: `NoTies` holds in the `revert` run and fails in `divergent`, where a
delivery asserts two contents of one record and the conclusion is false. So ties
within a batch are the only way, besides the late batch that the design accepts,
in which a drop costs state.

### 4.3 Rebuild

`RebuildProofs` proves `TypeOK`, `NoFoldLost`, `Converges` and the refinement of `Record`.
The invariant speaks of what is pending only as long as it is valid: a MERGE
whose base is the current version would merge its batch into the state as it
is; the rows of a swap whose `before` is the current version cover that state,
because they were pinned after the capture from facts that contain it. Every
commit that changes the table invalidates both.

### 4.4 The order

`RecordProofs` has the lemmas both rest on: `Beats` is a strict total order on
facts; a finite set of facts is covered by its winners (well-foundedness of the
strict subset order); a MERGE of winners into winners absorbs them and covers
both; reduced facts that cover a set are its winners.

Assumptions: `RecordAssumption`, `BatchRunAssumption`, `RebuildAssumption`,
`ConstantsAssumption`, `TimingAssumption`, `S3PushAssumption`, `SftpPullAssumption`,
`ClaimAssumption` and `NoneAssumption` (the value for "nothing" is no claim and
no run); in particular batches are finite, table names are
distinct from the marker table's sentinel, and `Rebuild` speaks of one table.
`MaxAttempts` and `MaxFolds` are in the models for the checker alone: the
theorems hold for any value.

### 4.5 The spine job

The theorems about `SpineJob` hold for every set of scenes that satisfies a few
assumptions: the state machine's retries are counted (`RetriesAssumption`); the
specs of a scene follow each other in a sequence, list their columns and declare
finitely many fact types, and a catalog lists tables with their class, columns and rows
(`SceneAssumption`), where the name of a pipeline is a sequence of characters;
checks list the columns they name, and objects of plain names list their lines and
cells, none of them absent, and hold finitely many records (`DataAssumption`, which
`SpecNeverFailsAStage` and `LinesRefusedIffBroken` use: the counts the first speaks
of are cardinalities); expressions of row checks are trees of the depth
and the shapes that sqlglot's parser returns (`NestingAssumption`,
`ExpressionsAssumption`: a literal has no parts, a call as many arguments as its
function takes); an absent or an empty cell is not a garbled one, and the cells that
read as numbers or dates read as integers (`CellsAssumption`); the specs of a scene keep their raw and their quarantine
table (`HomesAssumption`: the model has one of each, since `batch` stands for
the rows of the batch wherever they are); and a set of tables is not the value
for "not announced", nor a cause of a failure the value for none
(`TablesAssumption`, `CausesAssumption`). What a spec says and what
objects contain is arbitrary; the transforms are the modelled projection of the
valid rows onto each fact type.

`SpineJobProofs` looks at a stage through its effect: a lemma per action says
which fields of the job and the batch it writes, and later arguments cite it.

- `LedgerNeverHasAGap`. `GapInv`: an attempt is a pair of counters, and nothing
  is told of a later one; the stage that is due, or that is reported, has a place
  in the sequence, and exactly the stages before it are told, each once. A
  failed report ends the attempt, so only the last one told may have failed.
- `LedgerAlwaysTruthful`. `TruthInv`: a report is a promise about the batch
  (`Guard`, what a skipped write had found; `Deed`, what the stage leaves behind),
  kept when it is made, and every promise is about something that no step undoes.
  `ClaimInv` is the first landing: two attempts that both say they appended the
  landed rows need objects that had no rows for the first of them, and under one
  spec the objects have the same rows. That is why the clause speaks of
  batches under one spec: a redeployed spec may find rows where the first found
  none, which one of the scenes does.

`SpineBatchProofs` follows the rows and the tables.

- `EveryRowConserved`. `AdmitInv`: the rows that a job past `pre_check` carries
  and the durable rows refused are all the landed ones and no others, whichever
  door was taken; what is unreadable is among the refused. A batch with facts
  has landed, because what is committed descends from landed rows.
- `JobImplementsLife`, the refinement of `BatchLife`. `LifeInv`: facts stand in
  tables of the spec that runs, although it may have been redeployed since,
  because a table with a marker of the batch that the new spec no longer has is
  refused at bind; the tables already behind a job that folds are folded, so a job
  past fold has folded every table with facts, and `publish` may announce them.
- `CatalogOnlyGrows`. `CatalogInv`: what a script has left to do are steps of a
  spec that was deployed, so that what it stamps is what such a spec asks for; a
  table is only extended when all it has is expected (`Additive`).
- `JobTypes`. Two parts of the types are not inductive alone: the number of
  reruns is bounded because reruns and what is left of their budget add up
  (`ExecTypes`), and the tables with facts exist because a job past `pre_check`
  found them and tables stay (`TableTypes`).
- `AlarmsMeanChange`. `Steady`: as long as the batch runs under one spec and no
  co-effect was refreshed, what stands in the quarantine is what that spec says
  of the landed rows (`Judgment`) and of their candidates (`Dismissed`), and the
  frames of a running job are those the spec derives from the landed rows,
  whichever doors the attempt took: the locators that door 1 subtracts are the
  rows the judgment refuses (`PreDoorsAgree`), the hashes that it subtracts later
  are those of the candidates refused (`PostDoorsAgree`). The rows do not change
  once something was written of them, and a probe compares a judgment with itself.
- `EachRowHasItsPlace`. `SteadyFacts` adds the facts: in each table of the spec
  they are the candidates that pass (`FactsAre`), tables are one per type because
  the job refuses a spec that shares them, and a job among the tables has either
  a type still to do or its facts in place, or none to place (`Tabled`). A
  batch is closed only past the last table (`Closing`), so in a closed batch all
  of it is settled (`Settled`) and stays so; an announced batch is closed
  (`ClosedInv`). `RowsAccounted` itself excepts specs in which a fact column is
  named `reason_code` or `reason_detail` (`ReasonsApart`): for them it is false
  (section 5), which TLC shows on one of the lives when the exception is
  dropped. `AlarmsMeanChange` does not need it.
- `SpecNeverFailsAStage`. `ProbedInv`: what load and bind looked at holds still
  until the stage comes. The spec a job carries passed the engine probes, and the
  catalog it described has only grown since (`DescribedStays`), so the co-effects
  and the checks resolve at their stage as they did at bind (`BindResolves`,
  `ResolvesStays`). `FiniteInv`: the landed rows are finitely
  many, so the identity that compares two counts holds when the rows are the
  same (`PreIdentity`, `PostIdentity`). `CauseInv` is the property at the step of
  the report. The structural
  check finds nothing because what reaches commit passed the implicit check of its
  fact type (`StructureHolds`, which takes from `Steady` that it did so even
  when door 2 or 3 was taken).
- `GrammarIsSound`. That a spec which was bound has only checks that the
  walk accepted is an invariant of the job; what acceptance means of the text is
  an argument over the layers of its tree. Upwards (`Upwards`: what a
  node has whenever its parts have it, every subtree has), the walk and the
  engine give each node the same family and the engine coerces none of its
  parts (`EverySubtreeTyped`), for which the rows of the handler tables are
  compared with the engine's signatures (`CallsMatch`, `OperatorsDemand`).
  Downwards (`Downwards`), every part the engine evaluates is reached by the walk
  or is a part that cannot hold a column, so that the engine reads only columns
  the walk has collected (`AcceptedIsSound`).
- `SlugsRoundTrip`. `MachineInv`: an execution has a machine name only if its
  pipeline was valid. That decoding the name gives the pipeline back is proved from
  the end of the slug: each character stands at a known place in it
  (`SlugPlaces`), and a step of the decoding at the place of a character at
  which decoding starts anew reads exactly that character, or the dash and
  the slash that three dashes stand for, because a letter or a digit follows each
  slash and no dash follows a dash (`DecodesOne`, `SlugDecodes`).
- `LinesRefusedIffBroken`. From the bytes to the judgment: the
  lines below the header, without blank ones, are the records, in order
  (`BodyLines`); a probe that passed binds each column at its place in the header,
  so a row is its line under the columns (`RowsShaped`); a cell fails the
  compiled contract iff it breaks the declaration of its column (`CellsConform`), a row iff
  one of its cells does, its text was malformed or something in it is garbled
  (`RowsFail`, `LinesJudged`). `JudgeInv`: the landed rows, and the rows that were
  judged, are what a spec that ran on the batch read. The hypothesis
  `SameReading` says that the specs that ran on the batch name the same columns and
  read objects alike. It cannot be dropped: when one spec lands the rows
  and a second one, which skips more lines, judges them after a fault, a locator
  counts from another line than the second spec would have given it. What the job does then is
  right for the rows that landed; "the lines of the judging spec" is no longer
  what they are compared with.

Four of the arguments are inductions over a number, a sequence or a tree. The
library's induction theorems take the property as an operator, which no prover
here instantiates, so `NatSet` states induction of a set of numbers (from
the least counterexample, a fact about well-founded relations), and
`Upwards`, `Downwards`, `LayersDefined`, `WalksDefined`, `TypesDefined` and
`DecodesDefined` follow from it: that a recursive function of a model is what its
definition says is a lemma, proved by its existence at each depth.

Two of these proofs changed the model. `LineConforms` said nothing of a
replacement character in the *name* of an extra column, although
`_encoding_suspect_check` (`frames/checks.py`) looks at the keys of the extras as
well as at their values: the statement was false for such a header, no scene had
one, and `RowsFail` could not be proved. It is stated now, and two scenes have a
garbled extra header and a garbled extra value. And a function of the table may take
any number of arguments, which the comparison with the engine's signature now
says (`Admits`).

### 4.6 What is only model-checked

- Liveness (`StuckClaimCompletes`, `ExecutionEnds`): out of the prover's reach.
- What the theorems' hypotheses leave out: `RefusedIffBroken` between specs that read
  objects or name their columns differently (in the scenes that have two such specs
  the first finds no row, or the second adds a column the objects do not have).
  Records over several lines are excepted by the property itself.
- The three violations of section 5, which are runs with a counterexample.

Every safety invariant and action property of a passing run is stated by a theorem.

## 5. Disagreements between the code and its documents

- `older_wins`: the design's "latest `received_at` wins" for racing corrections
  does not hold: supersession compares hashes and never `received_at`.
- `two_owners`: "a stale in-progress claim provably has no live owner" does not
  hold for a retry of the owner's invocation, which shares its request id. A
  retry that took a claim can itself be displaced before it ends, by a taker that
  had read the claim under the first attempt; with enough time for two staleness
  periods two takeovers of one claim can be at work at once, both under dead
  first attempts. What holds is `TakeoverFindsOwnerDead`.
- `divergent`: when one of two divergent contents of a record is unchanged it is
  dropped, so the state shows the one that loses the tie; the design says both
  commit and that a drop never costs state. The same happens between two
  `record_key`s of one `domain_id`.

Known and accepted by the design, and assumed away by name: a batch that
completes late without a trace in the marker table when a later-received batch
decided (`NoLateBatch`, `design/007_record.md:69`); the weekly job's
unconditional append (`KeyStaysLive` speaks of histories without it).

Met while modelling the spine job, stated in the comments of the properties that
except them and in the hazards of `PROJECT.json`:

- `core/check_grammar.py:492` never walks the subject of a simple `CASE x WHEN`,
  though the module says hidden fields are rejected (`GrammarSound` excepts it);
- a fact column named `reason_code` is not refused and is overwritten by
  `business_violations`, though `frames/quarantine.py:200` takes the refusal for
  granted: the refused rows are hashed with the reason in that column, so a rerun
  does not subtract them and commits them as well (`RowsAccounted` excepts such
  specs, and the structural check of commit, `NoSpecFailsAStage`);
- missing tables, and columns that only one of the two scripts has added, pass
  the bind step, though design 006.1 P-4 wants no half-started batch
  (`NoSpecFailsAStage` excepts them);
- after a redeploy that adds or removes a fact column, row hashes differ, and
  rows that an earlier attempt quarantined after the transforms are committed
  (`RowsAccounted` speaks of batches under one spec);
- two pipelines of one last segment in one database share a markers table; a
  last segment with a dash gives a name no job can qualify;
- membership checks never compare the types of their columns with the
  co-effect's, and the inventory lists a pipeline's own tables only.

## 6. Not modelled, and what could follow

- `api_pull` and `db_unload` are stubs that raise.
- Completeness and naming of ingestion deliveries: pure functions of one object;
  their verdicts are inputs of the drivers.
- Hashing, UUIDv5, canonical JSON: injective. Regular expressions and the texts
  of numbers and dates: given sets. Spark's evaluation: external, as far as
  checks need it.
- Schemas of events, logging, metrics, secrets, the import linter, the sample
  pipeline and the parity probe: no state that another component reads.
- A zombie attempt next to its successor (premise I-20), two pipelines on one
  markers table.
- `TimeoutSeconds` of the state machine. It exceeds the time of all attempts
  together (`main.tf`: one more than the retries, each as long as a job may run,
  and a quarter of an hour), so an execution that Glue ends in time is never cut
  off by it; a cut-off would be `Die` with no retry after it, which leaves the
  tables as `Die` and `GiveUp` do.
- Overlapping sweeps of overdue days (one sweep is modelled, with its death and
  its repetition); a weekly job whose plan is stale when it is appended
  (`ReconcileKeepsTheNewest` speaks of a current one, `KeyStaysLive` of histories
  without one); a resume of a batch that another recovery completed meanwhile,
  which does demote the delivery (`SelfDuplicateOnlyAfterResume` excepts batches
  that were resumed).

Next would come completeness of manifests as a pure module.
