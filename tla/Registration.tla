----------------------------- MODULE Registration -----------------------------
(***************************************************************************)
(* The registration turnstile of the ingestion module: the Lambda steps of *)
(* ingestion/registration/registrar.py, the claims of ingestion/effects/   *)
(* cas.py, the plans of ingestion/core/decisions.py, the hourly sweep of   *)
(* stuck claims and the weekly reconciliation of supersessions.  A driver  *)
(* module (S3Push) says what starts a registration.                        *)
(*                                                                         *)
(* A registration runs inside a Lambda invocation.  Between any two of its *)
(* external calls other invocations run, the clock moves, or it dies:      *)
(*                                                                         *)
(*   claim -> [read -> [take]] -> plan -> copy -> append -> emit ->        *)
(*   complete -> done                                                      *)
(*                                                                         *)
(* Time has two grains, as in the code.  `clock` counts the whole seconds  *)
(* that claims are stamped and aged with.  `stamp` orders the microsecond  *)
(* instants of the ledger and the identifiers minted: each is the next     *)
(* number, so the number of a delivery orders deliveries by received_at.   *)
(*                                                                         *)
(* Content stands for a content hash, hence also for the batch_id, which   *)
(* is a UUIDv5 of it.  An object is a name with a byte count, which is all *)
(* that the ledger's rows are compared by.  The feed is fixed: nothing is  *)
(* shared across feeds.                                                    *)
(***************************************************************************)
EXTENDS Integers, FiniteSets, LedgerFolds

CONSTANTS
  Run,         \* Lambda invocations that can be live at the same time
  Slot,        \* object keys in the vestibule
  Content,     \* content hashes of deliveries
  Key,         \* delivery keys
  Object,      \* the objects a row may list: their names and byte counts
  None,        \* no value
  LambdaMax,   \* longest life of an invocation (900 s)
  StaleAfter,  \* _STALE_THRESHOLD_S (1200 s)
  EventAge,    \* how long an event is retried before the dead-letter queue
  ClaimTTL,    \* _CLAIM_TTL_DAYS
  MaxRetries,  \* retries of a failed asynchronous invocation
  MaxClock,    \* bound on the clock
  LastFailure, \* failures happen at or before this time
  MaxFailures, \* bound on the failures of a behaviour
  SweepPeriod, \* shortest time between two sweeps of a claim (an hour)
  MaxReconciliations \* bound on the runs of the weekly job

ASSUME ConstantsAssumption ==
  /\ None \notin Slot \cup Content
  /\ LambdaMax \in Nat /\ StaleAfter \in Nat /\ EventAge \in Nat /\ ClaimTTL \in Nat
  /\ MaxRetries \in Nat /\ MaxClock \in Nat /\ LastFailure \in Nat
  /\ MaxFailures \in Nat /\ SweepPeriod \in Nat \ {0} /\ MaxReconciliations \in Nat

\* A stale claim has no live owner, and a claim outlives every attempt of the
\* invocation that made it.
ASSUME TimingAssumption ==
  /\ LambdaMax < StaleAfter
  /\ EventAge + LambdaMax < ClaimTTL

VARIABLES
  clock,
  stamp,
  inbox,    \* invocations that wait to run
  claims,   \* the DynamoDB claim of every batch
  ledger,   \* rows of the delivery ledger
  canonical,\* the objects in the canonical zone, by delivery
  events,   \* delivery-registered events on the bus
  run,      \* the state of every live invocation
  slot,     \* the object the partner last put in every slot
  swept,    \* when the hourly sweep last invoked a resume of a batch
  recon,    \* the weekly reconciliation
  failures, \* failures so far
  sent      \* uploads and redelivered events so far

\* The sweep, the weekly job and the bounds.
background == <<swept, recon, failures, sent>>

vars ==
  <<clock, stamp, slot, inbox, claims, ledger, canonical, events, run, swept, recon, failures, sent>>

-------------------------------------------------------------------------------
\* Types

\* `objects` is what was staged for a registration, and what was observed of a
\* defective delivery.
Identity == [delivery : Nat, slot : Slot, key : Key, batch : Content, received : Nat,
             objects : SUBSET Object]

Claim == [id : Identity, owner : Nat, status : {"in_progress", "completed"},
          claimedAt : Nat, expires : Nat]

\* None is no claim: a GetItem that finds an item is told from one that does not.
ASSUME ClaimAssumption == None \notin Claim

\* rid is the aws_request_id, which every retry of the invocation shares.
Message == [slot : Slot, rid : Nat, tries : Nat, born : Nat]

Row == [id : Identity, recorded : Nat, disp : Dispositions, supersedes : SUBSET Nat]

Steps == {"claim", "read", "take", "plan", "copy", "append", "emit", "complete", "done"}

RunState == [pc : Steps, msg : Message, req : Identity, id : Identity,
             kind : {"none", "WON", "TAKEN_OVER", "LOST", "incomplete", "unreadable"},
             owner : Nat, at : Nat, started : Nat, rows : SUBSET Row]

Live == {p \in Run : run[p] # None}

At(p, step) == p \in Live /\ run[p].pc = step

\* p carries out a registration it won or took over.
Executes(p, b) ==
  /\ p \in Live /\ run[p].id.batch = b
  /\ run[p].kind \in {"WON", "TAKEN_OVER"}
  /\ run[p].pc \in {"plan", "copy", "append", "emit", "complete"}

-------------------------------------------------------------------------------
\* The Lambda platform

\* A run takes a waiting invocation; its driver step decides the rest.
Invoked(p, m, state) ==
  /\ p \notin Live /\ m \in inbox /\ clock - m.born <= EventAge
  /\ inbox' = inbox \ {m}
  /\ run' = [run EXCEPT ![p] = state]

\* The step of p named `step` is followed by `next`.
Goto(p, step, next) ==
  /\ At(p, step)
  /\ run' = [run EXCEPT ![p].pc = next]

\* The invocation returns.
Return(p) ==
  /\ At(p, "done")
  /\ run' = [run EXCEPT ![p] = None]
  /\ UNCHANGED <<clock, stamp, slot, inbox, claims, ledger, canonical, events, background>>

\* What the platform does with a failed asynchronous invocation: run it again
\* under the same request id, until its retries run out and it goes to the
\* dead-letter queue.
Requeue(p) ==
  LET m == run[p].msg IN
  /\ inbox' = IF m.tries < MaxRetries THEN inbox \cup {[m EXCEPT !.tries = @ + 1]} ELSE inbox
  /\ run' = [run EXCEPT ![p] = None]

\* A TransientError, an unexpected exception, a kill or the timeout, after any
\* step.
Fail(p) ==
  /\ p \in Live /\ clock <= LastFailure /\ failures < MaxFailures
  /\ Requeue(p)
  /\ failures' = failures + 1
  /\ UNCHANGED <<clock, stamp, slot, claims, ledger, canonical, events, swept, recon, sent>>

\* An event too old is dropped into the dead-letter queue.
Expire(m) ==
  /\ m \in inbox /\ clock - m.born > EventAge
  /\ inbox' = inbox \ {m}
  /\ UNCHANGED <<clock, stamp, slot, claims, ledger, canonical, events, run, background>>

\* No invocation outlives LambdaMax.
Tick ==
  /\ clock < MaxClock
  /\ \A p \in Live : clock + 1 - run[p].started <= LambdaMax
  /\ clock' = clock + 1
  /\ UNCHANGED <<stamp, slot, inbox, claims, ledger, canonical, events, run, background>>

-------------------------------------------------------------------------------
\* cas.claim

\* Mutant: the PutItem has lost its condition.
ClaimWinUnconditionally(p) ==
  LET b == run[p].req.batch IN
  /\ At(p, "claim")
  /\ claims' = [claims EXCEPT ![b] =
       [id |-> run[p].req, owner |-> run[p].msg.rid, status |-> "in_progress",
        claimedAt |-> clock, expires |-> clock + ClaimTTL]]
  /\ run' = [run EXCEPT ![p].pc = "plan", ![p].kind = "WON", ![p].id = run[p].req]
  /\ UNCHANGED <<clock, stamp, slot, inbox, ledger, canonical, events, background>>

\* The conditional PutItem succeeds.
ClaimWin(p) ==
  LET b == run[p].req.batch IN
  /\ At(p, "claim") /\ claims[b] = None
  /\ claims' = [claims EXCEPT ![b] =
       [id |-> run[p].req, owner |-> run[p].msg.rid, status |-> "in_progress",
        claimedAt |-> clock, expires |-> clock + ClaimTTL]]
  /\ run' = [run EXCEPT ![p].pc = "plan", ![p].kind = "WON", ![p].id = run[p].req]
  /\ UNCHANGED <<clock, stamp, slot, inbox, ledger, canonical, events, background>>

\* The conditional PutItem finds an item.
ClaimLose(p) ==
  /\ At(p, "claim") /\ claims[run[p].req.batch] # None
  /\ run' = [run EXCEPT ![p].pc = "read", ![p].at = clock]
  /\ UNCHANGED <<clock, stamp, slot, inbox, claims, ledger, canonical, events, background>>

\* Mutant: the duplicate is recorded for the delivery that holds the claim.
LostUnderTheClaim(p) ==
  LET c == claims[run[p].req.batch] IN
  run' = [run EXCEPT ![p].pc = "plan", ![p].kind = "LOST",
                     ![p].id = IF c = None THEN run[p].req ELSE c.id]

\* LOST_COMPLETED or LOST_IN_PROGRESS: the plan is a duplicate row for the
\* request's own delivery.
Lost(p) ==
  run' = [run EXCEPT ![p].pc = "plan", ![p].kind = "LOST", ![p].id = run[p].req]

\* Mutant: the threshold does not exceed the life of an invocation.
IsStaleWithinALife(claim, now) ==
  claim.status = "in_progress" /\ now - claim.claimedAt >= LambdaMax

\* An in-progress claim this old has no live owner.
IsStale(claim, now) ==
  claim.status = "in_progress" /\ now - claim.claimedAt > StaleAfter

\* The consistent GetItem.  An item that vanished in between is a
\* TransientError, which Fail stands for.
ClaimRead(p) ==
  LET c == claims[run[p].req.batch] IN
  /\ At(p, "read") /\ c # None
  /\ \/ ~IsStale(c, run[p].at) /\ Lost(p)
     \/ /\ IsStale(c, run[p].at)
        /\ run' = [run EXCEPT ![p].pc = "take", ![p].id = c.id, ![p].owner = c.owner]
  /\ UNCHANGED <<clock, stamp, slot, inbox, claims, ledger, canonical, events, background>>

\* The GetItem finds nothing: claim() raises TransientError, retried like Fail
\* but whatever the time.
ClaimVanished(p) ==
  /\ At(p, "read") /\ claims[run[p].req.batch] = None
  /\ Requeue(p)
  /\ UNCHANGED <<clock, stamp, slot, claims, ledger, canonical, events, background>>

\* The condition of the UpdateItem: the owner alone fences, not claimedAt.
OwnerUnchanged(p) ==
  LET c == claims[run[p].req.batch] IN
  c # None /\ c.owner = run[p].owner /\ c.status = "in_progress"

\* Mutant: the takeover refreshes the claim but leaves its owner.
ClaimTakeKeepingOwner(p) ==
  LET b == run[p].req.batch IN
  /\ At(p, "take")
  /\ \/ /\ OwnerUnchanged(p)
        /\ claims' = [claims EXCEPT ![b].claimedAt = run[p].at]
        /\ run' = [run EXCEPT ![p].pc = "plan", ![p].kind = "TAKEN_OVER"]
     \/ /\ ~OwnerUnchanged(p) /\ Lost(p) /\ UNCHANGED claims
  /\ UNCHANGED <<clock, stamp, slot, inbox, ledger, canonical, events, background>>

ClaimTake(p) ==
  LET b == run[p].req.batch IN
  /\ At(p, "take")
  /\ \/ /\ OwnerUnchanged(p)
        /\ claims' = [claims EXCEPT ![b].owner = run[p].msg.rid, ![b].claimedAt = run[p].at]
        /\ run' = [run EXCEPT ![p].pc = "plan", ![p].kind = "TAKEN_OVER"]
     \/ /\ ~OwnerUnchanged(p) /\ Lost(p) /\ UNCHANGED claims
  /\ UNCHANGED <<clock, stamp, slot, inbox, ledger, canonical, events, background>>

-------------------------------------------------------------------------------
\* plan_registration and plan_nondelivery, on a scan of the ledger

\* Mutant: a registered row is stamped with the instant of its acquisition.
NewRowStampedAtReceipt(id, disp, supersedes) ==
  [id |-> id, recorded |-> IF disp = "registered" THEN id.delivery ELSE stamp + 1,
   disp |-> disp, supersedes |-> supersedes]

NewRow(id, disp, supersedes) ==
  [id |-> id, recorded |-> stamp + 1, disp |-> disp, supersedes |-> supersedes]

\* Mutant: a disposition outside the vocabulary.
SupersededAsCorrected(r) == [r EXCEPT !.disp = "corrected", !.recorded = stamp + 1]

\* An accretion row: the identity columns verbatim.
Superseded(r) == [r EXCEPT !.disp = "superseded", !.recorded = stamp + 1]

LivePrior(id) ==
  {r \in RegisteredDeliveries(ledger) : r.id.key = id.key /\ r.id.delivery # id.delivery}

\* _detect_supersession: the latest live delivery of the key, when its content
\* differs.
Corrected(id) ==
  {r \in LivePrior(id) : /\ \A q \in LivePrior(id) : q.id.delivery <= r.id.delivery
                         /\ r.id.batch # id.batch}

RegistrationRows(id) ==
  {NewRow(id, "registered", {r.id.delivery : r \in Corrected(id)})}
    \cup {Superseded(r) : r \in Corrected(id)}

\* _latest_row_for_key: the most recently recorded current row of a key.
LatestOfKey(k) ==
  LET current == {r \in LatestDispositions(ledger) : r.id.key = k} IN
  {r \in current : \A q \in current : q.recorded <= r.recorded}

\* Mutant: the objects are not compared.
NotedByKey(id, verdict) == \E r \in LatestOfKey(id.key) : r.disp = verdict

\* The append-on-change rule: names and byte counts are compared, hashes are
\* not.
AlreadyNoted(id, verdict) ==
  \E r \in LatestOfKey(id.key) : r.disp = verdict /\ r.id.objects = id.objects

PlannedRows(p) ==
  LET id == run[p].id
      kind == run[p].kind IN
  CASE kind \in {"WON", "TAKEN_OVER"} -> RegistrationRows(id)
    [] kind = "LOST" -> {NewRow(id, "duplicate", {})}
    [] OTHER -> IF AlreadyNoted(id, kind) THEN {} ELSE {NewRow(id, kind, {})}

AfterPlan(p) ==
  CASE run[p].kind \in {"WON", "TAKEN_OVER"} -> "copy"
    [] PlannedRows(p) = {} -> "done"
    [] OTHER -> "append"

\* scan_feed, the clock read and the plan.
Plan(p) ==
  /\ At(p, "plan")
  /\ stamp' = stamp + 1
  /\ run' = [run EXCEPT ![p].rows = PlannedRows(p), ![p].pc = AfterPlan(p)]
  /\ UNCHANGED <<clock, slot, inbox, claims, ledger, canonical, events, background>>

-------------------------------------------------------------------------------
\* execute: E1 copy, E2 append, E3 emit, E4 complete

\* Mutant: an unpinned copy reads the slot again.
CurrentContent(p) == slot[run[p].id.slot]

\* The content E1 copies: the version that was hashed, whatever the slot holds
\* by now.
CopiedContent(p) == run[p].id.batch

Copy(p) ==
  LET d == run[p].id.delivery IN
  /\ Goto(p, "copy", "append")
  /\ canonical' = {o \in canonical : o[1] # d} \cup {<<d, CopiedContent(p)>>}
  /\ UNCHANGED <<clock, stamp, slot, inbox, claims, ledger, events, background>>

\* Mutant: the claim is completed without the event.
AppendRowsThenComplete(p) ==
  /\ Goto(p, "append", IF run[p].kind \in {"WON", "TAKEN_OVER"} THEN "complete" ELSE "done")
  /\ ledger' = ledger \cup run[p].rows
  /\ UNCHANGED <<clock, stamp, slot, inbox, claims, canonical, events, background>>

\* One atomic Iceberg commit.
AppendRows(p) ==
  /\ Goto(p, "append", IF run[p].kind \in {"WON", "TAKEN_OVER"} THEN "emit" ELSE "done")
  /\ ledger' = ledger \cup run[p].rows
  /\ UNCHANGED <<clock, stamp, slot, inbox, claims, canonical, events, background>>

Emit(p) ==
  /\ Goto(p, "emit", "complete")
  /\ events' = events \cup {run[p].id}
  /\ UNCHANGED <<clock, stamp, slot, inbox, claims, ledger, canonical, background>>

\* cas.complete: fenced on the owner; a failed condition is absorbed.
Completable(c, rid) == c # None /\ c.owner = rid

Complete(p) ==
  LET b == run[p].id.batch
      c == claims[b] IN
  /\ Goto(p, "complete", "done")
  /\ claims' = IF Completable(c, run[p].msg.rid)
               THEN [claims EXCEPT ![b].status = "completed", ![b].expires = clock + ClaimTTL]
               ELSE claims
  /\ UNCHANGED <<clock, stamp, slot, inbox, ledger, canonical, events, background>>

-------------------------------------------------------------------------------
\* DynamoDB deletes an item some time after it expires.
Reap(b) ==
  /\ claims[b] # None /\ clock > claims[b].expires
  /\ claims' = [claims EXCEPT ![b] = None]
  /\ UNCHANGED <<clock, stamp, slot, inbox, ledger, canonical, events, run, background>>

\* The filter of sweep_stale.
Stuck(claim, now) ==
  claim # None /\ claim.status = "in_progress" /\ claim.claimedAt <= now - StaleAfter

-------------------------------------------------------------------------------
\* The weekly reconciliation (maintenance/optimize.py)

NotReconciling == [busy |-> FALSE, rows |-> {}, runs |-> recon.runs]

\* live_duplicates_from_rows: the live deliveries that share their key.
LiveDuplicates(rows) ==
  LET live == RegisteredDeliveries(rows) IN
  {r \in live : \E q \in live : q # r /\ q.id.key = r.id.key}

\* Mutant: the oldest is kept.
AllButOldest(rows) ==
  {r \in rows : \E q \in rows : q.id.key = r.id.key /\ q.id.delivery < r.id.delivery}

\* plan_reconciliation: of the live deliveries of a key, all but the newest.
AllButNewest(rows) ==
  {r \in rows : \E q \in rows : q.id.key = r.id.key /\ q.id.delivery > r.id.delivery}

\* The Athena query returns the live duplicates of its snapshot.
ReconcileRead ==
  /\ ~recon.busy /\ recon.runs < MaxReconciliations
  /\ recon' = [busy |-> TRUE, rows |-> LiveDuplicates(ledger), runs |-> recon.runs + 1]
  /\ UNCHANGED <<clock, stamp, slot, inbox, claims, ledger, canonical, events, run, swept, failures, sent>>

\* Polling and paging later, the plan is made, stamped and appended.
ReconcileAppend ==
  /\ recon.busy
  /\ stamp' = stamp + 1
  /\ ledger' = ledger \cup {Superseded(r) : r \in AllButNewest(recon.rows)}
  /\ recon' = NotReconciling
  /\ UNCHANGED <<clock, slot, inbox, claims, canonical, events, run, swept, failures, sent>>

\* Any step of the job fails: nothing is appended until next week.
ReconcileFail ==
  /\ recon.busy
  /\ recon' = NotReconciling
  /\ UNCHANGED <<clock, stamp, slot, inbox, claims, ledger, canonical, events, run, swept, failures, sent>>

-------------------------------------------------------------------------------
RegistrationInit ==
  /\ clock = 0 /\ stamp = 0 /\ failures = 0 /\ sent = 0
  /\ inbox = {} /\ ledger = {} /\ canonical = {} /\ events = {}
  /\ slot = [s \in Slot |-> None]
  /\ claims = [b \in Content |-> None]
  /\ run = [p \in Run |-> None]
  /\ swept = [b \in Content |-> -SweepPeriod]
  /\ recon = [busy |-> FALSE, rows |-> {}, runs |-> 0]

\* The steps of a registration.
Advance(p) ==
  \/ ClaimWin(p) \/ ClaimLose(p) \/ ClaimRead(p) \/ ClaimVanished(p) \/ ClaimTake(p)
  \/ Plan(p) \/ Copy(p) \/ AppendRows(p) \/ Emit(p) \/ Complete(p) \/ Return(p)

\* What every driver shares.
RegistrationNext ==
  \/ \E p \in Run : Advance(p) \/ Fail(p)
  \/ \E m \in inbox : Expire(m)
  \/ \E b \in Content : Reap(b)
  \/ Tick \/ ReconcileRead \/ ReconcileAppend \/ ReconcileFail

================================================================================
