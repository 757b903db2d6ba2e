------------------------------- MODULE SpineJob -------------------------------
(***************************************************************************)
(* One delivery from the router to batch-completed, as the operators see   *)
(* it: the execution the router starts (entrypoints/router.py), its        *)
(* retries by the state machine and its reruns by hand, what a job refuses *)
(* before it lands anything (entrypoints/glue_main.py), the eight stages   *)
(* with the contents they judge (Admission), the run ledger every stage    *)
(* reports to (core/run_facts.py, effects/ledger.py), and around it the    *)
(* world that moves between two attempts: the spec is deployed anew, the   *)
(* tables are provisioned by a script (Provisioning), a co-effect changes. *)
(*                                                                         *)
(* BatchRun models the races of several batches over abstract rows; here a *)
(* single batch runs over real contents, so no predecessor takes part in   *)
(* its delta detection.                                                    *)
(*                                                                         *)
(* A scene is a delivery and its surroundings: the specs in the order they *)
(* are deployed, the registered details, the arguments of the job, the     *)
(* objects, the catalog and inventory at the start, the later rows of a    *)
(* co-effect, and how much may happen.                                     *)
(***************************************************************************)
EXTENDS Admission, Provisioning

CONSTANTS
  Scenes,        \* the scenes
  Ids,           \* the identifiers of the grammars of feed, delivery and batch ids
  ArgvBudget,    \* the largest detail the router forwards
  MaxRetries     \* retries of the state machine after the first attempt

ASSUME RetriesAssumption == MaxRetries \in Nat
\* Specs follow each other, list columns, declare finitely many fact types and
\* find a catalog; the name of a pipeline is a sequence of characters.
ASSUME SceneAssumption ==
  \A sc \in Scenes :
    /\ sc.specs \in Seq(Elems(sc.specs))
    /\ \A s \in Elems(sc.specs) : IsFiniteSet(DOMAIN s.fact_types) /\ s.columns \in Seq(Elems(s.columns))
    /\ \A d \in sc.details : d.pipeline \in Seq(Elems(d.pipeline))
    /\ \A t \in DOMAIN sc.catalog : DOMAIN sc.catalog[t] = {"class", "columns", "rows"}
    /\ sc.budget \in [{"faults", "losses", "reruns", "refreshes", "scripts"} -> Nat]
\* The objects of a delivery, in the order the details list them.
ObjectsOf(sc, d) == [i \in DOMAIN d.object_uris |-> sc.objects[d.object_uris[i].name]]
\* An object lists its lines and a line its cells, none of them absent; a blank
\* line has no quotes.
WellListed(o) ==
  /\ o.lines \in Seq(Elems(o.lines))
  /\ \A l \in Elems(o.lines) :
       /\ l.cells \in Seq(Elems(l.cells)) /\ None \notin Elems(l.cells)
       /\ None # l.cells /\ None # <<l>>
       /\ l.cells = <<>> => l.shape \notin {"opens", "junk"}
\* The checks list their columns, and objects whose names are plain are listed
\* and hold finitely many records.
ASSUME DataAssumption ==
  \A sc \in Scenes : \A s \in Elems(sc.specs) :
    /\ \A c \in Elems(s.checks) : {c.columns, c.ref_columns} \subseteq Seq(Elems(c.columns) \cup Elems(c.ref_columns))
    /\ \A d \in sc.details :
         (\A u \in Elems(d.object_uris) : u.name \notin BadObjectNames) =>
           LET rows == read_objects(ObjectsOf(sc, d), s)
           IN /\ rows # None => IsFiniteSet(DOMAIN rows)
              /\ \A o \in Elems(Sorted(ObjectsOf(sc, d))) : WellListed(o)
\* The specs of a scene keep the tables that hold the rows and the markers of
\* a batch: a batch stands for what is in one of each.
ASSUME HomesAssumption ==
  \A sc \in Scenes : \A s, r \in Elems(sc.specs) :
    s.raw_table = r.raw_table /\ s.quarantine_table = r.quarantine_table
\* A set of tables is a value, and so is the cause of a failure.
ASSUME TablesAssumption ==
  \A sc \in Scenes : \A s \in Elems(sc.specs) : \A tables \in SUBSET FactTables(s) : tables # None
ASSUME CausesAssumption == None \notin {"spec", "identity", "structure"}
\* The expressions of row checks are trees as the parser returns them.
ASSUME ExpressionsAssumption ==
  \A sc \in Scenes : \A s \in Elems(sc.specs) : \A c \in Elems(s.checks) : c.kind = "row" => Parsed(c.expr)

VARIABLES
  scene,         \* the scene that plays
  deployed,      \* the spec at the URI of the pipeline, 0 for none
  exec,          \* the execution: [status, detail, machine, try, rerun]
  job,           \* the running job (BatchContext), None when none runs
  batch,         \* the rows of the batch in the tables, its markers and events
  ledger,        \* the run ledger: its rows and the losses that were logged
  budget         \* what may still happen

jobVars == <<scene, deployed, exec, job, batch, ledger, budget>>
allVars == <<jobVars, provisioningVars>>

DeployedSpec == scene.specs[deployed]
SEQUENCE == <<"land", "pre_check", "pull", "apply", "post_check", "commit", "fold", "publish">>

Idle == [status |-> "none", detail |-> None, machine |-> None, try |-> 0, rerun |-> 0]
Fresh == [pc |-> "load", version |-> 0, spec |-> None, facts |-> None, skips |-> {}, drift |-> {}, valid |-> None,
          co |-> None, cands |-> None, admitted |-> None, left |-> <<>>, pending |-> None]

Init ==
  /\ scene \in Scenes
  /\ deployed = IF scene.specs = <<>> THEN 0 ELSE 1
  /\ catalog = scene.catalog /\ inventory = scene.inventory /\ script = None
  /\ exec = Idle /\ job = None
  /\ batch = [raw |-> << >>, preq |-> {}, postq |-> {}, facts |-> << >>, markers |-> {},
              folded |-> {}, announced |-> None, by |-> {}, judge |-> 0]
  /\ ledger = [rows |-> << >>, losses |-> {}]
  /\ budget = scene.budget

Spend(what) == budget[what] > 0 /\ budget' = [budget EXCEPT ![what] = @ - 1]

-----------------------------------------------------------------------------
(* The router: every v1 field, a batch id and a pipeline of their grammars *)
(* and a size within the budget; the machine of that slug has to exist.  A *)
(* second event of the batch meets the execution and counts as success.    *)
V1_FIELDS == {"schema_version", "feed_id", "delivery_id", "batch_id", "delivery_key", "content_hash",
              "size_bytes", "object_uris", "received_at", "pipeline"}

Routable(d) ==
  /\ V1_FIELDS \subseteq d.fields
  /\ d.batch_id \in Ids /\ PipelineOK(d.pipeline)
  /\ d.size <= ArgvBudget
  /\ slug(d.pipeline) \in scene.machines

Route ==
  /\ exec.status = "none"
  /\ \E d \in scene.details :
       exec' = IF Routable(d)
               THEN [status |-> "running", detail |-> d, machine |-> slug(d.pipeline), try |-> 1, rerun |-> 0]
               ELSE [Idle EXCEPT !.status = "refused", !.detail = d]
  /\ job' = IF exec'.status = "running" THEN Fresh ELSE None
  /\ UNCHANGED <<scene, deployed, batch, ledger, budget, provisioningVars>>

\* Mutants: without its bound, and without counting.
RetryForever ==
  /\ exec.status = "running" /\ job = None
  /\ exec' = [exec EXCEPT !.try = @ + 1]
  /\ job' = Fresh
  /\ UNCHANGED <<scene, deployed, batch, ledger, budget, provisioningVars>>
RetryUncounted ==
  /\ exec.status = "running" /\ job = None /\ exec.try <= MaxRetries
  /\ job' = Fresh
  /\ UNCHANGED <<scene, deployed, exec, batch, ledger, budget, provisioningVars>>

(* An attempt that ended without success is repeated by the state machine, *)
(* whatever the error was; then the execution fails.                       *)
Retry ==
  /\ exec.status = "running" /\ job = None /\ exec.try <= MaxRetries
  /\ exec' = [exec EXCEPT !.try = @ + 1]
  /\ job' = Fresh
  /\ UNCHANGED <<scene, deployed, batch, ledger, budget, provisioningVars>>

GiveUp ==
  /\ exec.status = "running" /\ job = None /\ exec.try > MaxRetries
  /\ exec' = [exec EXCEPT !.status = "failed"]
  /\ UNCHANGED <<scene, deployed, job, batch, ledger, budget, provisioningVars>>

(* An operator reruns the batch under a name of its own.                   *)
Rerun ==
  /\ exec.status \in {"failed", "succeeded"} /\ Spend("reruns")
  /\ is_rerun_execution_name(rerun_execution_name(exec.detail.batch_id, exec.rerun + 1))
  /\ exec' = [exec EXCEPT !.status = "running", !.try = 1, !.rerun = @ + 1]
  /\ job' = Fresh
  /\ UNCHANGED <<scene, deployed, batch, ledger, provisioningVars>>

Attempt == <<exec.rerun, exec.try>>

-----------------------------------------------------------------------------
(* Before the first stage. Nothing is written, not even to the ledger.     *)
CountTexts == <<"0", "1", "2">>
Token(form, key, value) == [form |-> form, key |-> key, value |-> value]
Argv ==
  scene.argv \o
  <<Token("flag", "JOB_RUN_ID", ""), Token("plain", "", "jr"),
    Token("flag", "delivery", ""), Token("plain", "", "delivery"),
    Token("equals", "sfn-retry-count", CountTexts[exec.try]),
    Token("equals", "sfn-redrive-count", "0")>>

(* DeliveryRegisteredV1, parsed again in the job.                          *)
SeedOK(d) ==
  /\ d.version = 1
  /\ {d.batch_id, d.feed_id, d.delivery_id} \subseteq Ids
  /\ d.object_uris # <<>>

LoadOK(config) ==
  /\ config # None
  /\ SeedOK(exec.detail) /\ check_object_uris(exec.detail, config["landing-bucket"])
  /\ config["pipeline-spec-uri"] = "uri"
  /\ check_spec_uri_allowlist(scene.uri, slug(exec.detail.pipeline), config["artifacts-bucket"])
  /\ deployed # 0
  /\ Parses(DeployedSpec)
  /\ BindingMatches(DeployedSpec, [pipeline |-> exec.detail.pipeline, sla |-> config["sla-minutes"]])
  /\ TransformsBind(DeployedSpec)
  /\ EngineProbes(DeployedSpec)

Load ==
  /\ job # None /\ job.pc = "load"
  /\ job' = IF LoadOK(from_args(Argv)) THEN [job EXCEPT !.pc = "describe", !.version = deployed, !.spec = DeployedSpec] ELSE None
  /\ UNCHANGED <<scene, deployed, exec, batch, ledger, budget, provisioningVars>>

(* Every referenced table is described; the markers table has a derived    *)
(* name, which may be no identifier.                                       *)
Describe ==
  /\ job # None /\ job.pc = "describe"
  /\ job' = IF check_qualified_table(MarkersTable(job.spec))
            THEN [job EXCEPT !.pc = "bind", !.facts = CatalogFacts(job.spec, catalog)] ELSE None
  /\ UNCHANGED <<scene, deployed, exec, batch, ledger, budget, provisioningVars>>

COMMIT_COMPLETION_SENTINEL == <<"-completion-">>
committed_tables(s) == {m[2] : m \in {k \in batch.markers : k[1] = MarkersTable(s)}} \ {COMMIT_COMPLETION_SENTINEL}

Bind ==
  /\ job # None /\ job.pc = "bind"
  /\ job' = IF inventory # None
               /\ validate_bindings(job.spec, job.facts, inventory, committed_tables(job.spec))
               /\ from_args(Argv)["run-config"] = "config"
            THEN [job EXCEPT !.pc = "land"] ELSE None
  /\ batch' = IF job' = None THEN batch ELSE [batch EXCEPT !.by = @ \cup {job.version}]
  /\ UNCHANGED <<scene, deployed, exec, ledger, budget, provisioningVars>>

-----------------------------------------------------------------------------
(* The stages.  One that returns or raises is reported, then the next one  *)
(* starts or the job ends.                                                 *)
At(stage) == job # None /\ job.pc = stage

Report(stage, outcome, cause, j) ==
  [j EXCEPT !.pc = "record",
            !.pending = [attempt |-> Attempt, stage |-> stage, outcome |-> outcome, cause |-> cause,
                         drift |-> stage \in j.drift]]
Ended(stage, j) == Report(stage, IF stage \in j.skips THEN "skipped-guard" ELSE "ok", None, j)
\* Mutant: a guarded stage that is reported as if it had worked.
SkippedUnseen(stage, j) == j
Skipped(stage, j) == [j EXCEPT !.skips = @ \cup {stage}]
Raised(stage, cause) == Report(stage, "failed", cause, job)
Raise(stage, cause) == job' = Raised(stage, cause) /\ UNCHANGED batch

StageFrame == UNCHANGED <<scene, deployed, exec, ledger, budget, provisioningVars>>

Exists(tables) == tables \subseteq DOMAIN catalog
Writable(table, columns) == table \in DOMAIN catalog /\ DOMAIN catalog[table].columns = DOMAIN columns

Landed == DOMAIN batch.raw # {}
Objects == ObjectsOf(scene, exec.detail)
Land ==
  /\ At("land")
  /\ LET s == job.spec rows == read_objects(Objects, s)
     IN IF ~Exists({s.raw_table}) THEN Raise("land", "tables")
        ELSE IF Landed THEN job' = Skipped("land", [job EXCEPT !.pc = "announce"]) /\ UNCHANGED batch
        ELSE IF rows = None THEN Raise("land", "objects")
        ELSE IF ~Writable(s.raw_table, raw_columns(s)) THEN Raise("land", "tables")
        ELSE /\ job' = [job EXCEPT !.pc = "announce"]
             /\ batch' = [batch EXCEPT !.raw = rows]
  /\ StageFrame

(* batch-started is emitted after the rows are durable.                    *)
Announce == At("announce") /\ job' = Ended("land", job) /\ UNCHANGED batch /\ StageFrame

(* The landed rows, as the columns the table has now show them.            *)
RawRows(s) ==
  [l \in DOMAIN batch.raw |->
     [batch.raw[l] EXCEPT !.cells = [n \in Declared(s.columns) |-> IF n \in DOMAIN @ THEN @[n] ELSE None]]]

\* Mutant: the doors do not ask for facts.
AnyFactIgnored(s) == FALSE
AnyFactPresent(s) == FactTables(s) \cap DOMAIN batch.facts # {}
CountIdentity(whole, part, rest) ==
  Cardinality(DOMAIN whole) = Cardinality(DOMAIN part) + Cardinality(DOMAIN rest)

(* Door 1 subtracts what an earlier attempt refused, door 2 takes all      *)
(* readable rows of a batch that has facts, door 3 judges.                 *)
PreChecked(valid, s) == [job EXCEPT !.valid = typed_projection(valid, s)]
Drifted(stage, drift, j) == IF drift THEN [j EXCEPT !.drift = @ \cup {stage}] ELSE j

PreCheck ==
  /\ At("pre_check")
  /\ LET s == job.spec
         raw == RawRows(s)
         drift == PreDrift(raw, batch.preq, s)
         viol == violations(raw, s)
         valid == zero_failures(raw, s)
     IN IF \/ ~Exists({s.quarantine_table} \cup FactTables(s))
           \/ ~(Declared(s.columns) \subseteq DOMAIN catalog[s.raw_table].columns)
        THEN Raise("pre_check", "tables")
        ELSE IF ~(PatternsCompile(s) /\ FmtsCompile(s)) THEN Raise("pre_check", "spec")
        ELSE IF batch.preq # {}
        THEN /\ job' = Ended("pre_check", Skipped("pre_check", Drifted("pre_check", drift,
                               PreChecked(locator_subtraction(raw, batch.preq), s))))
             /\ UNCHANGED batch
        ELSE IF AnyFactPresent(s)
        THEN /\ job' = Ended("pre_check", Drifted("pre_check", drift, PreChecked(readable_rows(raw), s)))
             /\ UNCHANGED batch
        ELSE /\ job' = IF CountIdentity(raw, valid, viol) THEN Ended("pre_check", PreChecked(valid, s))
                       ELSE Raised("pre_check", "identity")
             /\ batch' = [batch EXCEPT !.preq = shape_pre_quarantine(viol, s), !.judge = job.version]
  /\ StageFrame

Pull ==
  /\ At("pull")
  /\ job' = IF Exists(CoEffectTables(job.spec))
            THEN Ended("pull", [job EXCEPT !.co = [a \in DOMAIN job.spec.co_effects |->
                                                     catalog[job.spec.co_effects[a].table].rows]])
            ELSE Raised("pull", "tables")
  /\ UNCHANGED batch /\ StageFrame

Apply ==
  /\ At("apply")
  /\ job' = IF assert_return_shape(job.spec)
               /\ \A t \in DOMAIN job.spec.fact_types : assert_candidate_schema(job.spec, t)
            THEN Ended("apply", [job EXCEPT !.cands = apply(job.valid, job.spec)])
            ELSE Raised("apply", "transforms")
  /\ UNCHANGED batch /\ StageFrame

(* The reference columns a membership check joins on are those of the      *)
(* table as it was pulled.                                                 *)
ChecksCompile(s) ==
  /\ CheckExpressionsCompile(s)
  /\ \A c \in Elems(s.checks) :
       c.kind = "membership" =>
         Elems(c.ref_columns) \subseteq DOMAIN catalog[s.co_effects[c.co_effect].table].columns

PostCheck ==
  /\ At("post_check")
  /\ LET s == job.spec
         types == DOMAIN s.fact_types
         admit(A(_)) == [job EXCEPT !.admitted = [t \in types |-> A(t)]]
         drift == PostDrift(job.cands, batch.postq, s, job.co)
         viol(t) == business_violations(job.cands[t], s, t, job.co)
         passed(t) == admitted_candidates(job.cands[t], s, t, job.co)
         shaped == UNION {shape_post_quarantine(viol(t), s, t) : t \in types}
     IN IF ~ChecksCompile(s) THEN Raise("post_check", "spec")
        ELSE IF batch.postq # {}
        THEN /\ job' = Ended("post_check", Skipped("post_check", Drifted("post_check", drift,
                               admit(LAMBDA t : hash_subtraction(job.cands[t], t, batch.postq)))))
             /\ UNCHANGED batch
        ELSE IF AnyFactPresent(s)
        THEN /\ job' = Ended("post_check", Drifted("post_check", drift, admit(LAMBDA t : job.cands[t])))
             /\ UNCHANGED batch
        ELSE IF \E t \in types : ~CountIdentity(job.cands[t], passed(t), viol(t))
        THEN Raise("post_check", "identity")
        ELSE /\ job' = Ended("post_check", admit(passed))
             /\ batch' = [batch EXCEPT !.postq = shaped]
  /\ StageFrame

-----------------------------------------------------------------------------
(* Commit and fold go through the declared types one by one.               *)
Types(s) == SetToSeq(DOMAIN s.fact_types)
Current == job.spec.fact_types[Head(job.left)]
Pass(j) == [j EXCEPT !.left = Tail(@)]
Mark(t) == batch' = [batch EXCEPT !.markers = @ \cup {<<MarkersTable(job.spec), t>>}]
Marked(t) == <<MarkersTable(job.spec), t>> \in batch.markers

OpenCommit ==
  /\ At("commit")
  /\ job' = IF Exists({MarkersTable(job.spec)})
            THEN [job EXCEPT !.pc = "tables", !.left = Types(job.spec)]
            ELSE Raised("commit", "tables")
  /\ UNCHANGED batch /\ StageFrame

(* A table with facts of the batch keeps them; its twin is made good.      *)
CommitTable ==
  /\ At("tables") /\ job.left # <<>>
  /\ LET table == Current.fact_table
         cands == job.admitted[Head(job.left)]
         novel == novel_facts(cands)
     IN IF table \in DOMAIN batch.facts
        THEN Mark(table) /\ job' = Pass(Skipped("commit", job))
        ELSE IF ~structural_fact_check(cands, Current, catalog[table])
        THEN Raise("commit", IF Writable(table, fact_and_state_columns(Current)) THEN "structure" ELSE "tables")
        ELSE IF novel = {} THEN job' = Pass(job) /\ UNCHANGED batch
        ELSE IF ~Marked(table) THEN Mark(table) /\ UNCHANGED job
        ELSE /\ batch' = [batch EXCEPT !.facts = Put(@, table, novel)]
             /\ job' = Pass(job)
  /\ StageFrame

Complete ==
  /\ At("tables") /\ job.left = <<>>
  /\ Mark(COMMIT_COMPLETION_SENTINEL)
  /\ job' = Ended("commit", job)
  /\ StageFrame

OpenFold ==
  /\ At("fold")
  /\ job' = [job EXCEPT !.pc = "states", !.left = Types(job.spec)]
  /\ UNCHANGED batch /\ StageFrame

FoldTable ==
  /\ At("states") /\ job.left # <<>>
  /\ LET table == Current.fact_table
     IN IF table \notin DOMAIN batch.facts THEN job' = Pass(job) /\ UNCHANGED batch
        ELSE IF ~Exists({Current.state_table}) THEN Raise("fold", "tables")
        ELSE /\ batch' = [batch EXCEPT !.folded = @ \cup {table}]
             /\ job' = Pass(job)
  /\ StageFrame

EndFold ==
  /\ At("states") /\ job.left = <<>>
  /\ job' = Ended("fold", job)
  /\ UNCHANGED batch /\ StageFrame

(* batch-completed counts the durable facts of every declared table.       *)
Publish ==
  /\ At("publish")
  /\ batch' = [batch EXCEPT !.announced = FactTables(job.spec) \cap DOMAIN batch.facts]
  /\ job' = Ended("publish", job)
  /\ StageFrame

-----------------------------------------------------------------------------
(* The run ledger. A row is appended by two tries, of which one may have   *)
(* succeeded without the answer arriving; a loss is logged, and the job    *)
(* goes on in any case.                                                    *)
Recorded(row, copies, lost) ==
  [rows   |-> IF copies = 0 THEN ledger.rows ELSE Put(ledger.rows, row, copies),
   losses |-> IF lost THEN ledger.losses \cup {row} ELSE ledger.losses]

try_append(row) ==
  \/ ledger' = Recorded(row, 1, FALSE) /\ UNCHANGED budget
  \/ /\ Spend("losses")
     /\ \E copies \in 0..2, lost \in BOOLEAN : (copies < 2 => lost) /\ ledger' = Recorded(row, copies, lost)

(* After the report of a stage: the next stage, or the end of the attempt. *)
Place(stage) == CHOOSE i \in DOMAIN SEQUENCE : SEQUENCE[i] = stage
Following(stage) == SEQUENCE[Place(stage) + 1]

\* Mutant: a stage that skipped reports nothing.
RecordRunUnlessSkipped ==
  /\ At("record")
  /\ IF job.pending.outcome = "skipped-guard" THEN UNCHANGED <<ledger, budget>> ELSE try_append(job.pending)
  /\ LET p == job.pending
         done == p.stage = "publish" /\ p.outcome = "ok"
     IN /\ job' = IF done \/ p.outcome = "failed" THEN None
                  ELSE [job EXCEPT !.pc = Following(p.stage), !.pending = None]
        /\ exec' = IF done THEN [exec EXCEPT !.status = "succeeded"] ELSE exec
  /\ UNCHANGED <<scene, deployed, batch, provisioningVars>>

RecordRun ==
  /\ At("record")
  /\ try_append(job.pending)
  /\ LET p == job.pending
         done == p.stage = "publish" /\ p.outcome = "ok"
     IN /\ job' = IF done \/ p.outcome = "failed" THEN None
                  ELSE [job EXCEPT !.pc = Following(p.stage), !.pending = None]
        /\ exec' = IF done THEN [exec EXCEPT !.status = "succeeded"] ELSE exec
  /\ UNCHANGED <<scene, deployed, batch, provisioningVars>>

-----------------------------------------------------------------------------
(* What happens around the job.                                            *)
StageOf(pc) == CASE pc = "announce" -> "land" [] pc = "tables" -> "commit" [] pc = "states" -> "fold" [] OTHER -> pc

(* An effect raises (an event, a read, an append): the stage fails.        *)
EffectRaises ==
  /\ job # None /\ StageOf(job.pc) \in Elems(SEQUENCE) /\ Spend("faults")
  /\ job' = Raised(StageOf(job.pc), "fault")
  /\ UNCHANGED <<scene, deployed, exec, batch, ledger, provisioningVars>>

(* The worker is killed: nobody reports.                                   *)
Die ==
  /\ job # None /\ Spend("faults")
  /\ job' = None
  /\ UNCHANGED <<scene, deployed, exec, batch, ledger, provisioningVars>>

Redeploy ==
  /\ deployed # 0 /\ deployed < Len(scene.specs)
  /\ deployed' = deployed + 1
  /\ UNCHANGED <<scene, exec, job, batch, ledger, budget, provisioningVars>>

Refresh ==
  /\ DOMAIN scene.refreshed # {} /\ Spend("refreshes")
  /\ catalog' = [t \in DOMAIN catalog |-> IF t \in DOMAIN scene.refreshed
                                          THEN [catalog[t] EXCEPT !.rows = scene.refreshed[t]] ELSE catalog[t]]
  /\ UNCHANGED <<scene, deployed, exec, job, batch, ledger, inventory, script>>

Provision ==
  \/ /\ deployed # 0 /\ Spend("scripts")
     /\ StartAdmissionTables(DeployedSpec) \/ StartRecordTables(DeployedSpec)
  \/ (ProvisionTable \/ EndScript) /\ UNCHANGED budget
  \/ AbortScript /\ Spend("faults")

Operators ==
  \/ Redeploy \/ Refresh
  \/ Provision /\ UNCHANGED <<scene, deployed, exec, job, batch, ledger>>

Runner ==
  \/ Load \/ Describe \/ Bind
  \/ Land \/ Announce \/ PreCheck \/ Pull \/ Apply \/ PostCheck
  \/ OpenCommit \/ CommitTable \/ Complete \/ OpenFold \/ FoldTable \/ EndFold \/ Publish
  \/ RecordRun
  \/ Retry \/ GiveUp

(* The only rest: no execution is left half way.                           *)
Rest == exec.status \in {"refused", "failed", "succeeded"} /\ UNCHANGED allVars

Next == Route \/ Rerun \/ Runner \/ EffectRaises \/ Die \/ Operators \/ Rest

(* The Glue job and the state machine go on, or are timed out: what runs   *)
(* moves again.  This is weak fairness of the steps that change the job or *)
(* the execution, one of which is enabled as long as the execution runs    *)
(* (TLC looks for deadlocks, and operators act a bounded number of times). *)
Going == exec' # exec \/ job' # job
Fairness == []<>(exec.status # "running") \/ []<><<Going>>_allVars
Spec == Init /\ [][Next]_allVars /\ Fairness

-----------------------------------------------------------------------------
(* Properties. *)

Closed == \E m \in batch.markers : m[2] = COMMIT_COMPLETION_SENTINEL
OneSpec == \A v, w \in batch.by : v = w
Changed == ~OneSpec \/ budget.refreshes < scene.budget.refreshes
\* No fact column is named like a column of reasons: quarantine.py takes for
\* granted that the parser refuses one, and FactSchemaModel does not.
RunSpecs == {scene.specs[v] : v \in batch.by}
NoReasonColumn(s) == \A t \in DOMAIN s.fact_types : Declared(s.fact_types[t].columns) \cap ReasonColumns = {}
ReasonsApart == \A s \in RunSpecs : NoReasonColumn(s)
Stages == {SEQUENCE[i] : i \in DOMAIN SEQUENCE}
Outcomes == {"ok", "skipped-guard", "failed"}

(* The types of the state. *)
TypeOK ==
  /\ exec.status \in {"none", "running", "failed", "succeeded", "refused"}
  /\ exec.try \in 0..(MaxRetries + 1) /\ exec.rerun \in 0..scene.budget.reruns
  /\ job # None => /\ exec.status = "running"
                   /\ job.spec # None => Parses(job.spec)
                   /\ IF job.pc = "record" THEN job.pending.stage \in Stages /\ job.pending.outcome \in Outcomes
                                           ELSE job.pending = None
  /\ DOMAIN batch.facts \subseteq DOMAIN catalog /\ batch.folded \subseteq DOMAIN catalog
  /\ \A r \in DOMAIN ledger.rows \cup ledger.losses : r.stage \in Stages /\ r.outcome \in Outcomes
  /\ \A b \in DOMAIN budget : budget[b] \in 0..scene.budget[b]

(* The runs, reruns and redeployments of a batch keep what the durable     *)
(* tables promise of it (BatchLife).                                       *)
Life == INSTANCE BatchLife WITH
  raw <- {<<l, batch.raw[l]>> : l \in DOMAIN batch.raw}, preq <- batch.preq, postq <- batch.postq, facts <- batch.facts,
  folded <- batch.folded, closed <- Closed, announced <- batch.announced
LifeSpec == Life!Spec

(* Design 006.1, P-4: a misconfiguration never half-starts a batch.  What  *)
(* the text of the spec says can stop a job before it lands and no stage   *)
(* after; and the two count identities and, as long as one spec ran, the   *)
(* structural check of commit never fire.  Tables that are missing, or of  *)
(* other columns, are excepted: no probe asks for them.  So is, from the   *)
(* structural check, a spec with a fact column named reason_code or        *)
(* reason_detail, of which a rerun admits the refused rows (RowsAccounted).*)
NoSpecFailsAStage ==
  job # None /\ job.pending # None =>
    /\ job.pending.cause \notin {"spec", "identity"}
    /\ job.pending.cause = "structure" => Changed \/ ~ReasonsApart

(* The grammar of checks (check_grammar.py, 006.1): of an accepted check   *)
(* the engine reads only declared columns and coerces nothing between      *)
(* families, the subject of a simple CASE excepted.                        *)
GrammarSound ==
  job # None /\ job.spec # None =>
    \A c \in Elems(job.spec.checks) :
      c.kind = "row" /\ ~SimpleCase(c.expr) =>
        LET ft == job.spec.fact_types[c.fact_type]
        IN /\ EngineReads(c.expr) \subseteq Declared(ft.columns)
           /\ EngineCoercesNothing(c.expr, FamilyMap(ft))

(* Whichever door an attempt takes and whatever contract is deployed by    *)
(* then, what it passes on and what is durably refused are all the landed  *)
(* rows (pre_check, 005.1 section 6.3).                                    *)
RowsConserved ==
  job # None /\ job.valid # None =>
    /\ DOMAIN job.valid \cap Locators(batch.preq) = {}
    /\ DOMAIN job.valid \cup Locators(batch.preq) = DOMAIN batch.raw

(* A batch announced under one spec has a single place for every landed    *)
(* row: refused before the transforms, or of each fact type either refused *)
(* after them or a fact.  A spec with a fact column named reason_code or   *)
(* reason_detail is excepted, and of it this is false: what is quarantined *)
(* after the transforms is hashed with the reason in that column, so a     *)
(* rerun finds no candidate of that hash and commits the refused row too.  *)
RowsAccounted ==
  batch.announced # None /\ ~Changed /\ ReasonsApart =>
    LET s == scene.specs[CHOOSE v \in batch.by : TRUE]
        refused == {q.row_hash : q \in batch.postq}
        factsOf(t) == LET f == s.fact_types[t].fact_table
                      IN IF f \in DOMAIN batch.facts THEN batch.facts[f] ELSE {}
    IN \A l \in DOMAIN batch.raw :
         \/ l \in Locators(batch.preq)
         \/ \A t \in DOMAIN s.fact_types :
              LET c == apply(typed_projection(RawRows(s), s), s)[t][l]
              IN (candidate_row_hash(c, t) \in refused) # (c \in factsOf(t))

(* From the bytes to the judgment: a line of an object is refused before   *)
(* the transforms iff its quotes do not balance, it is not as wide as the  *)
(* header, the cell under the name of some column breaks what the spec     *)
(* declares of that column, or a replacement character that is forbidden   *)
(* stands in the line or in the name of an extra column.  Records over     *)
(* several lines are left out, and the rows that an earlier spec landed    *)
(* are those of this one's lines only if both read objects alike.          *)
ConformsTo(cell, c) ==
  LET v == typed_expr(cell, c.type)
  IN IF cell = "" THEN c.nullable
     ELSE /\ v # None
          /\ c.allowed # None => cell \in c.allowed
          /\ c.pattern # None => cell \in Matching[c.pattern]
          /\ c.min # None => v >= ValueOf(c.min, c.type.kind)
          /\ c.max # None => v <= ValueOf(c.max, c.type.kind)
LineConforms(l, header, s) ==
  /\ l.shape \notin {"opens", "junk"} /\ Len(l.cells) = Len(header)
  /\ s.forbid_replacement_chars => (Elems(l.cells) \cup (Elems(header) \ Declared(s.columns))) \cap Garbled = {}
  /\ \A c \in Elems(s.columns) :
       IF c.name \in Elems(header) THEN \A i \in DOMAIN header : header[i] = c.name => ConformsTo(l.cells[i], c)
                                   ELSE c.nullable
HeaderOf(o, s) == IF s.read.header THEN o.lines[s.read.skip + 1].cells ELSE NamesOf(s.columns)
LinesOf(o, s) ==
  LET body == SubSeq(o.lines, s.read.skip + (IF s.read.header THEN 2 ELSE 1), Len(o.lines))
      kept == InOrder({i \in DOMAIN body : body[i].cells # <<>>}, Len(body))
  IN [k \in DOMAIN kept |-> body[kept[k]]]
BrokenLines(o, s) == {k \in DOMAIN LinesOf(o, s) : ~LineConforms(LinesOf(o, s)[k], HeaderOf(o, s), s)}
RefusedIffBroken ==
  batch.judge # 0 =>
    LET s == scene.specs[batch.judge]
        sorted == Sorted(Objects)
    IN s.read.multiline \/ Locators(batch.preq) = UNION {{i} \X BrokenLines(sorted[i], s) : i \in DOMAIN sorted}

(* The drift alarms (005.1 A-9, 006.1 H-2) tell of a change: a batch that  *)
(* is merely retried raises none.                                          *)
DriftMeansChange ==
  \A r \in DOMAIN ledger.rows \cup ledger.losses : r.drift => Changed

(* The run ledger, with the losses that were logged, has no gap: an        *)
(* attempt that reported a stage reported every earlier one, once, and as  *)
(* succeeded.                                                              *)
LedgerHasNoGap ==
  LET told == DOMAIN ledger.rows \cup ledger.losses
      ofAttempt(r, i) == {x \in told : x.attempt = r.attempt /\ Place(x.stage) = i}
  IN \A r \in told :
       /\ ofAttempt(r, Place(r.stage)) = {r}
       /\ \A i \in 1..(Place(r.stage) - 1) : \E x \in ofAttempt(r, i) : x.outcome # "failed"

(* What the ledger tells is durable when it tells it, and only one attempt *)
(* claims to have appended the landed rows, unless another spec finds rows *)
(* in objects that had none for the first.                                 *)
LedgerTruthful ==
  LET told == DOMAIN ledger.rows \cup ledger.losses
      of(stage, outcomes) == {r \in told : r.stage = stage /\ r.outcome \in outcomes}
      fine == {"ok", "skipped-guard"}
  IN /\ of("land", {"skipped-guard"}) # {} => Landed
     /\ Landed /\ OneSpec => \A x, y \in of("land", {"ok"}) : x = y
     /\ of("pre_check", {"skipped-guard"}) # {} => batch.preq # {}
     /\ of("post_check", {"skipped-guard"}) # {} => batch.postq # {}
     /\ of("commit", {"skipped-guard"}) # {} => DOMAIN batch.facts # {}
     /\ of("commit", fine) # {} => Closed
     /\ of("publish", fine) # {} => batch.announced # None

(* naming.unslug: the machine an execution runs on names the pipeline of   *)
(* its delivery and no other.                                              *)
SlugRoundTrips == exec.machine # None => unslug(exec.machine) = exec.detail.pipeline

(* The scripts of the operators never take a table, a column or its type   *)
(* away, whichever specs are deployed and wherever they are aborted, and   *)
(* they label a table anew only as a spec that was deployed has it.        *)
TablesOnlyGrow ==
  [][\A t \in DOMAIN catalog :
       /\ t \in DOMAIN catalog'
       /\ \A n \in DOMAIN catalog[t].columns :
            n \in DOMAIN catalog'[t].columns /\ catalog'[t].columns[n] = catalog[t].columns[n]
       /\ catalog'[t].class # catalog[t].class =>
            \E v \in 1..deployed : \E x \in StepsFor(scene.specs[v]) : x.table = t /\ x.class = catalog'[t].class]_catalog

(* Every execution ends, whatever fails and however often (state machine:  *)
(* bounded retries of every error).                                        *)
ExecutionEnds == exec.status = "running" ~> exec.status # "running"
=============================================================================
