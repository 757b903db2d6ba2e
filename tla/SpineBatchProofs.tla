--------------------------- MODULE SpineBatchProofs ---------------------------
(***************************************************************************)
(* What is proved of the batch of a SpineJob: where its rows go, what its  *)
(* tables and the catalog keep through every attempt, that the job         *)
(* implements BatchLife, what its state holds, what the engine makes of an *)
(* accepted check, and which lines are refused.                            *)
(***************************************************************************)
EXTENDS SpineJobProofs, FiniteSetTheorems

-------------------------------------------------------------------------------
\* Which action writes what

\* The running job has got past a stage.
Past(stage) ==
  \/ Due(job) > Place(stage)
  \/ job.pc = "record" /\ job.pending.stage = stage /\ job.pending.outcome # "failed"

\* The action that ends a stage.
Ends(stage) ==
  \/ stage = "land" /\ Announce
  \/ stage = "pre_check" /\ PreCheck
  \/ stage = "pull" /\ Pull
  \/ stage = "apply" /\ Apply
  \/ stage = "post_check" /\ PostCheck
  \/ stage = "commit" /\ Complete
  \/ stage = "fold" /\ EndFold
  \/ stage = "publish" /\ Publish

JobWrites ==
  job' # None =>
    /\ PreCheck \/ job'.valid = job.valid
    /\ Pull \/ job'.co = job.co
    /\ Apply \/ job'.cands = job.cands
    /\ PostCheck \/ job'.admitted = job.admitted
    /\ OpenCommit \/ CommitTable \/ OpenFold \/ FoldTable \/ job'.left = job.left
    /\ job'.pc = "record" /\ job'.pending.outcome # "failed" => \E stage : job'.pending.stage = stage /\ Ends(stage)

BatchWrites ==
  /\ Land \/ batch'.raw = batch.raw
  /\ PreCheck \/ (batch'.preq = batch.preq /\ batch'.judge = batch.judge)
  /\ PostCheck \/ batch'.postq = batch.postq
  /\ CommitTable \/ batch'.facts = batch.facts
  /\ CommitTable \/ Complete \/ batch'.markers = batch.markers
  /\ FoldTable \/ batch'.folded = batch.folded
  /\ Publish \/ batch'.announced = batch.announced
  /\ Bind \/ batch'.by = batch.by

\* A stage that fails writes nothing of the job, one that ends its own results.
LEMMA FailedWrites ==
  ASSUME DOMAIN job = JobFields, NEW stage, NEW causes, FailedAs(stage, causes, job, job')
  PROVE  JobWrites
<1>1. job'.pending.outcome = "failed"  BY DEF FailedAs
<1>2. \A f \in JobFields \ {"pc", "pending"} : job'[f] = job[f]  BY DEF FailedAs, But
<1> QED  BY <1>1, <1>2 DEF JobWrites, JobFields

LEMMA EndedWrites ==
  ASSUME NEW stage, Ends(stage), job'.pending.stage = stage,
         PreCheck \/ job'.valid = job.valid, Pull \/ job'.co = job.co, Apply \/ job'.cands = job.cands,
         PostCheck \/ job'.admitted = job.admitted, job'.left = job.left
  PROVE  JobWrites
<1>1. \E s : job'.pending.stage = s /\ Ends(s)  OBVIOUS
<1> QED  BY <1>1 DEF JobWrites

LEMMA EndedWritesNothing ==
  ASSUME DOMAIN job = JobFields, NEW stage, Ends(stage), EndedAs(stage, job, job')
  PROVE  JobWrites
<1>1. job'.pending.stage = stage /\ \A f \in JobFields \ {"pc", "pending"} : job'[f] = job[f]  BY DEF EndedAs, But
<1> QED  BY <1>1, EndedWrites DEF JobFields

LEMMA MovedWrites ==
  ASSUME DOMAIN job = JobFields, NEW fields, But(fields, job, job'), job'.pc # "record",
         fields \cap {"valid", "co", "cands", "admitted"} = {},
         OpenCommit \/ CommitTable \/ OpenFold \/ FoldTable \/ "left" \notin fields
  PROVE  JobWrites
  BY DEF But, JobFields, JobWrites

LEMMA StartWrites == ASSUME JobOK, DOMAIN batch = BatchFields, Load \/ Describe \/ Bind PROVE JobWrites /\ BatchWrites
<1>1. /\ job # None
      /\ batch' = batch \/ batch' = [batch EXCEPT !.by = @ \cup {job.version}]
      /\ job' = None \/ (But({"pc", "version", "spec", "facts"}, job, job') /\ job'.pc # "record")
  BY StartEffect DEF But
<1>2. DOMAIN job = JobFields  BY <1>1 DEF JobOK, RunningJob
<1>3. JobWrites  BY <1>1, <1>2, MovedWrites DEF JobWrites
<1>4. batch' = batch \/ Bind
  BY DEF Load, Describe
<1> QED  BY <1>1, <1>3, <1>4 DEF BatchWrites, BatchFields

LEMMA LandWrites == ASSUME JobOK, DOMAIN batch = BatchFields, Land PROVE JobWrites /\ BatchWrites
<1>1. job # None /\ DOMAIN job = JobFields  BY LandEffect DEF JobOK, RunningJob
<1>2. \/ \E c : FailedAs("land", c, job, job')
      \/ But({"pc", "skips"}, job, job') /\ job'.pc = "announce"
      \/ But({"pc"}, job, job') /\ job'.pc = "announce"
  BY LandEffect
<1>3. JobWrites  BY <1>1, <1>2, FailedWrites, MovedWrites
<1>4. batch' = batch \/ batch' = [batch EXCEPT !.raw = read_objects(Objects, job.spec)]  BY LandEffect
<1> QED  BY <1>3, <1>4 DEF BatchWrites, BatchFields

LEMMA PreCheckWrites == ASSUME JobOK, DOMAIN batch = BatchFields, PreCheck PROVE JobWrites /\ BatchWrites
<1>1. job # None /\ DOMAIN job = JobFields  BY PreCheckEffect DEF JobOK, RunningJob
<1>2. \/ \E c : FailedAs("pre_check", c, job, job')
      \/ \E skip, d, v : DoorAs("pre_check", skip, d, PreChecked(v, job.spec), job')
  BY PreCheckEffect
<1>3. \A v : LET j == PreChecked(v, job.spec)
             IN DOMAIN j = JobFields /\ \A f \in JobFields \ {"valid"} : j[f] = job[f]
  BY <1>1 DEF PreChecked, JobFields
<1>4. (\E c : FailedAs("pre_check", c, job, job')) => JobWrites  BY <1>1, FailedWrites
<1>5. ASSUME \E skip, d, v : DoorAs("pre_check", skip, d, PreChecked(v, job.spec), job') PROVE JobWrites
  <2>1. job'.pending.stage = "pre_check" /\ \A f \in {"co", "cands", "admitted", "left"} : job'[f] = job[f]
    BY <1>3, <1>5 DEF DoorAs, But, JobFields
  <2>2. Ends("pre_check")  BY DEF Ends
  <2> QED  BY <2>1, <2>2, EndedWrites
<1>6. batch' = batch \/ \E q : batch' = [batch EXCEPT !.preq = q, !.judge = job.version]  BY PreCheckEffect
<1>7. BatchWrites
  <2>1. \A f \in BatchFields \ {"preq", "judge"} : batch'[f] = batch[f]  BY <1>6
  <2> QED  BY <2>1 DEF BatchWrites, BatchFields
<1> QED  BY <1>2, <1>4, <1>5, <1>7

LEMMA PostCheckWrites == ASSUME JobOK, DOMAIN batch = BatchFields, PostCheck PROVE JobWrites /\ BatchWrites
<1>1. job # None /\ DOMAIN job = JobFields  BY PostCheckEffect DEF JobOK, RunningJob
<1>2. \/ \E c : FailedAs("post_check", c, job, job')
      \/ \E skip, d, a : DoorAs("post_check", skip, d, [job EXCEPT !.admitted = a], job')
  BY PostCheckEffect
<1>3. \A a : LET j == [job EXCEPT !.admitted = a]
             IN DOMAIN j = JobFields /\ \A f \in JobFields \ {"admitted"} : j[f] = job[f]
  BY <1>1 DEF JobFields
<1>4. (\E c : FailedAs("post_check", c, job, job')) => JobWrites  BY <1>1, FailedWrites
<1>5. ASSUME \E skip, d, a : DoorAs("post_check", skip, d, [job EXCEPT !.admitted = a], job') PROVE JobWrites
  <2>1. job'.pending.stage = "post_check" /\ \A f \in {"valid", "co", "cands", "left"} : job'[f] = job[f]
    BY <1>3, <1>5 DEF DoorAs, But, JobFields
  <2>2. Ends("post_check")  BY DEF Ends
  <2> QED  BY <2>1, <2>2, EndedWrites
<1>6. batch' = batch \/ \E q : batch' = [batch EXCEPT !.postq = q]  BY PostCheckEffect
<1>7. BatchWrites  BY <1>6 DEF BatchWrites, BatchFields
<1> QED  BY <1>2, <1>4, <1>5, <1>7

LEMMA MidWrites ==
  ASSUME JobOK, DOMAIN batch = BatchFields, Announce \/ Pull \/ Apply \/ OpenCommit \/ OpenFold
  PROVE  JobWrites /\ BatchWrites
<1>0. job # None /\ batch' = batch  BY MidEffect
<1>1. DOMAIN job = JobFields  BY <1>0 DEF JobOK, RunningJob
<1>2. BatchWrites  BY <1>0 DEF BatchWrites
<1>3. CASE Announce
  <2>1. EndedAs("land", job, job')  BY <1>3, MidEffect DEF Announce, At
  <2>2. Ends("land")  BY <1>3 DEF Ends
  <2> QED  BY <1>1, <1>2, <2>1, <2>2, EndedWritesNothing
<1>4. CASE Pull
  <2>1. (\E c : FailedAs("pull", c, job, job')) \/ \E co : EndedAs("pull", [job EXCEPT !.co = co], job')
    BY <1>4, MidEffect DEF Pull, At
  <2>2. Ends("pull")  BY <1>4 DEF Ends
  <2>3. \A co : LET j == [job EXCEPT !.co = co]
                IN DOMAIN j = JobFields /\ \A f \in JobFields \ {"co"} : j[f] = job[f]
    BY <1>1 DEF JobFields
  <2>4. ASSUME NEW co, EndedAs("pull", [job EXCEPT !.co = co], job') PROVE JobWrites
    <3>1. job'.pending.stage = "pull" /\ \A f \in {"valid", "cands", "admitted", "left"} : job'[f] = job[f]
      BY <2>3, <2>4 DEF EndedAs, But, JobFields
    <3> QED  BY <1>4, <2>2, <3>1, EndedWrites
  <2> QED  BY <1>1, <1>2, <2>1, <2>4, FailedWrites
<1>5. CASE Apply
  <2>1. (\E c : FailedAs("apply", c, job, job')) \/ \E cands : EndedAs("apply", [job EXCEPT !.cands = cands], job')
    BY <1>5, MidEffect DEF Apply, At
  <2>2. Ends("apply")  BY <1>5 DEF Ends
  <2>3. \A cands : LET j == [job EXCEPT !.cands = cands]
                   IN DOMAIN j = JobFields /\ \A f \in JobFields \ {"cands"} : j[f] = job[f]
    BY <1>1 DEF JobFields
  <2>4. ASSUME NEW cands, EndedAs("apply", [job EXCEPT !.cands = cands], job') PROVE JobWrites
    <3>1. job'.pending.stage = "apply" /\ \A f \in {"valid", "co", "admitted", "left"} : job'[f] = job[f]
      BY <2>3, <2>4 DEF EndedAs, But, JobFields
    <3> QED  BY <1>5, <2>2, <3>1, EndedWrites
  <2> QED  BY <1>1, <1>2, <2>1, <2>4, FailedWrites
<1>6. CASE OpenCommit \/ OpenFold
  <2>2. job.pc \in {"commit", "fold"}  BY <1>6 DEF OpenCommit, OpenFold, At
  <2>1. (\E c : FailedAs("commit", c, job, job')) \/ (But({"pc", "left"}, job, job') /\ job'.pc \in {"tables", "states"})
    BY <1>6, <2>2, MidEffect
  <2> QED  BY <1>1, <1>2, <1>6, <2>1, FailedWrites, MovedWrites
<1> QED  BY <1>3, <1>4, <1>5, <1>6

LEMMA LateWrites ==
  ASSUME JobOK, DOMAIN batch = BatchFields, CommitTable \/ Complete \/ FoldTable \/ EndFold \/ Publish
  PROVE  JobWrites /\ BatchWrites
<1>0. job # None  BY LateEffect
<1>1. DOMAIN job = JobFields  BY <1>0 DEF JobOK, RunningJob
<1>2. CASE CommitTable
  <2>1. \/ \E c : FailedAs("commit", c, job, job')
        \/ But({"left", "skips"}, job, job') \/ But({"left"}, job, job') \/ job' = job
    BY <1>2, LateEffect DEF CommitTable, At
  <2>2. job.pc = "tables"  BY <1>2 DEF CommitTable, At
  <2>3. JobWrites
    <3>1. CASE \E c : FailedAs("commit", c, job, job')  BY <1>1, <3>1, FailedWrites
    <3>2. ASSUME NEW fields \in {{"left"}, {"left", "skips"}}, But(fields, job, job') PROVE JobWrites
      <4>1. job'.pc = "tables"  BY <1>1, <2>2, <3>2 DEF But, JobFields
      <4> QED  BY <1>1, <1>2, <3>2, <4>1, MovedWrites
    <3>3. CASE job' = job  BY <2>2, <3>3 DEF JobWrites
    <3> QED  BY <2>1, <3>1, <3>2, <3>3
  <2>4. batch' = batch \/ (\E t : Mark(t)) \/ \E f : batch' = [batch EXCEPT !.facts = f]
    BY <1>2, LateEffect DEF CommitTable, At
  <2> QED  BY <1>2, <2>3, <2>4 DEF BatchWrites, BatchFields, Mark
<1>3. CASE Complete
  <2>1. Mark(COMMIT_COMPLETION_SENTINEL) /\ job' = Ended("commit", job)  BY <1>3 DEF Complete
  <2>2. EndedAs("commit", job, job') /\ Ends("commit")  BY <1>1, <1>3, <2>1, EndedFields DEF Ends
  <2>3. JobWrites  BY <1>1, <2>2, EndedWritesNothing
  <2> QED  BY <1>3, <2>1, <2>3 DEF BatchWrites, BatchFields, Mark
<1>4. CASE FoldTable
  <2>1. (\E c : FailedAs("fold", c, job, job')) \/ But({"left"}, job, job')
    BY <1>4, LateEffect DEF FoldTable, At
  <2>2. job.pc = "states"  BY <1>4 DEF FoldTable, At
  <2>3. batch' = batch \/ \E f : batch' = [batch EXCEPT !.folded = f]
    BY <1>4, LateEffect DEF FoldTable, At
  <2>4. But({"left"}, job, job') => job'.pc = "states"  BY <1>1, <2>2 DEF But, JobFields
  <2>5. JobWrites  BY <1>1, <1>4, <2>1, <2>4, FailedWrites, MovedWrites
  <2> QED  BY <1>4, <2>3, <2>5 DEF BatchWrites, BatchFields
<1>5. CASE EndFold
  <2>1. batch' = batch /\ job' = Ended("fold", job)  BY <1>5 DEF EndFold
  <2>2. EndedAs("fold", job, job') /\ Ends("fold")  BY <1>1, <1>5, <2>1, EndedFields DEF Ends
  <2>3. JobWrites  BY <1>1, <2>2, EndedWritesNothing
  <2> QED  BY <2>1, <2>3 DEF BatchWrites
<1>6. CASE Publish
  <2>1. (\E a : batch' = [batch EXCEPT !.announced = a]) /\ job' = Ended("publish", job)  BY <1>6 DEF Publish
  <2>2. EndedAs("publish", job, job') /\ Ends("publish")  BY <1>1, <1>6, <2>1, EndedFields DEF Ends
  <2>3. JobWrites  BY <1>1, <2>2, EndedWritesNothing
  <2> QED  BY <1>6, <2>1, <2>3 DEF BatchWrites, BatchFields
<1> QED  BY <1>2, <1>3, <1>4, <1>5, <1>6

LEMMA StagingWrites ==
  ASSUME JobOK, DOMAIN batch = BatchFields, Staging
  PROVE  JobWrites /\ BatchWrites
<1>1. CASE EffectRaises \/ Die
  <2>1. job # None /\ batch' = batch /\ (job' = None \/ \E s, c : FailedAs(s, c, job, job'))
    BY <1>1, FaultEffect
  <2>2. DOMAIN job = JobFields  BY <2>1 DEF JobOK, RunningJob
  <2>3. JobWrites  BY <2>1, <2>2, FailedWrites DEF JobWrites
  <2> QED  BY <2>1, <2>3 DEF BatchWrites
<1> QED  BY <1>1, StartWrites, LandWrites, PreCheckWrites, PostCheckWrites, MidWrites, LateWrites DEF Staging

-------------------------------------------------------------------------------
\* Where the rows of the batch are

RowFields == {"malformed_text", "cells", "extras"}
Unreadable(raw) == {l \in DOMAIN raw : raw[l].malformed_text # None}

-------------------------------------------------------------------------------
\* What the operators return

\* A set that is finite is listed whole.
LEMMA Listed ==
  ASSUME NEW S, IsFiniteSet(S)
  PROVE  SetToSeq(S) \in Seq(S) /\ Elems(SetToSeq(S)) = S
<1> DEFINE n == Cardinality(S)
<1>1. n \in Nat /\ ExistsBijection(1..n, S)  BY FS_CardinalityType
<1>2. PICK f \in Bijection(1..n, S) : TRUE  BY <1>1 DEF ExistsBijection
<1>3. f \in [1..n -> S] /\ IsInjective(f)  BY <1>2 DEF Bijection, Injection, IsInjective
<1> DEFINE q == SetToSeq(S)
<1>4. q \in [1..n -> S] /\ IsInjective(q)  BY <1>3 DEF SetToSeq
<1>5. q \in Injection(1..n, S)  BY <1>4 DEF Injection, IsInjective
<1>6. Cardinality(1..n) = n  BY <1>1, FS_Interval
<1>7. q \in Surjection(1..n, S)  BY <1>5, <1>6, FS_Injection
<1>8. Elems(q) = S  BY <1>4, <1>7 DEF Surjection, Elems
<1>9. q \in Seq(S)  BY <1>1, <1>4
<1> HIDE DEF q
<1> QED  BY <1>8, <1>9 DEF q

\* The columns a row is shown with do not change whether it was readable.
LEMMA ShownRows ==
  ASSUME \A l \in DOMAIN batch.raw : DOMAIN batch.raw[l] = RowFields, NEW s
  PROVE  /\ DOMAIN RawRows(s) = DOMAIN batch.raw
         /\ Unreadable(RawRows(s)) = Unreadable(batch.raw)
<1>1. DOMAIN RawRows(s) = DOMAIN batch.raw  BY DEF RawRows
<1>2. \A l \in DOMAIN batch.raw : RawRows(s)[l].malformed_text = batch.raw[l].malformed_text
  BY DEF RawRows, RowFields
<1> QED  BY <1>1, <1>2 DEF Unreadable

\* The contract refuses what it does not pass, every unreadable row among it.
LEMMA Verdicts ==
  ASSUME NEW raw, NEW s
  PROVE  /\ DOMAIN zero_failures(raw, s) \cap DOMAIN violations(raw, s) = {}
         /\ DOMAIN zero_failures(raw, s) \cup DOMAIN violations(raw, s) = DOMAIN raw
         /\ Unreadable(raw) \subseteq DOMAIN violations(raw, s)
<1>1. /\ DOMAIN zero_failures(raw, s) = {l \in DOMAIN raw : evaluate(raw[l], s) = {}}
      /\ DOMAIN violations(raw, s) = {l \in DOMAIN raw : evaluate(raw[l], s) # {}}
  BY DEF zero_failures, violations, Restrict
<1>2. ASSUME NEW l \in Unreadable(raw) PROVE evaluate(raw[l], s) # {}
  <2>1. <<1, 0>> \in compile_contract(s)  BY DEF compile_contract
  <2>2. CHECKS[1].id = "malformed"  BY DEF CHECKS, ROW_CHECKS, COLUMN_CHECKS
  <2>3. RowFails("malformed", raw[l])  BY <1>2 DEF RowFails, Unreadable
  <2>4. <<1, 0>>[1] = 1 /\ <<1, 0>>[2] = 0  OBVIOUS
  <2>5. <<1, 0>> \in evaluate(raw[l], s)  BY <2>1, <2>2, <2>3, <2>4, Zenon DEF evaluate
  <2> QED  BY <2>5
<1>3. Unreadable(raw) \subseteq DOMAIN raw  BY DEF Unreadable
<1> QED  BY <1>1, <1>2, <1>3

LEMMA ShapedLocators ==
  ASSUME NEW viol, NEW s
  PROVE  Locators(shape_pre_quarantine(viol, s)) = DOMAIN viol
<1> DEFINE row(l) == [locator |-> l, reason |-> reason_code(evaluate(viol[l], s)), malformed_text |-> viol[l].malformed_text,
                      snapshot |-> [n \in DOMAIN viol[l].cells \ ReasonColumns |-> viol[l].cells[n]]]
<1>1. shape_pre_quarantine(viol, s) = {row(l) : l \in DOMAIN viol}  BY DEF shape_pre_quarantine
<1>2. \A l : row(l).locator = l  OBVIOUS
<1> HIDE DEF row
<1> QED  BY <1>1, <1>2 DEF Locators

LEMMA ProjectedRows == ASSUME NEW v, NEW s PROVE DOMAIN typed_projection(v, s) = DOMAIN v
  BY DEF typed_projection

\* Where nothing is refused nothing is created.
LEMMA NoCandidates ==
  ASSUME NEW cands, DOMAIN cands = {}, NEW s, NEW t, NEW co, NEW durable
  PROVE  /\ DOMAIN admitted_candidates(cands, s, t, co) = {}
         /\ DOMAIN hash_subtraction(cands, t, durable) = {}
         /\ novel_facts(cands) = {}
<1>1. DOMAIN evaluated(cands, s, t, co) = {}  BY DEF evaluated
<1>2. DOMAIN admitted_candidates(cands, s, t, co) = {}  BY <1>1 DEF admitted_candidates, Restrict
<1>3. DOMAIN hash_subtraction(cands, t, durable) = {}  BY DEF hash_subtraction, Restrict
<1> QED  BY <1>2, <1>3 DEF novel_facts, Elems

\* A row that was read has the fields of a raw row.
LEMMA ReadRows ==
  ASSUME NEW objects, NEW s, read_objects(objects, s) # None
  PROVE  \A l \in DOMAIN read_objects(objects, s) : DOMAIN read_objects(objects, s)[l] = RowFields
<1>1. \A r, b : DOMAIN shape_row(r, b, s) = RowFields  BY DEF shape_row, RowFields
<1> QED  BY <1>1 DEF read_objects

-------------------------------------------------------------------------------
\* The stages a job has got past

LEMMA PastStaging ==
  ASSUME JobOK, DOMAIN batch = BatchFields, Staging, job' # None, NEW stage \in Stages
  PROVE  /\ Past(stage) => Past(stage)'
         /\ Past(stage)' => Past(stage) \/ Ends(stage)
<1>1. job # None /\ Due(job') = Due(job)  BY StagingStep
<1>2. job.pc # "record"
  <2>1. job.pc \in Starting \cup Working
    BY StagingBinds DEF Starting, Working
  <2> QED  BY <2>1 DEF Starting, Working
<1>3. job'.pc = "record" /\ job'.pending.outcome # "failed" => \E s : job'.pending.stage = s /\ Ends(s)
  BY StagingWrites DEF JobWrites
<1> QED  BY <1>1, <1>2, <1>3 DEF Past

\* A report moves the job on behind the stage it tells of.
LEMMA PastRecord ==
  ASSUME JobOK, RecordRun, job' # None, NEW stage \in Stages
  PROVE  Past(stage)' <=> Past(stage)
<1>1. /\ job # None /\ job.pc = "record" /\ job.pending.outcome # "failed"
      /\ ~(job.pending.stage = "publish" /\ job.pending.outcome = "ok")
      /\ job' = [job EXCEPT !.pc = Following(job.pending.stage), !.pending = None]
  BY DEF RecordRun, At
<1>2. DOMAIN job = JobFields /\ job.pending.stage \in Stages /\ PendingOK(job.pending, job.skips) /\ job.skips \subseteq Guarded
  BY <1>1 DEF JobOK, RunningJob, PendingOK
<1>3. job.pending.stage # "publish"  BY <1>1, <1>2 DEF PendingOK, Outcomes, Guarded
<1>4. job'.pc = Following(job.pending.stage)  BY <1>1, <1>2 DEF JobFields
<1>5. /\ Place(job.pending.stage) \in 1..7 /\ Following(job.pending.stage) \in Stages \cap Working
      /\ Place(Following(job.pending.stage)) = Place(job.pending.stage) + 1
      /\ StageOf(Following(job.pending.stage)) = Following(job.pending.stage)
  BY <1>2, <1>3, FollowingPlace
<1>6. job'.pc \notin Starting /\ job'.pc # "record"  BY <1>4, <1>5 DEF Starting, Working
<1>7. Due(job') = Place(job.pending.stage) + 1  BY <1>4, <1>5, <1>6 DEF Due
<1>8. Due(job) = Place(job.pending.stage)  BY <1>1 DEF Due
<1>9. Place(stage) \in 1..8 /\ (Place(stage) = Place(job.pending.stage) <=> stage = job.pending.stage)
  BY <1>2, Places
<1> QED  BY <1>1, <1>5, <1>6, <1>7, <1>8, <1>9 DEF Past

\* A job that has not got to a stage is not past it.
LEMMA NotPast ==
  ASSUME job # None, job.pc # "record", NEW stage \in Stages,
         \/ job.pc \in Starting
         \/ StageOf(job.pc) \in Stages /\ Place(StageOf(job.pc)) <= Place(stage)
  PROVE  ~Past(stage)
<1>1. Place(stage) \in 1..8  BY Places
<1> QED  BY <1>1, Places DEF Past, Due

\* A job that has got further than a stage is past it.
LEMMA PastAt ==
  ASSUME job # None, job.pc # "record", job.pc \notin Starting, NEW stage, Place(StageOf(job.pc)) > Place(stage)
  PROVE  Past(stage)
  BY DEF Past, Due

-------------------------------------------------------------------------------
\* The invariant of the admission

\* Every raw row has its fields, and what was refused of them was landed.  As
\* soon as a judgment was made or a fact is there, no unreadable row is left
\* to be admitted.  A batch without rows has no facts.
BatchAdmitted ==
  /\ \A l \in DOMAIN batch.raw : DOMAIN batch.raw[l] = RowFields
  /\ Locators(batch.preq) \subseteq DOMAIN batch.raw
  /\ batch.preq # {} \/ DOMAIN batch.facts # {} => Unreadable(batch.raw) \subseteq Locators(batch.preq)
  /\ ~Landed => DOMAIN batch.facts = {}

Partition(valid) ==
  /\ DOMAIN valid \cap Locators(batch.preq) = {}
  /\ DOMAIN valid \cup Locators(batch.preq) = DOMAIN batch.raw

NoRows(frames) == \A t \in DOMAIN job.spec.fact_types : DOMAIN frames[t] = {}

\* The frames of the running job, from pre_check on.
JobAdmits ==
  job # None =>
    /\ ~Past("pre_check") => job.valid = None
    /\ Past("pre_check") => Partition(job.valid) /\ Unreadable(batch.raw) \subseteq Locators(batch.preq)
    /\ ~Landed => (Past("apply") => NoRows(job.cands)) /\ (Past("post_check") => NoRows(job.admitted))
    /\ IF job.pc \in Starting THEN job.left = <<>> ELSE job.left \in Seq(DOMAIN job.spec.fact_types)

AdmitInv == BatchAdmitted /\ JobAdmits

LEMMA AdmitInit == Init => AdmitInv
<1> SUFFICES ASSUME Init PROVE AdmitInv  OBVIOUS
<1>1. /\ job = None /\ DOMAIN batch.raw = {} /\ batch.preq = {} /\ DOMAIN batch.facts = {}
  BY DEF Init
<1> QED  BY <1>1 DEF AdmitInv, BatchAdmitted, JobAdmits, Locators, Unreadable

\* A step that writes none of what the invariant speaks of.
LEMMA AdmitSame ==
  ASSUME AdmitInv, batch'.raw = batch.raw, batch'.preq = batch.preq, batch'.facts = batch.facts,
         job' # None =>
           /\ job # None /\ job'.spec = job.spec /\ job'.left = job.left
           /\ job'.valid = job.valid /\ job'.cands = job.cands /\ job'.admitted = job.admitted
           /\ job'.pc \in Starting <=> job.pc \in Starting
           /\ \A stage \in {"pre_check", "apply", "post_check"} : Past(stage)' <=> Past(stage)
  PROVE  AdmitInv'
<1>1. BatchAdmitted'  BY DEF AdmitInv, BatchAdmitted, Landed
<1>2. Landed' = Landed  BY DEF Landed
<1>3. \A v : Partition(v)' = Partition(v)  BY DEF Partition
<1>4. job' # None => \A f : NoRows(f)' = NoRows(f)  BY DEF NoRows
<1>5. JobAdmits'  BY <1>2, <1>3, <1>4 DEF AdmitInv, JobAdmits
<1> QED  BY <1>1, <1>5 DEF AdmitInv

LEMMA AdmitStart == ASSUME AdmitInv, JobOK, DOMAIN batch = BatchFields, Load \/ Describe \/ Bind PROVE AdmitInv'
<1>1. /\ job # None
      /\ \/ job' = None /\ batch' = batch
         \/ job.pc = "load" /\ But({"pc", "version", "spec"}, job, job') /\ batch' = batch /\ job'.pc = "describe"
         \/ job.pc = "describe" /\ But({"pc", "facts"}, job, job') /\ batch' = batch /\ job'.pc = "bind"
         \/ /\ job.pc = "bind" /\ But({"pc"}, job, job') /\ job'.pc = "land"
            /\ batch' = [batch EXCEPT !.by = @ \cup {job.version}]
  BY StartEffect
<1>2. DOMAIN job = JobFields  BY <1>1 DEF JobOK, RunningJob
<1>3. batch'.raw = batch.raw /\ batch'.preq = batch.preq /\ batch'.facts = batch.facts  BY <1>1 DEF BatchFields
<1>4. BatchAdmitted'  BY <1>3 DEF AdmitInv, BatchAdmitted, Landed
<1>5. ASSUME job' # None PROVE JobAdmits'
  <2>1. job.pc \in Starting /\ job'.pc \in Starting \cup {"land"}  BY <1>1, <1>5 DEF Starting
  <2>2. job'.valid = job.valid /\ job'.left = job.left  BY <1>1, <1>2, <1>5 DEF But, JobFields
  <2>3. ASSUME NEW stage \in {"pre_check", "apply", "post_check"} PROVE ~Past(stage) /\ ~Past(stage)'
    <3>1. stage \in Stages  BY Places
    <3>2. job.pc # "record"  BY <2>1 DEF Starting
    <3>3. ~Past(stage)  BY <1>1, <2>1, <3>1, <3>2, NotPast
    <3>4. ~Ends(stage)  BY <2>1 DEF Ends, PreCheck, Apply, PostCheck, At, Starting
    <3>5. Staging  BY DEF Staging
    <3> QED  BY <1>5, <3>1, <3>3, <3>4, <3>5, PastStaging
  <2>4. job.valid = None /\ job.left = <<>>  BY <1>1, <2>1, <2>3 DEF AdmitInv, JobAdmits
  <2> QED  BY <2>2, <2>3, <2>4 DEF JobAdmits
<1> QED  BY <1>4, <1>5 DEF AdmitInv, JobAdmits

\* Where a job is in a stage, it is past the earlier ones, and a step past none
\* but that one.
LEMMA InStage ==
  ASSUME JobOK, DOMAIN batch = BatchFields, Staging, job # None, job.pc \in Working, NEW stage \in Stages
  PROVE  /\ Place(stage) < Place(StageOf(job.pc)) => Past(stage) /\ (job' # None => Past(stage)')
         /\ Place(stage) >= Place(StageOf(job.pc)) => ~Past(stage)
         /\ Place(stage) > Place(StageOf(job.pc)) => (job' # None => ~Past(stage)')
<1>1. StageOf(job.pc) \in Stages /\ job.pc # "record" /\ job.pc \notin Starting
  BY Places DEF Working, Starting, StageOf
<1>2. Place(stage) \in 1..8 /\ Place(StageOf(job.pc)) \in 1..8  BY <1>1, Places
<1>3. Place(stage) < Place(StageOf(job.pc)) => Past(stage)  BY <1>1, <1>2, PastAt
<1>4. Place(stage) >= Place(StageOf(job.pc)) => ~Past(stage)  BY <1>1, <1>2, NotPast
<1>5. job' # None => Due(job') = Due(job) /\ (Past(stage) => Past(stage)')  BY StagingStep, PastStaging
<1>6. ASSUME Place(stage) > Place(StageOf(job.pc)), job' # None PROVE ~Past(stage)'
  <2>1. Due(job') = Place(StageOf(job.pc))  BY <1>1, <1>5, <1>6 DEF Due
  <2>2. ~(Due(job') > Place(stage))  BY <1>2, <1>6, <2>1
  <2>3. job'.pc = "record" => Due(job') = Place(job'.pending.stage)  BY DEF Due
  <2>4. ~(job'.pc = "record" /\ job'.pending.stage = stage)  BY <1>2, <1>6, <2>1, <2>3
  <2> QED  BY <2>2, <2>4 DEF Past
<1> QED  BY <1>2, <1>3, <1>4, <1>5, <1>6

\* A stage that ends is passed, one that fails is not.
LEMMA PassedByEnd ==
  ASSUME job' # None, job'.pc = "record", NEW stage \in Stages, job'.pending.stage = stage
  PROVE  Past(stage)' <=> job'.pending.outcome # "failed"
<1>1. Due(job') = Place(stage)  BY DEF Due
<1>2. Place(stage) \in 1..8  BY Places
<1> QED  BY <1>1, <1>2 DEF Past

LEMMA AdmitLand == ASSUME AdmitInv, JobOK, BoundInv, Land PROVE AdmitInv'
<1>1. job # None /\ job.pc = "land" /\ DOMAIN job = JobFields /\ DOMAIN batch = BatchFields /\ Staging
  BY DEF Land, At, JobOK, RunningJob, BoundInv, Staging
<1>2. /\ job' # None => job'.pc \notin Starting
      /\ job'.spec = job.spec /\ job'.valid = job.valid /\ job'.left = job.left
  <2>1. \/ FailedAs("land", {"tables", "objects"}, job, job')
        \/ But({"pc", "skips"}, job, job') /\ job'.pc = "announce"
        \/ But({"pc"}, job, job') /\ job'.pc = "announce"
    BY LandEffect
  <2> QED  BY <1>1, <2>1 DEF FailedAs, But, JobFields, Starting
<1>3. \A stage \in {"pre_check", "apply", "post_check"} : ~Past(stage) /\ (job' # None => ~Past(stage)')
  <2>1. StageOf(job.pc) = "land" /\ job.pc \in Working  BY <1>1 DEF StageOf, Working
  <2> QED  BY <1>1, <2>1, InStage, Places
<1>4. JobAdmits'
  <2>1. job.valid = None /\ job.left \in Seq(DOMAIN job.spec.fact_types)  BY <1>1, <1>3 DEF AdmitInv, JobAdmits, Starting
  <2> QED  BY <1>2, <1>3, <2>1 DEF JobAdmits
<1>5. BatchAdmitted'
  <2>1. \/ batch' = batch
        \/ /\ ~Landed /\ read_objects(Objects, job.spec) # None
           /\ batch' = [batch EXCEPT !.raw = read_objects(Objects, job.spec)]
    BY LandEffect
  <2>2. CASE batch' = batch  BY <2>2 DEF AdmitInv, BatchAdmitted, Landed
  <2>3. CASE /\ ~Landed /\ read_objects(Objects, job.spec) # None
             /\ batch' = [batch EXCEPT !.raw = read_objects(Objects, job.spec)]
    <3>1. batch'.raw = read_objects(Objects, job.spec) /\ batch'.preq = batch.preq /\ batch'.facts = batch.facts
      BY <1>1, <2>3 DEF BatchFields
    <3>2. batch.preq = {} /\ DOMAIN batch.facts = {}  BY <2>3 DEF AdmitInv, BatchAdmitted, Landed, Locators
    <3>3. \A l \in DOMAIN batch'.raw : DOMAIN batch'.raw[l] = RowFields  BY <2>3, <3>1, ReadRows
    <3> QED  BY <3>1, <3>2, <3>3 DEF BatchAdmitted, Locators
  <2> QED  BY <2>1, <2>2, <2>3
<1> QED  BY <1>4, <1>5 DEF AdmitInv

\* What pre_check passes on and what it refused are all the rows.
Parted(valid, preq) ==
  /\ DOMAIN valid \cap Locators(preq) = {}
  /\ DOMAIN valid \cup Locators(preq) = DOMAIN batch.raw
  /\ Unreadable(batch.raw) \subseteq Locators(preq)

LEMMA DoorsPart ==
  ASSUME BatchAdmitted, NEW s
  PROVE  LET raw == RawRows(s)
             preq == shape_pre_quarantine(violations(raw, s), s)
         IN /\ batch.preq # {} => Parted(locator_subtraction(raw, batch.preq), batch.preq)
            /\ batch.preq = {} /\ AnyFactPresent(s) => Parted(readable_rows(raw), batch.preq)
            /\ Parted(zero_failures(raw, s), preq)
<1> DEFINE raw == RawRows(s)
           preq == shape_pre_quarantine(violations(raw, s), s)
<1>1. DOMAIN raw = DOMAIN batch.raw /\ Unreadable(raw) = Unreadable(batch.raw)  BY ShownRows DEF BatchAdmitted
<1>2. Unreadable(raw) = {l \in DOMAIN raw : raw[l].malformed_text # None}  BY DEF Unreadable
<1> HIDE DEF raw
<1>3. ASSUME batch.preq # {} PROVE Parted(locator_subtraction(raw, batch.preq), batch.preq)
  <2>1. DOMAIN locator_subtraction(raw, batch.preq)
          = {l \in DOMAIN raw : raw[l].malformed_text = None /\ l \notin Locators(batch.preq)}
    BY DEF locator_subtraction, Restrict
  <2>2. Unreadable(batch.raw) \subseteq Locators(batch.preq) /\ Locators(batch.preq) \subseteq DOMAIN batch.raw
    BY <1>3 DEF BatchAdmitted
  <2> QED  BY <1>1, <1>2, <2>1, <2>2 DEF Parted
<1>4. ASSUME batch.preq = {}, AnyFactPresent(s) PROVE Parted(readable_rows(raw), batch.preq)
  <2>1. DOMAIN readable_rows(raw) = {l \in DOMAIN raw : raw[l].malformed_text = None}
    BY DEF readable_rows, Restrict
  <2>2. DOMAIN batch.facts # {} /\ Locators(batch.preq) = {}  BY <1>4 DEF AnyFactPresent, Locators
  <2>3. Unreadable(batch.raw) \subseteq Locators(batch.preq)  BY <2>2 DEF BatchAdmitted
  <2> QED  BY <1>1, <1>2, <2>1, <2>2, <2>3 DEF Parted
<1>5. Parted(zero_failures(raw, s), preq)
  <2>1. Locators(preq) = DOMAIN violations(raw, s)  BY ShapedLocators
  <2> QED  BY <1>1, <2>1, Verdicts DEF Parted
<1> QED  BY <1>3, <1>4, <1>5 DEF raw

LEMMA AdmitPreCheck == ASSUME AdmitInv, JobOK, BoundInv, PreCheck PROVE AdmitInv'
<1> DEFINE s == job.spec
           raw == RawRows(s)
           viol == violations(raw, s)
           judged == [batch EXCEPT !.preq = shape_pre_quarantine(viol, s), !.judge = job.version]
           door(skip, d, valid) == DoorAs("pre_check", skip, d, PreChecked(valid, s), job')
<1>1. job # None /\ job.pc = "pre_check" /\ DOMAIN job = JobFields /\ DOMAIN batch = BatchFields /\ Staging
  BY DEF PreCheck, At, JobOK, RunningJob, BoundInv, Staging
<1>2. \/ (\E c : FailedAs("pre_check", c, job, job')) /\ (batch' = batch \/ batch' = judged)
      \/ batch.preq # {} /\ batch' = batch /\ \E d : door(TRUE, d, locator_subtraction(raw, batch.preq))
      \/ batch.preq = {} /\ AnyFactPresent(s) /\ batch' = batch /\ \E d : door(FALSE, d, readable_rows(raw))
      \/ batch' = judged /\ door(FALSE, FALSE, zero_failures(raw, s))
  BY PreCheckEffect
<1>3. /\ batch.preq # {} => Parted(locator_subtraction(raw, batch.preq), batch.preq)
      /\ batch.preq = {} /\ AnyFactPresent(s) => Parted(readable_rows(raw), batch.preq)
      /\ Parted(zero_failures(raw, s), shape_pre_quarantine(viol, s))
  BY DoorsPart DEF AdmitInv
<1>4. batch'.raw = batch.raw /\ batch'.facts = batch.facts
      /\ (batch' = batch \/ batch'.preq = shape_pre_quarantine(viol, s))
  BY <1>1, <1>2 DEF BatchFields
<1>5. BatchAdmitted'
  <2>1. CASE batch' = batch  BY <2>1 DEF AdmitInv, BatchAdmitted, Landed
  <2>2. CASE batch'.preq = shape_pre_quarantine(viol, s)
    <3>1. /\ Locators(batch'.preq) \subseteq DOMAIN batch'.raw
          /\ Unreadable(batch'.raw) \subseteq Locators(batch'.preq)
      BY <1>3, <1>4, <2>2 DEF Parted
    <3> QED  BY <1>4, <3>1 DEF AdmitInv, BatchAdmitted, Landed
  <2> QED  BY <1>4, <2>1, <2>2
<1>6. job.valid = None /\ job.left \in Seq(DOMAIN s.fact_types)
  <2>1. ~Past("pre_check")
    <3>1. StageOf(job.pc) = "pre_check" /\ job.pc \in Working  BY <1>1 DEF StageOf, Working
    <3> QED  BY <1>1, <3>1, InStage, Places
  <2> QED  BY <1>1, <2>1 DEF AdmitInv, JobAdmits, Starting
<1>7. job' # None => ~Past("apply")' /\ ~Past("post_check")'
  <2>1. StageOf(job.pc) = "pre_check" /\ job.pc \in Working  BY <1>1 DEF StageOf, Working
  <2> QED  BY <1>1, <2>1, InStage, Places
<1>8. ASSUME NEW skip, NEW d, NEW v, door(skip, d, v), Parted(v, batch'.preq)
      PROVE  JobAdmits'
  <2>1. LET j == PreChecked(v, s)
        IN DOMAIN j = JobFields /\ j.valid = typed_projection(v, s) /\ \A f \in JobFields \ {"valid"} : j[f] = job[f]
    BY <1>1 DEF PreChecked, JobFields
  <2>2. /\ job'.pc = "record" /\ job'.pending.stage = "pre_check" /\ job'.pending.outcome # "failed"
        /\ job'.valid = typed_projection(v, s) /\ job'.spec = s /\ job'.left = job.left
    BY <1>8, <2>1 DEF DoorAs, But, JobFields
  <2>3. job' # None => Past("pre_check")'
    <3>1. "pre_check" \in Stages  BY Places
    <3> QED  BY <2>2, <3>1, PassedByEnd
  <2>4. Partition(job.valid)' /\ Unreadable(batch'.raw) \subseteq Locators(batch'.preq)
    <3>1. DOMAIN job'.valid = DOMAIN v  BY <2>2, ProjectedRows
    <3> QED  BY <1>4, <1>8, <3>1 DEF Parted, Partition
  <2> QED  BY <1>6, <1>7, <2>2, <2>3, <2>4 DEF JobAdmits, Starting
<1>9. ASSUME NEW c, FailedAs("pre_check", c, job, job') PROVE JobAdmits'
  <2>1. /\ job'.pc = "record" /\ job'.pending.stage = "pre_check" /\ job'.pending.outcome = "failed"
        /\ job'.valid = job.valid /\ job'.spec = s /\ job'.left = job.left
    BY <1>1, <1>9 DEF FailedAs, But, JobFields
  <2>2. job' # None => ~Past("pre_check")'
    <3>1. "pre_check" \in Stages  BY Places
    <3> QED  BY <2>1, <3>1, PassedByEnd
  <2> QED  BY <1>6, <1>7, <2>1, <2>2 DEF JobAdmits, Starting
<1>10. JobAdmits'
  <2>1. batch' = judged => batch'.preq = shape_pre_quarantine(viol, s)  BY <1>1 DEF BatchFields
  <2> HIDE DEF door, raw, viol, judged
  <2>2. CASE \E c : FailedAs("pre_check", c, job, job')  BY <2>2, <1>9
  <2>3. CASE batch.preq # {} /\ batch' = batch /\ \E d : door(TRUE, d, locator_subtraction(raw, batch.preq))
    BY <1>3, <1>8, <2>3
  <2>4. CASE batch.preq = {} /\ AnyFactPresent(s) /\ batch' = batch /\ \E d : door(FALSE, d, readable_rows(raw))
    BY <1>3, <1>8, <2>4
  <2>5. CASE batch' = judged /\ door(FALSE, FALSE, zero_failures(raw, s))
    BY <1>3, <1>8, <2>1, <2>5
  <2> QED  BY <1>2, <2>2, <2>3, <2>4, <2>5
<1> QED  BY <1>5, <1>10 DEF AdmitInv

\* From pre_check on, the rows are parted, and a stage neither moves them nor
\* takes another spec.
LEMMA AdmittedStage ==
  ASSUME AdmitInv, JobOK, BoundInv, Staging, job # None, job.pc \in Working,
         Place(StageOf(job.pc)) > 2
  PROVE  /\ Past("pre_check") /\ Partition(job.valid) /\ Unreadable(batch.raw) \subseteq Locators(batch.preq)
         /\ job.left \in Seq(DOMAIN job.spec.fact_types)
         /\ batch'.raw = batch.raw /\ batch'.preq = batch.preq
         /\ job' # None => /\ Past("pre_check")' /\ job'.valid = job.valid
                           /\ job'.spec = job.spec /\ job'.pc \notin Starting
<1>1. DOMAIN batch = BatchFields /\ "pre_check" \in Stages /\ job.pc \notin Starting
  BY Places DEF BoundInv, Working, Starting
<1>2. Past("pre_check") /\ (job' # None => Past("pre_check")')  BY <1>1, InStage, Places
<1>3. ~Land /\ ~PreCheck
  BY Places DEF Land, PreCheck, At, StageOf
<1>4. /\ batch'.raw = batch.raw /\ batch'.preq = batch.preq
      /\ job' # None => job'.valid = job.valid
  BY <1>1, <1>3, StagingWrites DEF BatchWrites, JobWrites
<1>5. job' # None => job'.spec = job.spec /\ job'.pc \notin Starting
  <2>1. job.pc # "load" /\ job.pc # "describe" /\ job.pc # "bind"  BY <1>1 DEF Starting
  <2> QED  BY <1>1, <2>1, StagingBinds DEF Working, Starting
<1> QED  BY <1>1, <1>2, <1>4, <1>5 DEF AdmitInv, JobAdmits

LEMMA AdmitApply == ASSUME AdmitInv, JobOK, BoundInv, Apply PROVE AdmitInv'
<1>1. /\ job # None /\ job.pc = "apply" /\ DOMAIN job = JobFields /\ DOMAIN batch = BatchFields /\ Staging
      /\ StageOf(job.pc) = "apply" /\ job.pc \in Working
  BY DEF Apply, At, JobOK, RunningJob, BoundInv, Staging, StageOf, Working
<1>2. /\ Past("pre_check") /\ Partition(job.valid) /\ Unreadable(batch.raw) \subseteq Locators(batch.preq)
      /\ job.left \in Seq(DOMAIN job.spec.fact_types)
      /\ job' # None => /\ Past("pre_check")' /\ job'.valid = job.valid
                        /\ job'.spec = job.spec /\ job'.pc \notin Starting
  BY <1>1, AdmittedStage, Places
<1>3. batch' = batch  BY DEF Apply
<1>4. BatchAdmitted'  BY <1>3 DEF AdmitInv, BatchAdmitted, Landed
<1>5. job' # None => ~Past("post_check")'  BY <1>1, InStage, Places
<1>6. Partition(job.valid)' <=> DOMAIN job'.valid \cap Locators(batch.preq) = {} /\ DOMAIN job'.valid \cup Locators(batch.preq) = DOMAIN batch.raw
  BY <1>3 DEF Partition
<1>7. \/ \E c : FailedAs("apply", c, job, job')
      \/ /\ assert_return_shape(job.spec)
         /\ EndedAs("apply", [job EXCEPT !.cands = apply(job.valid, job.spec)], job')
  BY <1>1, MidEffect
<1>8. job'.left = job.left
  <2>1. \A c : LET j == [job EXCEPT !.cands = c] IN DOMAIN j = JobFields /\ j.left = job.left
    BY <1>1 DEF JobFields
  <2> QED  BY <1>1, <1>7, <2>1 DEF FailedAs, EndedAs, But, JobFields
<1>9. ASSUME job' # None, ~Landed, Past("apply")' PROVE NoRows(job.cands)'
  <2>1. "apply" \in Stages  BY Places
  <2>2. ~\E c : FailedAs("apply", c, job, job')
    <3>1. ASSUME NEW c, FailedAs("apply", c, job, job') PROVE FALSE
      <4>1. job'.pc = "record" /\ job'.pending.stage = "apply" /\ job'.pending.outcome = "failed"  BY <3>1 DEF FailedAs
      <4> QED  BY <1>9, <2>1, <4>1, PassedByEnd
    <3> QED  BY <3>1
  <2>3. job'.cands = apply(job.valid, job.spec) /\ job.spec.module.returns = DOMAIN job.spec.fact_types
    <3>1. \A c : LET j == [job EXCEPT !.cands = c] IN DOMAIN j = JobFields /\ j.cands = c
      BY <1>1 DEF JobFields
    <3> QED  BY <1>7, <2>2, <3>1 DEF EndedAs, But, JobFields, assert_return_shape
  <2>4. DOMAIN job.valid = {}  BY <1>2, <1>9 DEF Partition, Landed
  <2>5. \A t \in DOMAIN job.spec.fact_types : DOMAIN job'.cands[t] = {}  BY <2>3, <2>4 DEF apply
  <2> QED  BY <1>2, <1>9, <2>5 DEF NoRows
<1>10. Landed' = Landed  BY <1>3 DEF Landed
<1>11. JobAdmits'
  BY <1>2, <1>3, <1>5, <1>6, <1>8, <1>9, <1>10 DEF JobAdmits, Partition
<1> QED  BY <1>4, <1>11 DEF AdmitInv

LEMMA AdmitPostCheck == ASSUME AdmitInv, JobOK, BoundInv, PostCheck PROVE AdmitInv'
<1> DEFINE types == DOMAIN job.spec.fact_types
           passed(t) == admitted_candidates(job.cands[t], job.spec, t, job.co)
           door(skip, d, admitted) == DoorAs("post_check", skip, d, [job EXCEPT !.admitted = admitted], job')
           fate(a) == \/ a = [t \in types |-> hash_subtraction(job.cands[t], t, batch.postq)]
                      \/ a = [t \in types |-> job.cands[t]]
                      \/ a = [t \in types |-> passed(t)]
<1>1. /\ job # None /\ job.pc = "post_check" /\ DOMAIN job = JobFields /\ DOMAIN batch = BatchFields /\ Staging
      /\ StageOf(job.pc) = "post_check" /\ job.pc \in Working
  BY DEF PostCheck, At, JobOK, RunningJob, BoundInv, Staging, StageOf, Working
<1>2. /\ Past("pre_check") /\ Partition(job.valid) /\ Unreadable(batch.raw) \subseteq Locators(batch.preq)
      /\ job.left \in Seq(DOMAIN job.spec.fact_types)
      /\ batch'.raw = batch.raw /\ batch'.preq = batch.preq
      /\ job' # None => /\ Past("pre_check")' /\ job'.valid = job.valid
                        /\ job'.spec = job.spec /\ job'.pc \notin Starting
  BY <1>1, AdmittedStage, Places
<1>3. ~CommitTable /\ ~Apply /\ ~OpenCommit /\ ~OpenFold /\ ~FoldTable
  BY <1>1 DEF CommitTable, Apply, OpenCommit, OpenFold, FoldTable, At
<1>4. /\ batch'.facts = batch.facts
      /\ job' # None => job'.cands = job.cands /\ job'.left = job.left
  BY <1>1, <1>3, StagingWrites DEF BatchWrites, JobWrites
<1>5. BatchAdmitted' /\ Landed' = Landed  BY <1>2, <1>4 DEF AdmitInv, BatchAdmitted, Landed
<1>6. Past("apply")  BY <1>1, InStage, Places
<1>7. (\E c : FailedAs("post_check", c, job, job')) \/ \E skip, d, a : fate(a) /\ door(skip, d, a)
  BY PostCheckEffect
<1>8. ASSUME job' # None, ~Landed, Past("post_check")' PROVE NoRows(job.admitted)'
  <2>1. "post_check" \in Stages  BY Places
  <2>2. ~\E c : FailedAs("post_check", c, job, job')
    <3>1. ASSUME NEW c, FailedAs("post_check", c, job, job') PROVE FALSE
      <4>1. job'.pc = "record" /\ job'.pending.stage = "post_check" /\ job'.pending.outcome = "failed"  BY <3>1 DEF FailedAs
      <4> QED  BY <1>8, <2>1, <4>1, PassedByEnd
    <3> QED  BY <3>1
  <2>3. PICK skip, d, a : fate(a) /\ door(skip, d, a)  BY <1>7, <2>2
  <2>4. job'.admitted = a
    <3>1. LET j == [job EXCEPT !.admitted = a] IN DOMAIN j = JobFields /\ j.admitted = a
      BY <1>1 DEF JobFields
    <3> QED  BY <2>3, <3>1 DEF DoorAs, But, JobFields
  <2>5. \A t \in types : DOMAIN job.cands[t] = {}
    BY <1>1, <1>6, <1>8 DEF AdmitInv, JobAdmits, NoRows
  <2>6. \A t \in types : /\ DOMAIN passed(t) = {}
                         /\ DOMAIN hash_subtraction(job.cands[t], t, batch.postq) = {}
    BY <2>5, NoCandidates
  <2>7. \A t \in types : DOMAIN a[t] = {}
    <3> HIDE DEF passed
    <3> QED  BY <2>3, <2>5, <2>6
  <2> QED  BY <1>2, <1>8, <2>4, <2>7 DEF NoRows
<1>9. ASSUME job' # None, ~Landed PROVE NoRows(job.cands)'
  BY <1>1, <1>2, <1>4, <1>6, <1>9 DEF AdmitInv, JobAdmits, NoRows
<1>10. job' # None => Partition(job.valid)'  BY <1>2 DEF Partition
<1>11. JobAdmits'
  BY <1>2, <1>4, <1>5, <1>8, <1>9, <1>10 DEF JobAdmits
<1> QED  BY <1>5, <1>11 DEF AdmitInv

\* The stages that follow the judgment pass what was judged on as it is.
LEMMA AdmitLate ==
  ASSUME AdmitInv, JobOK, BoundInv, Staging, job # None, job.pc \in Working, Place(StageOf(job.pc)) > 5,
         job' # None => job'.left \in Seq(DOMAIN job.spec.fact_types),
         \/ batch'.facts = batch.facts
         \/ Landed /\ Unreadable(batch.raw) \subseteq Locators(batch.preq)
  PROVE  AdmitInv'
<1>0. "apply" \in Stages /\ "post_check" \in Stages /\ DOMAIN batch = BatchFields  BY Places DEF BoundInv
<1>1. Place(StageOf(job.pc)) \in 1..8
  <2>1. StageOf(job.pc) \in Stages  BY Places DEF Working, StageOf
  <2> QED  BY <2>1, Places
<1>2. /\ Past("pre_check") /\ Partition(job.valid) /\ Unreadable(batch.raw) \subseteq Locators(batch.preq)
      /\ batch'.raw = batch.raw /\ batch'.preq = batch.preq
      /\ job' # None => /\ Past("pre_check")' /\ job'.valid = job.valid
                        /\ job'.spec = job.spec /\ job'.pc \notin Starting
  <2>1. Place(StageOf(job.pc)) > 2  BY <1>1
  <2> QED  BY <2>1, AdmittedStage
<1>3. ~Apply /\ ~PostCheck  BY Places DEF Apply, PostCheck, At, StageOf
<1>4. job' # None => job'.cands = job.cands /\ job'.admitted = job.admitted
  BY <1>0, <1>3, StagingWrites DEF JobWrites
<1>5. Past("apply") /\ Past("post_check")  BY <1>0, <1>1, InStage, Places
<1>6. Landed' = Landed /\ (~Landed => batch'.facts = batch.facts)  BY <1>2 DEF Landed
<1>7. BatchAdmitted'
  <2>1. CASE batch'.facts = batch.facts  BY <1>2, <2>1 DEF AdmitInv, BatchAdmitted, Landed
  <2>2. CASE Landed /\ Unreadable(batch.raw) \subseteq Locators(batch.preq)
    BY <1>2, <1>6, <2>2 DEF AdmitInv, BatchAdmitted
  <2> QED  BY <2>1, <2>2
<1>8. job' # None => Partition(job.valid)'  BY <1>2 DEF Partition
<1>9. ASSUME job' # None, ~Landed PROVE NoRows(job.cands)' /\ NoRows(job.admitted)'
  BY <1>2, <1>4, <1>5, <1>9 DEF AdmitInv, JobAdmits, NoRows
<1>10. JobAdmits'  BY <1>2, <1>6, <1>8, <1>9 DEF JobAdmits
<1> QED  BY <1>7, <1>10 DEF AdmitInv

\* The list of types a job goes through is its spec's.
LEMMA TypesListed ==
  ASSUME BoundInv, job # None, job.pc # "load"
  PROVE  Types(job.spec) \in Seq(DOMAIN job.spec.fact_types) /\ Elems(Types(job.spec)) = DOMAIN job.spec.fact_types
<1>1. scene \in Scenes  BY DEF BoundInv
<1>2. job.spec \in Elems(scene.specs)  BY DEF BoundInv, Elems
<1>3. IsFiniteSet(DOMAIN job.spec.fact_types)  BY <1>1, <1>2, SceneAssumption
<1> QED  BY <1>3, Listed DEF Types

LEMMA AdmitOpen == ASSUME AdmitInv, JobOK, BoundInv, OpenCommit \/ OpenFold PROVE AdmitInv'
<1>1. /\ job # None /\ job.pc \in {"commit", "fold"} /\ DOMAIN job = JobFields /\ Staging /\ job.pc \in Working
      /\ StageOf(job.pc) = job.pc /\ batch' = batch
  BY DEF OpenCommit, OpenFold, At, JobOK, RunningJob, Staging, Working, StageOf
<1>2. Place(StageOf(job.pc)) \in {6, 7}  BY <1>1, Places
<1>3. job.left \in Seq(DOMAIN job.spec.fact_types)  BY <1>1 DEF AdmitInv, JobAdmits, Working, Starting
<1>4. Types(job.spec) \in Seq(DOMAIN job.spec.fact_types)  BY <1>1, TypesListed
<1>5. job'.left = job.left \/ job'.left = Types(job.spec)
  <2>1. \/ FailedAs("commit", {"tables"}, job, job')
        \/ But({"pc", "left"}, job, job') /\ job'.left = Types(job.spec)
    BY <1>1, MidEffect
  <2> QED  BY <1>1, <2>1 DEF FailedAs, But, JobFields
<1> QED  BY <1>1, <1>2, <1>3, <1>4, <1>5, AdmitLate

\* What is left of the types after one of them.
LEMMA TailLeft ==
  ASSUME NEW S, NEW q \in Seq(S), q # <<>>
  PROVE  Head(q) \in S /\ Tail(q) \in Seq(S)
  OBVIOUS

LEMMA AdmitCommit == ASSUME AdmitInv, JobOK, BoundInv, CommitTable PROVE AdmitInv'
<1> DEFINE table == Current.fact_table
           cands == job.admitted[Head(job.left)]
<1>1. /\ job # None /\ job.pc = "tables" /\ job.left # <<>> /\ DOMAIN job = JobFields /\ DOMAIN batch = BatchFields
      /\ Staging /\ job.pc \in Working /\ StageOf(job.pc) = "commit"
  BY DEF CommitTable, At, JobOK, RunningJob, BoundInv, Staging, Working, StageOf
<1>2. Place(StageOf(job.pc)) = 6  BY <1>1, Places
<1>3. /\ Past("pre_check") /\ Unreadable(batch.raw) \subseteq Locators(batch.preq)
      /\ job.left \in Seq(DOMAIN job.spec.fact_types)
  BY <1>1, <1>2, AdmittedStage
<1>4. Head(job.left) \in DOMAIN job.spec.fact_types /\ Tail(job.left) \in Seq(DOMAIN job.spec.fact_types)
  BY <1>1, <1>3, TailLeft
<1>5. Past("post_check")
  <2>1. "post_check" \in Stages  BY Places
  <2> QED  BY <1>1, <1>2, <2>1, InStage, Places
<1>6. \/ But({"left", "skips"}, job, job') /\ job'.left = Tail(job.left) /\ Mark(table)
      \/ (\E c : FailedAs("commit", c, job, job')) /\ batch' = batch
      \/ But({"left"}, job, job') /\ job'.left = Tail(job.left) /\ batch' = batch
      \/ job' = job /\ Mark(table)
      \/ /\ But({"left"}, job, job') /\ job'.left = Tail(job.left)
         /\ novel_facts(cands) # {} /\ batch' = [batch EXCEPT !.facts = Put(@, table, novel_facts(cands))]
  BY <1>1, LateEffect
<1> HIDE DEF table, cands
<1>7. job'.left = job.left \/ job'.left = Tail(job.left)
  BY <1>1, <1>6 DEF FailedAs, But, JobFields
<1>8. batch'.facts = batch.facts \/ novel_facts(cands) # {}
  BY <1>1, <1>6 DEF Mark, BatchFields
<1>9. novel_facts(cands) # {} => Landed
  <2>1. ~Landed => DOMAIN cands = {}  BY <1>1, <1>4, <1>5 DEF AdmitInv, JobAdmits, NoRows, cands
  <2> QED  BY <2>1, NoCandidates
<1> QED  BY <1>1, <1>2, <1>3, <1>4, <1>7, <1>8, <1>9, AdmitLate

LEMMA AdmitFold == ASSUME AdmitInv, JobOK, BoundInv, FoldTable PROVE AdmitInv'
<1>1. /\ job # None /\ job.pc = "states" /\ job.left # <<>> /\ DOMAIN job = JobFields /\ DOMAIN batch = BatchFields
      /\ Staging /\ job.pc \in Working /\ StageOf(job.pc) = "fold" /\ ~CommitTable
  BY DEF FoldTable, CommitTable, At, JobOK, RunningJob, BoundInv, Staging, Working, StageOf
<1>2. Place(StageOf(job.pc)) = 7  BY <1>1, Places
<1>3. job.left \in Seq(DOMAIN job.spec.fact_types)  BY <1>1, <1>2, AdmittedStage
<1>4. Tail(job.left) \in Seq(DOMAIN job.spec.fact_types)  BY <1>1, <1>3, TailLeft
<1>5. (\E c : FailedAs("fold", c, job, job')) \/ (But({"left"}, job, job') /\ job'.left = Tail(job.left))
  BY <1>1, LateEffect
<1>6. job'.left = job.left \/ job'.left = Tail(job.left)  BY <1>1, <1>5 DEF FailedAs, But, JobFields
<1>7. batch'.facts = batch.facts  BY <1>1, StagingWrites DEF BatchWrites
<1> QED  BY <1>1, <1>2, <1>3, <1>4, <1>6, <1>7, AdmitLate

LEMMA AdmitFault == ASSUME AdmitInv, JobOK, BoundInv, EffectRaises \/ Die PROVE AdmitInv'
<1>1. /\ job # None /\ batch' = batch
      /\ job' = None \/ (job.pc \in Working /\ FailedAs(StageOf(job.pc), {"fault"}, job, job'))
  BY FaultEffect
<1>2. DOMAIN job = JobFields /\ DOMAIN batch = BatchFields /\ Staging  BY <1>1 DEF JobOK, RunningJob, BoundInv, Staging
<1>3. ASSUME job' # None
      PROVE  /\ job'.spec = job.spec /\ job'.left = job.left
             /\ job'.valid = job.valid /\ job'.cands = job.cands /\ job'.admitted = job.admitted
             /\ job'.pc \in Starting <=> job.pc \in Starting
  BY <1>1, <1>2, <1>3 DEF FailedAs, But, JobFields, Working, Starting
<1>4. ASSUME job' # None, NEW stage \in {"pre_check", "apply", "post_check"} PROVE Past(stage)' <=> Past(stage)
  <2>1. stage \in Stages  BY Places
  <2>2. Due(job') = Due(job)  BY <1>2, <1>4, StagingStep
  <2>3. job'.pending.outcome = "failed"  BY <1>1, <1>4 DEF FailedAs
  <2>4. Past(stage) => Past(stage)'  BY <1>2, <1>4, <2>1, PastStaging
  <2> QED  BY <2>2, <2>3, <2>4 DEF Past
<1> QED  BY <1>1, <1>3, <1>4, AdmitSame

\* The other stages write nothing of it.
LEMMA AdmitRest ==
  ASSUME AdmitInv, JobOK, BoundInv, Announce \/ Pull \/ Complete \/ EndFold \/ Publish
  PROVE  AdmitInv'
<1>1. /\ job # None /\ DOMAIN job = JobFields /\ DOMAIN batch = BatchFields /\ Staging
      /\ job.pc \in {"announce", "pull", "tables", "states", "publish"} /\ job.pc \in Working /\ job.pc \notin Starting
  BY DEF Announce, Pull, Complete, EndFold, Publish, At, JobOK, RunningJob, BoundInv, Staging, Working, Starting
<1>2. ~Land /\ ~PreCheck /\ ~Apply /\ ~PostCheck /\ ~OpenCommit /\ ~CommitTable /\ ~OpenFold /\ ~FoldTable
  BY DEF Announce, Pull, Complete, EndFold, Publish, At, Land, PreCheck, Apply, PostCheck, OpenCommit, CommitTable,
         OpenFold, FoldTable
<1>3. /\ batch'.raw = batch.raw /\ batch'.preq = batch.preq /\ batch'.facts = batch.facts
      /\ job' # None => /\ job'.valid = job.valid /\ job'.cands = job.cands
                        /\ job'.admitted = job.admitted /\ job'.left = job.left
  BY <1>1, <1>2, StagingWrites DEF BatchWrites, JobWrites
<1>4. job' # None => job'.spec = job.spec /\ job'.pc \notin Starting
  BY <1>1, StagingBinds DEF Working, Starting
<1>5. ASSUME job' # None, NEW stage \in {"pre_check", "apply", "post_check"} PROVE Past(stage)' <=> Past(stage)
  <2>1. stage \in Stages /\ ~Ends(stage)  BY <1>2, <1>5, Places DEF Ends
  <2> QED  BY <1>1, <1>5, <2>1, PastStaging
<1> QED  BY <1>1, <1>3, <1>4, <1>5, AdmitSame

LEMMA AdmitNext == JobOK /\ ExecOK /\ BoundInv /\ AdmitInv /\ [Next]_allVars => AdmitInv'
<1> SUFFICES ASSUME JobOK, ExecOK, BoundInv, AdmitInv, [Next]_allVars PROVE AdmitInv'  OBVIOUS
<1>1. CASE Route \/ Retry \/ GiveUp \/ Rerun
  <2>1. batch' = batch /\ (job' = Fresh \/ job' = None)  BY <1>1, ExecSteps
  <2>2. BatchAdmitted'  BY <2>1 DEF AdmitInv, BatchAdmitted, Landed
  <2>3. ASSUME job' # None, job' = Fresh PROVE JobAdmits'
    <3>1. job'.pc = "load" /\ job'.valid = None /\ job'.left = <<>>  BY <2>3 DEF Fresh
    <3>2. Due(job') = 1  BY <2>3, FreshJob
    <3>3. ASSUME NEW stage \in {"pre_check", "apply", "post_check"} PROVE ~Past(stage)'
      BY <3>1, <3>2, Places DEF Past
    <3> QED  BY <3>1, <3>3 DEF JobAdmits, Starting
  <2> QED  BY <2>1, <2>2, <2>3 DEF AdmitInv, JobAdmits
<1>2. CASE Staging
  <2>1. DOMAIN batch = BatchFields  BY DEF BoundInv
  <2> QED
    BY <1>2, <2>1, AdmitStart, AdmitLand, AdmitPreCheck, AdmitApply, AdmitPostCheck, AdmitOpen, AdmitCommit, AdmitFold,
       AdmitFault, AdmitRest DEF Staging
<1>3. CASE RecordRun
  <2>1. /\ job # None /\ job.pc = "record" /\ batch' = batch
        /\ job' = None \/ job' = [job EXCEPT !.pc = Following(job.pending.stage), !.pending = None]
    BY <1>3 DEF RecordRun, At
  <2>2. DOMAIN job = JobFields /\ job.pending.stage \in Stages  BY <2>1 DEF JobOK, RunningJob, PendingOK
  <2>3. ASSUME job' # None
        PROVE  /\ job'.spec = job.spec /\ job'.left = job.left
               /\ job'.valid = job.valid /\ job'.cands = job.cands /\ job'.admitted = job.admitted
               /\ job'.pc \notin Starting
    <3>1. job.pending.stage # "publish"
      <4>1. ~(job.pending.stage = "publish" /\ job.pending.outcome = "ok") /\ job.pending.outcome # "failed"
        BY <1>3, <2>3 DEF RecordRun
      <4>2. PendingOK(job.pending, job.skips) /\ job.skips \subseteq Guarded  BY <2>1 DEF JobOK, RunningJob
      <4> QED  BY <4>1, <4>2 DEF PendingOK, Outcomes, Guarded
    <3>2. Following(job.pending.stage) \in Working  BY <2>2, <3>1, FollowingPlace
    <3> QED  BY <2>1, <2>2, <2>3, <3>2 DEF JobFields, Working, Starting
  <2>4. ASSUME job' # None, NEW stage \in {"pre_check", "apply", "post_check"} PROVE Past(stage)' <=> Past(stage)
    <3>1. stage \in Stages  BY Places
    <3> QED  BY <1>3, <2>4, <3>1, PastRecord
  <2>5. job.pc \notin Starting  BY <2>1 DEF Starting
  <2> QED  BY <2>1, <2>3, <2>4, <2>5, AdmitSame
<1>4. CASE job' = job /\ batch' = batch
  <2>1. \A stage : Past(stage)' <=> Past(stage)  BY <1>4 DEF Past, Due
  <2> QED  BY <1>4, <2>1, AdmitSame
<1> QED  BY <1>1, <1>2, <1>3, <1>4, StepKinds

LEMMA InvAdmit == Spec => [](GapInv /\ BoundInv /\ AdmitInv)
<1>1. Init => GapInv /\ BoundInv /\ AdmitInv  BY GapInit, BoundInit, AdmitInit
<1>2. (GapInv /\ BoundInv /\ AdmitInv) /\ [Next]_allVars => (GapInv /\ BoundInv /\ AdmitInv)'
  <2>1. GapInv => ExecOK /\ JobOK  BY DEF GapInv
  <2> QED  BY <2>1, GapNext, BoundNext, AdmitNext
<1> QED  BY <1>1, <1>2, PTL DEF Spec

\* RowsConserved for any scenes: whichever door an attempt takes and whatever
\* spec is deployed by then, what it passes on and what is durably refused are
\* all the landed rows, and no row is both.
THEOREM EveryRowConserved == Spec => []RowsConserved
<1>1. AdmitInv => RowsConserved  BY DEF AdmitInv, JobAdmits, Partition, RowsConserved
<1> QED  BY <1>1, InvAdmit, PTL

-------------------------------------------------------------------------------
\* What the durable tables promise of the batch

\* A fact stands in a table of the running spec, since its marker was found
\* when the spec was bound; and what has facts is folded before fold ends.
LifeInv ==
  /\ exec.status = "none" => DOMAIN batch.facts = {}
  /\ \A t \in DOMAIN batch.facts :
       /\ t # COMMIT_COMPLETION_SENTINEL
       /\ \E s \in Elems(scene.specs) : s.pipeline = exec.detail.pipeline /\ <<MarkersTable(s), t>> \in batch.markers
  /\ job # None =>
       /\ job.pc # "load" => Parses(job.spec) /\ job.spec.pipeline = exec.detail.pipeline
       /\ job.pc \notin Starting => DOMAIN batch.facts \subseteq FactTables(job.spec)
       /\ job.pc = "states" =>
            \A t \in DOMAIN job.spec.fact_types :
              LET table == job.spec.fact_types[t].fact_table
              IN t \in Elems(job.left) \/ table \notin DOMAIN batch.facts \/ table \in batch.folded
       /\ Past("fold") => DOMAIN batch.facts \subseteq batch.folded

LEMMA LifeInit == Init => LifeInv
  BY DEF Init, LifeInv

\* The specs of a scene that are of one pipeline look for their markers in one
\* table.
LEMMA OneMarkersTable ==
  ASSUME BoundInv, NEW s \in Elems(scene.specs), NEW r \in Elems(scene.specs), s.pipeline = r.pipeline
  PROVE  MarkersTable(s) = MarkersTable(r)
<1>1. scene \in Scenes  BY DEF BoundInv
<1>2. s.raw_table = r.raw_table  BY <1>1, HomesAssumption
<1> QED  BY <1>2 DEF MarkersTable

\* A table of a spec is no completion marker.
LEMMA QualifiedTables ==
  ASSUME NEW s, Parses(s), NEW t \in DOMAIN s.fact_types
  PROVE  s.fact_types[t].fact_table # COMMIT_COMPLETION_SENTINEL
<1>1. TablesQualified(s)  BY DEF Parses
<1>2. <<t, "fact">> \in Homes(s)  BY DEF Homes
<1>3. HomeTable(s, <<t, "fact">>) = s.fact_types[t].fact_table  BY DEF HomeTable
<1>4. check_qualified_table(s.fact_types[t].fact_table)  BY <1>1, <1>2, <1>3 DEF TablesQualified
<1>5. Len(s.fact_types[t].fact_table) >= 2  BY <1>4 DEF check_qualified_table
<1>6. ASSUME s.fact_types[t].fact_table = COMMIT_COMPLETION_SENTINEL PROVE FALSE
  <2>1. Len(<<"-completion-">>) >= 2  BY <1>5, <1>6 DEF COMMIT_COMPLETION_SENTINEL
  <2>2. Len(<<"-completion-">>) = 1  OBVIOUS
  <2> QED  BY <2>1, <2>2
<1> QED  BY <1>6

LEMMA MarkersGrow ==
  ASSUME JobOK, DOMAIN batch = BatchFields, Staging
  PROVE  batch.markers \subseteq batch'.markers /\ batch.folded \subseteq batch'.folded
<1>1. \A t : Mark(t) => batch.markers \subseteq batch'.markers /\ batch'.folded = batch.folded
  BY DEF Mark, BatchFields
<1>2. CASE CommitTable \/ Complete
  <2>1. \/ batch' = batch \/ (\E t : Mark(t)) \/ \E f : batch' = [batch EXCEPT !.facts = f]
    BY <1>2, LateEffect DEF CommitTable, Complete, At
  <2> QED  BY <1>1, <2>1 DEF BatchFields
<1>3. CASE FoldTable
  <2>1. \/ batch' = batch \/ \E t : batch' = [batch EXCEPT !.folded = @ \cup {t}]
    BY <1>3, LateEffect DEF FoldTable, At
  <2> QED  BY <2>1 DEF BatchFields
<1>4. CASE ~CommitTable /\ ~Complete /\ ~FoldTable
  BY <1>4, StagingWrites DEF BatchWrites
<1> QED  BY <1>2, <1>3, <1>4

\* Only these actions leave a job among the state tables.
LEMMA StatesFrom ==
  ASSUME JobOK, Staging, job' # None, job'.pc = "states"
  PROVE  OpenFold \/ FoldTable
<1>1. job # None /\ Due(job') = Due(job) /\ DOMAIN job = JobFields  BY StagingStep DEF JobOK, RunningJob
<1>2. Due(job) = 7  BY <1>1, Places DEF Due, Starting, StageOf
<1>3. ~(Load \/ Describe \/ Bind)  BY StartEffect
<1>4. ~(EffectRaises \/ Die)  BY FaultEffect DEF FailedAs
<1>5. ~EndFold  BY <1>1 DEF EndFold, Ended, Report, JobFields
<1>6. ~(Land \/ Announce \/ PreCheck \/ Pull \/ Apply \/ PostCheck \/ OpenCommit \/ CommitTable \/ Complete \/ Publish)
  <2>1. ASSUME job.pc \in {"land", "announce", "pre_check", "pull", "apply", "post_check", "commit", "tables", "publish"}
        PROVE  FALSE
    BY <1>2, <2>1, Places DEF Due, Starting, StageOf
  <2> QED  BY <2>1 DEF Land, Announce, PreCheck, Pull, Apply, PostCheck, OpenCommit, CommitTable, Complete, Publish, At
<1> QED  BY <1>3, <1>4, <1>5, <1>6 DEF Staging

LEMMA LifeStart == ASSUME LifeInv, JobOK, BoundInv, Load \/ Describe \/ Bind PROVE LifeInv'
<1>1. /\ job # None /\ scene' = scene /\ exec' = exec
      /\ \/ job' = None /\ batch' = batch
         \/ /\ job.pc = "load" /\ But({"pc", "version", "spec"}, job, job') /\ batch' = batch /\ job'.pc = "describe"
            /\ job'.spec = DeployedSpec /\ LoadOK(from_args(Argv))
         \/ job.pc = "describe" /\ But({"pc", "facts"}, job, job') /\ batch' = batch /\ job'.pc = "bind"
         \/ /\ job.pc = "bind" /\ But({"pc"}, job, job') /\ job'.pc = "land"
            /\ validate_bindings(job.spec, job.facts, inventory, committed_tables(job.spec))
            /\ batch' = [batch EXCEPT !.by = @ \cup {job.version}]
  BY StartEffect
<1>2. DOMAIN job = JobFields /\ DOMAIN batch = BatchFields /\ Staging
  BY <1>1 DEF JobOK, RunningJob, BoundInv, Staging
<1>3. batch'.facts = batch.facts /\ batch'.markers = batch.markers /\ batch'.folded = batch.folded
  BY <1>1, <1>2 DEF BatchFields
<1>4. ASSUME job' # None PROVE ~Past("fold")'
  <2>1. job.pc \in Starting /\ job.pc # "record" /\ "fold" \in Stages  BY <1>1, <1>4, Places DEF Starting
  <2>2. ~Past("fold")  BY <1>1, <2>1, NotPast
  <2>3. ~Ends("fold")  BY <2>1 DEF Ends, EndFold, At, Starting
  <2> QED  BY <1>2, <1>4, <2>1, <2>2, <2>3, PastStaging
<1>5. ASSUME job' # None, job'.pc # "load" PROVE Parses(job'.spec) /\ job'.spec.pipeline = exec.detail.pipeline
  <2>1. CASE job.pc = "load"
    <3>1. LoadOK(from_args(Argv)) /\ job'.spec = DeployedSpec  BY <1>1, <1>5, <2>1
    <3>2. /\ Parses(DeployedSpec)
          /\ BindingMatches(DeployedSpec, [pipeline |-> exec.detail.pipeline, sla |-> from_args(Argv)["sla-minutes"]])
      BY <3>1 DEF LoadOK
    <3>3. DeployedSpec.pipeline = exec.detail.pipeline  BY <3>2 DEF BindingMatches
    <3> QED  BY <3>1, <3>2, <3>3
  <2>2. CASE job.pc # "load"
    <3>1. job'.spec = job.spec  BY <1>1, <1>2, <1>5, <2>2 DEF But, JobFields
    <3> QED  BY <1>1, <2>2, <3>1 DEF LifeInv
  <2> QED  BY <2>1, <2>2
<1>6. ASSUME job' # None, job'.pc \notin Starting PROVE DOMAIN batch.facts \subseteq FactTables(job'.spec)
  <2>1. job.pc = "bind" /\ But({"pc"}, job, job')
        /\ validate_bindings(job.spec, job.facts, inventory, committed_tables(job.spec))
    BY <1>1, <1>6 DEF Starting
  <2>2. job'.spec = job.spec  BY <1>2, <2>1 DEF But, JobFields
  <2>3. committed_tables(job.spec) \subseteq FactTables(job.spec)
    BY <2>1 DEF validate_bindings, TypesStillDeclared
  <2>4. job.spec \in Elems(scene.specs) /\ job.spec.pipeline = exec.detail.pipeline
    BY <1>1, <2>1 DEF BoundInv, LifeInv, Elems
  <2>5. ASSUME NEW t \in DOMAIN batch.facts PROVE t \in committed_tables(job.spec)
    <3>1. PICK s \in Elems(scene.specs) : s.pipeline = exec.detail.pipeline /\ <<MarkersTable(s), t>> \in batch.markers
      BY <2>5 DEF LifeInv
    <3>2. <<MarkersTable(job.spec), t>> \in batch.markers  BY <2>4, <3>1, OneMarkersTable
    <3>3. t # COMMIT_COMPLETION_SENTINEL  BY <2>5 DEF LifeInv
    <3>4. \A m : m = <<MarkersTable(job.spec), t>> => m[1] = MarkersTable(job.spec) /\ m[2] = t  OBVIOUS
    <3> QED  BY <3>2, <3>3, <3>4 DEF committed_tables
  <2> QED  BY <2>2, <2>3, <2>5
<1>7. job' # None => job'.pc # "states"  BY <1>1
<1>8. \A t \in DOMAIN batch'.facts :
        /\ t # COMMIT_COMPLETION_SENTINEL
        /\ \E s \in Elems(scene'.specs) : s.pipeline = exec'.detail.pipeline /\ <<MarkersTable(s), t>> \in batch'.markers
  BY <1>1, <1>3 DEF LifeInv
<1>9. exec'.status = "none" => DOMAIN batch'.facts = {}  BY <1>1, <1>3 DEF LifeInv
<1> QED  BY <1>1, <1>3, <1>4, <1>5, <1>6, <1>7, <1>8, <1>9 DEF LifeInv

LEMMA LifeCommit == ASSUME LifeInv, AdmitInv, JobOK, BoundInv, CommitTable PROVE LifeInv'
<1> DEFINE table == Current.fact_table
<1>1. /\ job # None /\ job.pc = "tables" /\ job.left # <<>> /\ DOMAIN job = JobFields /\ DOMAIN batch = BatchFields
      /\ Staging /\ StageFrame /\ job.pc \in Working /\ StageOf(job.pc) = "commit"
  BY DEF CommitTable, At, JobOK, RunningJob, BoundInv, Staging, Working, StageOf
<1>2. scene' = scene /\ exec' = exec /\ exec.status = "running"  BY <1>1 DEF StageFrame, JobOK
<1>3. Head(job.left) \in DOMAIN job.spec.fact_types
  <2>1. job.left \in Seq(DOMAIN job.spec.fact_types)  BY <1>1 DEF AdmitInv, JobAdmits, Starting
  <2> QED  BY <1>1, <2>1, TailLeft
<1>4. table \in FactTables(job.spec) /\ Parses(job.spec) /\ job.spec.pipeline = exec.detail.pipeline
      /\ DOMAIN batch.facts \subseteq FactTables(job.spec) /\ table # COMMIT_COMPLETION_SENTINEL
      /\ job.spec \in Elems(scene.specs)
  BY <1>1, <1>3, QualifiedTables DEF LifeInv, Current, FactTables, Starting, BoundInv, Elems
<1>5. \/ Mark(table)
      \/ batch' = batch
      \/ Marked(table) /\ batch' = [batch EXCEPT !.facts = Put(@, table, novel_facts(job.admitted[Head(job.left)]))]
  BY <1>1, LateEffect
<1> HIDE DEF table
<1>6. batch.markers \subseteq batch'.markers /\ batch.folded \subseteq batch'.folded  BY <1>1, MarkersGrow
<1>7. batch'.facts = batch.facts \/ (Marked(table) /\ DOMAIN batch'.facts = DOMAIN batch.facts \cup {table})
  BY <1>1, <1>5 DEF Mark, BatchFields, Put
<1>8. \A t \in DOMAIN batch'.facts :
        /\ t # COMMIT_COMPLETION_SENTINEL
        /\ \E s \in Elems(scene'.specs) : s.pipeline = exec'.detail.pipeline /\ <<MarkersTable(s), t>> \in batch'.markers
  <2>1. \A t \in DOMAIN batch.facts :
          /\ t # COMMIT_COMPLETION_SENTINEL
          /\ \E s \in Elems(scene.specs) : s.pipeline = exec.detail.pipeline /\ <<MarkersTable(s), t>> \in batch.markers
    BY DEF LifeInv
  <2>2. Marked(table) => <<MarkersTable(job.spec), table>> \in batch.markers  BY DEF Marked
  <2> QED  BY <1>2, <1>4, <1>6, <1>7, <2>1, <2>2
<1>9. job' # None => job'.spec = job.spec /\ job'.pc \in Working \cup {"record"}
  BY <1>1, StagingBinds
<1>10. DOMAIN batch'.facts \subseteq FactTables(job.spec)  BY <1>4, <1>7
<1>11. job' # None => job'.pc # "states" /\ ~Past("fold")'
  <2>1. ~OpenFold /\ ~FoldTable  BY <1>1 DEF OpenFold, FoldTable, At
  <2>2. job' # None => ~Past("fold")'  BY <1>1, InStage, Places
  <2> QED  BY <1>1, <2>1, <2>2, StatesFrom
<1>12. job' # None => Parses(job'.spec) /\ job'.spec.pipeline = exec'.detail.pipeline /\ DOMAIN batch'.facts \subseteq FactTables(job'.spec)
  BY <1>2, <1>4, <1>9, <1>10
<1> QED  BY <1>2, <1>8, <1>11, <1>12 DEF LifeInv

\* What is left of a listing after its head.
LEMMA ListedLater ==
  ASSUME NEW S, NEW q \in Seq(S), q # <<>>, NEW t \in Elems(q), t # Head(q)
  PROVE  t \in Elems(Tail(q))
<1>1. PICK i \in DOMAIN q : t = q[i]  BY DEF Elems
<1>2. i - 1 \in DOMAIN Tail(q) /\ t = Tail(q)[i - 1]  BY <1>1
<1> QED  BY <1>2 DEF Elems

LEMMA LifeFold == ASSUME LifeInv, AdmitInv, JobOK, BoundInv, OpenFold \/ FoldTable \/ EndFold PROVE LifeInv'
<1>1. /\ job # None /\ job.pc \in {"fold", "states"} /\ DOMAIN job = JobFields /\ DOMAIN batch = BatchFields
      /\ Staging /\ StageFrame /\ job.pc \in Working /\ StageOf(job.pc) = "fold"
      /\ ~CommitTable /\ ~Complete
  BY DEF OpenFold, FoldTable, EndFold, CommitTable, Complete, At, JobOK, RunningJob, BoundInv, Staging, Working, StageOf
<1>2. scene' = scene /\ exec' = exec /\ exec.status = "running"  BY <1>1 DEF StageFrame, JobOK
<1>3. batch'.facts = batch.facts /\ batch'.markers = batch.markers /\ batch.folded \subseteq batch'.folded
  BY <1>1, StagingWrites, MarkersGrow DEF BatchWrites
<1>4. job' # None => job'.spec = job.spec /\ job'.pc \in Working \cup {"record"}  BY <1>1, StagingBinds DEF Working
<1>5. Parses(job.spec) /\ job.spec.pipeline = exec.detail.pipeline /\ DOMAIN batch.facts \subseteq FactTables(job.spec)
  BY <1>1 DEF LifeInv, Starting
<1>6. job.left \in Seq(DOMAIN job.spec.fact_types)  BY <1>1 DEF AdmitInv, JobAdmits, Starting
<1>7. ASSUME job' # None, job'.pc = "states", NEW t \in DOMAIN job.spec.fact_types
      PROVE  LET table == job.spec.fact_types[t].fact_table
             IN t \in Elems(job'.left) \/ table \notin DOMAIN batch'.facts \/ table \in batch'.folded
  <2>1. CASE OpenFold
    <3>1. job'.left = Types(job.spec)  BY <1>1, <2>1 DEF OpenFold, JobFields
    <3> QED  BY <1>1, <3>1, TypesListed
  <2>2. CASE FoldTable
    <3>1. job.left # <<>> /\ job.pc = "states"  BY <2>2 DEF FoldTable, At
    <3>2. \/ Current.fact_table \notin DOMAIN batch.facts /\ job'.left = Tail(job.left)
          \/ batch' = [batch EXCEPT !.folded = @ \cup {Current.fact_table}] /\ job'.left = Tail(job.left)
          \/ \E c : FailedAs("fold", c, job, job')
      BY <2>2, <3>1, LateEffect
    <3>3. \/ Current.fact_table \notin DOMAIN batch.facts /\ job'.left = Tail(job.left)
          \/ batch' = [batch EXCEPT !.folded = @ \cup {Current.fact_table}] /\ job'.left = Tail(job.left)
      BY <1>7, <3>2 DEF FailedAs
    <3>4. Current.fact_table = job.spec.fact_types[Head(job.left)].fact_table  BY DEF Current
    <3>5. t \in Elems(job.left) => t = Head(job.left) \/ t \in Elems(Tail(job.left))
      BY <1>6, <3>1, ListedLater
    <3>6. LET table == job.spec.fact_types[t].fact_table
          IN t \in Elems(job.left) \/ table \notin DOMAIN batch.facts \/ table \in batch.folded
      BY <1>1, <1>7, <3>1 DEF LifeInv
    <3>7. batch' = [batch EXCEPT !.folded = @ \cup {Current.fact_table}] => batch'.folded = batch.folded \cup {Current.fact_table}
      BY <1>1 DEF BatchFields
    <3> HIDE DEF Current
    <3> QED  BY <1>3, <3>3, <3>4, <3>5, <3>6, <3>7
  <2> QED  BY <1>1, <1>7, <2>1, <2>2, StatesFrom
<1>8. ASSUME job' # None, Past("fold")' PROVE DOMAIN batch'.facts \subseteq batch'.folded
  <2>1. "fold" \in Stages  BY Places
  <2>2. ~Past("fold")  BY <1>1, <2>1, InStage, Places
  <2>3. EndFold  BY <1>1, <1>8, <2>1, <2>2, PastStaging DEF Ends
  <2>4. job.pc = "states" /\ job.left = <<>>  BY <2>3 DEF EndFold, At
  <2>5. \A t \in DOMAIN job.spec.fact_types :
          LET table == job.spec.fact_types[t].fact_table IN table \notin DOMAIN batch.facts \/ table \in batch.folded
    BY <1>1, <2>4 DEF LifeInv, Elems
  <2> QED  BY <1>3, <1>5, <2>5 DEF FactTables
<1>9. \A t \in DOMAIN batch'.facts :
        /\ t # COMMIT_COMPLETION_SENTINEL
        /\ \E s \in Elems(scene'.specs) : s.pipeline = exec'.detail.pipeline /\ <<MarkersTable(s), t>> \in batch'.markers
  BY <1>2, <1>3 DEF LifeInv
<1> QED  BY <1>2, <1>3, <1>4, <1>5, <1>7, <1>8, <1>9 DEF LifeInv

\* A step that adds no facts and takes no spec.
LEMMA LifeSame ==
  ASSUME LifeInv, scene' = scene, exec'.status = "none" => exec.status = "none",
         exec'.detail = exec.detail \/ exec.status = "none",
         batch'.facts = batch.facts, batch.markers \subseteq batch'.markers, batch.folded \subseteq batch'.folded,
         job' # None =>
           \/ job'.pc = "load" /\ ~Past("fold")'
           \/ /\ job # None /\ job'.spec = job.spec /\ exec'.detail = exec.detail
              /\ job'.pc = "load" <=> job.pc = "load"
              /\ job'.pc \in Starting <=> job.pc \in Starting
              /\ job'.pc = "states" => job.pc = "states" /\ job'.left = job.left
              /\ Past("fold")' => Past("fold")
  PROVE  LifeInv'
<1>1. /\ exec'.status = "none" => DOMAIN batch'.facts = {}
      /\ \A t \in DOMAIN batch'.facts :
           /\ t # COMMIT_COMPLETION_SENTINEL
           /\ \E s \in Elems(scene'.specs) : s.pipeline = exec'.detail.pipeline /\ <<MarkersTable(s), t>> \in batch'.markers
  <2>1. CASE exec.status = "none"  BY <2>1 DEF LifeInv
  <2>2. CASE exec'.detail = exec.detail  BY <2>2 DEF LifeInv
  <2> QED  BY <2>1, <2>2
<1>2. CASE job' = None  BY <1>1, <1>2 DEF LifeInv
<1>3. CASE job' # None /\ job'.pc = "load" /\ ~Past("fold")'
  BY <1>1, <1>3 DEF LifeInv, Starting
<1>4. CASE /\ job' # None /\ job # None /\ job'.spec = job.spec /\ exec'.detail = exec.detail
           /\ job'.pc = "load" <=> job.pc = "load"
           /\ job'.pc \in Starting <=> job.pc \in Starting
           /\ job'.pc = "states" => job.pc = "states" /\ job'.left = job.left
           /\ Past("fold")' => Past("fold")
  <2>1. /\ job'.pc # "load" => Parses(job'.spec) /\ job'.spec.pipeline = exec'.detail.pipeline
        /\ job'.pc \notin Starting => DOMAIN batch'.facts \subseteq FactTables(job'.spec)
        /\ Past("fold")' => DOMAIN batch'.facts \subseteq batch'.folded
    BY <1>4 DEF LifeInv
  <2>2. job'.pc = "states" =>
          \A t \in DOMAIN job'.spec.fact_types :
            LET table == job'.spec.fact_types[t].fact_table
            IN t \in Elems(job'.left) \/ table \notin DOMAIN batch'.facts \/ table \in batch'.folded
    BY <1>4 DEF LifeInv
  <2> QED  BY <1>1, <2>1, <2>2 DEF LifeInv
<1> QED  BY <1>2, <1>3, <1>4

LEMMA LifeFault == ASSUME LifeInv, JobOK, BoundInv, EffectRaises \/ Die PROVE LifeInv'
<1>1. /\ job # None /\ scene' = scene /\ exec' = exec /\ batch' = batch
      /\ job' = None \/ (job.pc \in Working /\ FailedAs(StageOf(job.pc), {"fault"}, job, job'))
  BY FaultEffect
<1>2. DOMAIN job = JobFields  BY <1>1 DEF JobOK, RunningJob
<1>3. ASSUME job' # None
      PROVE  /\ job'.spec = job.spec /\ job'.pc = "record" /\ job'.pending.outcome = "failed"
             /\ job.pc \in Working
    BY <1>1, <1>2, <1>3 DEF FailedAs, But, JobFields
<1>4. ASSUME job' # None, Past("fold")' PROVE Past("fold")
  <2>1. Due(job') = Due(job)  BY <1>4, StagingStep DEF Staging
  <2> QED  BY <1>3, <1>4, <2>1 DEF Past
<1>5. job' # None => /\ job'.pc # "load" /\ job'.pc \notin Starting /\ job'.pc # "states"
                     /\ job.pc # "load" /\ job.pc \notin Starting
  BY <1>3 DEF Starting, Working
<1> QED  BY <1>1, <1>3, <1>4, <1>5, LifeSame

LEMMA LifeRest ==
  ASSUME LifeInv, JobOK, BoundInv, Land \/ Announce \/ PreCheck \/ Pull \/ Apply \/ PostCheck \/ OpenCommit \/ Complete \/ Publish
  PROVE  LifeInv'
<1>1. /\ job # None /\ DOMAIN job = JobFields /\ DOMAIN batch = BatchFields /\ Staging
      /\ job.pc \in Working /\ job.pc \notin Starting /\ exec' = exec
  BY DEF Land, Announce, PreCheck, Pull, Apply, PostCheck, OpenCommit, Complete, Publish, StageFrame,
         At, JobOK, RunningJob, BoundInv, Staging, Working, Starting
<1>2. ~CommitTable /\ ~OpenFold /\ ~FoldTable /\ ~EndFold
  BY DEF Land, Announce, PreCheck, Pull, Apply, PostCheck, OpenCommit, Complete, Publish, At,
         CommitTable, OpenFold, FoldTable, EndFold
<1>3. /\ batch'.facts = batch.facts /\ batch.markers \subseteq batch'.markers /\ batch.folded \subseteq batch'.folded
  BY <1>1, <1>2, StagingWrites, MarkersGrow DEF BatchWrites
<1>4. scene' = scene /\ (job' # None => job'.spec = job.spec /\ job'.pc \in Working \cup {"record"})
  BY <1>1, StagingBinds DEF Working
<1>5. ASSUME job' # None PROVE job'.pc # "states"  BY <1>1, <1>2, <1>5, StatesFrom
<1>6. ASSUME job' # None, Past("fold")' PROVE Past("fold")
  <2>1. "fold" \in Stages /\ ~Ends("fold")  BY <1>2, Places DEF Ends
  <2> QED  BY <1>1, <1>6, <2>1, PastStaging
<1>7. job.pc # "load" /\ (job' # None => job'.pc # "load" /\ job'.pc \notin Starting)
  BY <1>1, <1>4 DEF Starting, Working
<1> QED  BY <1>1, <1>3, <1>4, <1>5, <1>6, <1>7, LifeSame

LEMMA LifeNext == GapInv /\ BoundInv /\ AdmitInv /\ LifeInv /\ [Next]_allVars => LifeInv'
<1> SUFFICES ASSUME GapInv, BoundInv, AdmitInv, LifeInv, [Next]_allVars PROVE LifeInv'  OBVIOUS
<1>0. JobOK /\ ExecOK /\ DOMAIN batch = BatchFields  BY DEF GapInv, BoundInv
<1>1. CASE Route \/ Retry \/ GiveUp \/ Rerun
  <2>1. /\ scene' = scene /\ batch' = batch /\ (job' = Fresh \/ job' = None)
        /\ exec.status = "none" \/ exec'.detail = exec.detail
    BY <1>0, <1>1, ExecSteps
  <2>2. exec'.status = "none" => exec.status = "none"  BY <1>0, <1>1 DEF Route, Retry, GiveUp, Rerun, ExecOK
  <2>3. ASSUME job' # None PROVE job'.pc = "load" /\ ~Past("fold")'
    <3>1. job' = Fresh  BY <2>1, <2>3
    <3>2. job'.pc = "load"  BY <3>1 DEF Fresh
    <3>3. Due(job') = 1  BY <3>1, FreshJob
    <3> QED  BY <3>2, <3>3, Places DEF Past
  <2> QED  BY <2>1, <2>2, <2>3, LifeSame
<1>2. CASE Staging
  BY <1>0, <1>2, LifeStart, LifeCommit, LifeFold, LifeFault, LifeRest DEF Staging
<1>3. CASE RecordRun
  <2>1. /\ job # None /\ job.pc = "record" /\ batch' = batch /\ scene' = scene
        /\ job' = None \/ job' = [job EXCEPT !.pc = Following(job.pending.stage), !.pending = None]
    BY <1>3 DEF RecordRun, At
  <2>2. DOMAIN job = JobFields /\ job.pending.stage \in Stages /\ exec.status = "running"
    BY <1>0, <2>1 DEF JobOK, RunningJob, PendingOK
  <2>3. exec'.detail = exec.detail /\ exec'.status # "none"  BY <1>0, <1>3, <2>2 DEF RecordRun, ExecOK
  <2>4. ASSUME job' # None
        PROVE  job'.spec = job.spec /\ job'.pc \in Stages /\ job'.pc \notin Starting /\ job'.pc # "load"
    <3>1. job.pending.stage # "publish"
      <4>1. ~(job.pending.stage = "publish" /\ job.pending.outcome = "ok") /\ job.pending.outcome # "failed"
        BY <1>3, <2>4 DEF RecordRun
      <4>2. PendingOK(job.pending, job.skips) /\ job.skips \subseteq Guarded  BY <1>0, <2>1 DEF JobOK, RunningJob
      <4> QED  BY <4>1, <4>2 DEF PendingOK, Outcomes, Guarded
    <3>2. Following(job.pending.stage) \in Working \cap Stages  BY <2>2, <3>1, FollowingPlace
    <3> QED  BY <2>1, <2>2, <2>4, <3>2 DEF JobFields, Working, Starting
  <2>5. job' # None => job'.pc # "states"  BY <2>4, Places
  <2>6. ASSUME job' # None PROVE Past("fold")' <=> Past("fold")
    <3>1. "fold" \in Stages  BY Places
    <3> QED  BY <1>0, <1>3, <2>6, <3>1, PastRecord
  <2>7. job.pc \notin Starting /\ job.pc # "load"  BY <2>1 DEF Starting
  <2> QED  BY <2>1, <2>3, <2>4, <2>5, <2>6, <2>7, LifeSame
<1>4. CASE job' = job /\ batch' = batch /\ exec' = exec /\ scene' = scene
  <2>1. Past("fold")' <=> Past("fold")  BY <1>4 DEF Past, Due
  <2> QED  BY <1>4, <2>1, LifeSame
<1> QED  BY <1>1, <1>2, <1>3, <1>4, StepKinds

LEMMA InvLife == Spec => [](GapInv /\ BoundInv /\ TruthInv /\ AdmitInv /\ LifeInv)
<1>1. Init => LifeInv  BY LifeInit
<1>2. (GapInv /\ BoundInv /\ AdmitInv) /\ LifeInv /\ [Next]_allVars => LifeInv'  BY LifeNext
<1> QED  BY <1>1, <1>2, InvTruth, InvAdmit, PTL DEF Spec

-------------------------------------------------------------------------------
\* Every step keeps the promises of BatchLife

\* The rows of the batch as BatchLife sees them.
Rows == {<<l, batch.raw[l]>> : l \in DOMAIN batch.raw}

LEMMA LandedRows == Landed <=> Rows # {}
  BY DEF Landed, Rows

\* What does not write a field of BatchLife is no step of it.
LEMMA LifeStutter ==
  ASSUME Rows' = Rows, batch'.preq = batch.preq, batch'.postq = batch.postq, batch'.facts = batch.facts,
         batch'.folded = batch.folded, Closed' = Closed, batch'.announced = batch.announced
  PROVE  [Life!Next]_(Life!vars)
  BY DEF Life!vars, Rows

\* A marker of a table closes nothing.
LEMMA MarkCloses ==
  ASSUME DOMAIN batch = BatchFields, NEW t, Mark(t)
  PROVE  /\ Closed' = (Closed \/ t = COMMIT_COMPLETION_SENTINEL)
         /\ \A f \in BatchFields \ {"markers"} : batch'[f] = batch[f]
<1>1. \A f \in BatchFields \ {"markers"} : batch'[f] = batch[f]  BY DEF Mark, BatchFields
<1>2. batch'.markers = batch.markers \cup {<<MarkersTable(job.spec), t>>}  BY DEF Mark, BatchFields
<1>3. \A m : m = <<MarkersTable(job.spec), t>> => m[2] = t  OBVIOUS
<1>4. Closed' <=> (Closed \/ t = COMMIT_COMPLETION_SENTINEL)  BY <1>2, <1>3 DEF Closed
<1> QED  BY <1>1, <1>4

LEMMA LandLives == ASSUME JobOK, DOMAIN batch = BatchFields, Land PROVE [Life!Next]_(Life!vars)
<1>1. \/ batch' = batch
      \/ /\ ~Landed /\ batch' = [batch EXCEPT !.raw = read_objects(Objects, job.spec)]
  BY LandEffect
<1>2. CASE batch' = batch
  BY <1>2, LifeStutter DEF Rows, Closed
<1>3. CASE ~Landed /\ batch' = [batch EXCEPT !.raw = read_objects(Objects, job.spec)]
  <2>1. /\ batch'.preq = batch.preq /\ batch'.postq = batch.postq /\ batch'.facts = batch.facts
        /\ batch'.folded = batch.folded /\ batch'.announced = batch.announced /\ batch'.markers = batch.markers
    BY <1>3 DEF BatchFields
  <2>2. Closed' = Closed  BY <2>1 DEF Closed
  <2>3. Rows = {}  BY <1>3, LandedRows
  <2>4. CASE Rows' = {}  BY <2>1, <2>2, <2>3, <2>4, LifeStutter
  <2>5. CASE Rows' # {}
    <3>1. Life!Land  BY <2>1, <2>2, <2>3, <2>5 DEF Life!Land, Rows
    <3> QED  BY <3>1 DEF Life!Next
  <2> QED  BY <2>4, <2>5
<1> QED  BY <1>1, <1>2, <1>3

\* A door that judges finds no facts.
LEMMA Judging ==
  ASSUME LifeInv, job # None, job.pc \notin Starting, ~AnyFactPresent(job.spec)
  PROVE  DOMAIN batch.facts = {}
  BY DEF LifeInv, AnyFactPresent

LEMMA PreCheckLives == ASSUME JobOK, BoundInv, AdmitInv, LifeInv, PreCheck PROVE [Life!Next]_(Life!vars)
<1> DEFINE viol == violations(RawRows(job.spec), job.spec)
           shaped == shape_pre_quarantine(viol, job.spec)
<1>0. DOMAIN batch = BatchFields /\ job # None /\ job.pc = "pre_check"  BY PreCheckEffect DEF BoundInv
<1>1. \/ batch' = batch
      \/ /\ batch.preq = {} /\ ~AnyFactPresent(job.spec)
         /\ batch' = [batch EXCEPT !.preq = shaped, !.judge = job.version]
  BY PreCheckEffect
<1>2. CASE batch' = batch
  BY <1>2, LifeStutter DEF Rows, Closed
<1>3. CASE /\ batch.preq = {} /\ ~AnyFactPresent(job.spec)
           /\ batch' = [batch EXCEPT !.preq = shaped, !.judge = job.version]
  <2>0. Locators(shaped) = DOMAIN viol  BY ShapedLocators
  <2>1. DOMAIN viol \subseteq DOMAIN RawRows(job.spec)  BY Verdicts
  <2>2. DOMAIN RawRows(job.spec) = DOMAIN batch.raw  BY DEF RawRows
  <2> HIDE DEF viol, shaped
  <2>3. /\ batch'.preq = shaped /\ batch'.postq = batch.postq /\ batch'.facts = batch.facts /\ batch'.raw = batch.raw
        /\ batch'.folded = batch.folded /\ batch'.announced = batch.announced /\ batch'.markers = batch.markers
    BY <1>0, <1>3 DEF BatchFields
  <2>4. Closed' = Closed /\ Rows' = Rows  BY <2>3 DEF Closed, Rows
  <2>5. CASE shaped = {}  BY <1>3, <2>3, <2>4, <2>5, LifeStutter
  <2>6. CASE shaped # {}
    <3>1. Landed  BY <2>0, <2>1, <2>2, <2>6 DEF Locators, Landed
    <3>2. DOMAIN batch.facts = {}  BY <1>0, <1>3, Judging DEF Starting
    <3>3. Life!RefuseRaw  BY <1>3, <2>3, <2>4, <2>6, <3>1, <3>2, LandedRows DEF Life!RefuseRaw, Rows
    <3> QED  BY <3>3 DEF Life!Next
  <2> QED  BY <2>5, <2>6
<1> QED  BY <1>1, <1>2, <1>3

\* Where there are no candidates none is refused.
LEMMA NothingRefused ==
  ASSUME NEW cands, DOMAIN cands = {}, NEW s, NEW t, NEW co
  PROVE  shape_post_quarantine(business_violations(cands, s, t, co), s, t) = {}
<1>1. DOMAIN evaluated(cands, s, t, co) = {}  BY DEF evaluated
<1>2. DOMAIN business_violations(cands, s, t, co) = {}  BY <1>1 DEF business_violations
<1> QED  BY <1>2 DEF shape_post_quarantine, Elems

LEMMA PostCheckLives == ASSUME JobOK, BoundInv, AdmitInv, LifeInv, PostCheck PROVE [Life!Next]_(Life!vars)
<1> DEFINE refused(t) == shape_post_quarantine(business_violations(job.cands[t], job.spec, t, job.co), job.spec, t)
           shaped == UNION {refused(t) : t \in DOMAIN job.spec.fact_types}
<1>0. DOMAIN batch = BatchFields /\ job # None /\ job.pc = "post_check"  BY PostCheckEffect DEF BoundInv
<1>1. \/ batch' = batch
      \/ /\ batch.postq = {} /\ ~AnyFactPresent(job.spec)
         /\ batch' = [batch EXCEPT !.postq = shaped]
  BY PostCheckEffect
<1>2. CASE batch' = batch
  BY <1>2, LifeStutter DEF Rows, Closed
<1>3. CASE /\ batch.postq = {} /\ ~AnyFactPresent(job.spec)
           /\ batch' = [batch EXCEPT !.postq = shaped]
  <2>1. ASSUME ~Landed PROVE shaped = {}
    <3>1. "apply" \in Stages /\ StageOf(job.pc) = "post_check"  BY <1>0, Places DEF StageOf
    <3>2. Past("apply")  BY <1>0, <3>1, Places, PastAt DEF Starting
    <3>3. \A t \in DOMAIN job.spec.fact_types : DOMAIN job.cands[t] = {}
      BY <1>0, <2>1, <3>2 DEF AdmitInv, JobAdmits, NoRows
    <3>4. \A t \in DOMAIN job.spec.fact_types : refused(t) = {}  BY <3>3, NothingRefused
    <3> QED  BY <3>4
  <2> HIDE DEF shaped
  <2>3. /\ batch'.postq = shaped /\ batch'.preq = batch.preq /\ batch'.facts = batch.facts /\ batch'.raw = batch.raw
        /\ batch'.folded = batch.folded /\ batch'.announced = batch.announced /\ batch'.markers = batch.markers
    BY <1>0, <1>3 DEF BatchFields
  <2>4. Closed' = Closed /\ Rows' = Rows  BY <2>3 DEF Closed, Rows
  <2>5. CASE shaped = {}  BY <1>3, <2>3, <2>4, <2>5, LifeStutter
  <2>6. CASE shaped # {}
    <3>1. Landed  BY <2>1, <2>6
    <3>2. DOMAIN batch.facts = {}  BY <1>0, <1>3, Judging DEF Starting
    <3>3. Life!RefuseCandidates  BY <1>3, <2>3, <2>4, <2>6, <3>1, <3>2, LandedRows DEF Life!RefuseCandidates, Rows
    <3> QED  BY <3>3 DEF Life!Next
  <2> QED  BY <2>5, <2>6
<1> QED  BY <1>1, <1>2, <1>3

LEMMA CommitLives == ASSUME JobOK, BoundInv, AdmitInv, LifeInv, CommitTable PROVE [Life!Next]_(Life!vars)
<1> DEFINE table == Current.fact_table
           novel == novel_facts(job.admitted[Head(job.left)])
<1>0. /\ DOMAIN batch = BatchFields /\ job # None /\ job.pc = "tables" /\ job.left # <<>> /\ job.pc \notin Starting
  BY DEF BoundInv, CommitTable, At, Starting
<1>1. \/ Mark(table)
      \/ batch' = batch
      \/ table \notin DOMAIN batch.facts /\ novel # {} /\ batch' = [batch EXCEPT !.facts = Put(@, table, novel)]
  BY <1>0, LateEffect
<1>2. Head(job.left) \in DOMAIN job.spec.fact_types
  <2>1. job.left \in Seq(DOMAIN job.spec.fact_types)  BY <1>0 DEF AdmitInv, JobAdmits
  <2> QED  BY <1>0, <2>1, TailLeft
<1>3. table # COMMIT_COMPLETION_SENTINEL
  BY <1>0, <1>2, QualifiedTables DEF LifeInv, Current, Starting
<1>4. novel # {} => Landed
  <2>1. ASSUME ~Landed PROVE novel = {}
    <3>1. StageOf(job.pc) = "commit"  BY <1>0 DEF StageOf
    <3>2. Past("post_check")  BY <1>0, <3>1, Places, PastAt
    <3>3. DOMAIN job.admitted[Head(job.left)] = {}  BY <1>0, <1>2, <2>1, <3>2 DEF AdmitInv, JobAdmits, NoRows
    <3> QED  BY <3>3, NoCandidates
  <2> QED  BY <2>1
<1> HIDE DEF table, novel
<1>5. CASE Mark(table)
  <2>1. /\ Closed' = Closed /\ batch'.raw = batch.raw /\ batch'.preq = batch.preq /\ batch'.postq = batch.postq
        /\ batch'.facts = batch.facts /\ batch'.folded = batch.folded /\ batch'.announced = batch.announced
    BY <1>0, <1>3, <1>5, MarkCloses DEF BatchFields, Closed
  <2> QED  BY <2>1, LifeStutter DEF Rows
<1>6. CASE batch' = batch
  BY <1>6, LifeStutter DEF Rows, Closed
<1>7. CASE table \notin DOMAIN batch.facts /\ novel # {} /\ batch' = [batch EXCEPT !.facts = Put(@, table, novel)]
  <2>1. /\ batch'.facts = Put(batch.facts, table, novel)
        /\ batch'.raw = batch.raw /\ batch'.preq = batch.preq /\ batch'.postq = batch.postq
        /\ batch'.folded = batch.folded /\ batch'.announced = batch.announced /\ batch'.markers = batch.markers
    BY <1>0, <1>7 DEF BatchFields
  <2>2. Closed' = Closed /\ Rows' = Rows  BY <2>1 DEF Closed, Rows
  <2>3. /\ DOMAIN batch'.facts = DOMAIN batch.facts \cup {table}
        /\ \A t \in DOMAIN batch.facts : batch'.facts[t] = batch.facts[t]
    BY <1>7, <2>1 DEF Put
  <2>4. Rows # {}  BY <1>4, <1>7, LandedRows
  <2>5. Life!Commit  BY <1>7, <2>1, <2>2, <2>3, <2>4 DEF Life!Commit, Rows
  <2> QED  BY <2>5 DEF Life!Next
<1> QED  BY <1>1, <1>5, <1>6, <1>7

LEMMA CompleteLives == ASSUME JobOK, BoundInv, Complete PROVE [Life!Next]_(Life!vars)
<1>1. DOMAIN batch = BatchFields /\ Mark(COMMIT_COMPLETION_SENTINEL)  BY DEF BoundInv, Complete
<1>2. /\ Closed' = TRUE /\ batch'.raw = batch.raw /\ batch'.preq = batch.preq /\ batch'.postq = batch.postq
      /\ batch'.facts = batch.facts /\ batch'.folded = batch.folded /\ batch'.announced = batch.announced
  BY <1>1, MarkCloses DEF BatchFields
<1>3. Life!Close  BY <1>2 DEF Life!Close
<1> QED  BY <1>3 DEF Life!Next

LEMMA FoldLives == ASSUME JobOK, BoundInv, FoldTable PROVE [Life!Next]_(Life!vars)
<1> DEFINE table == Current.fact_table
<1>0. DOMAIN batch = BatchFields /\ job # None /\ job.pc = "states" /\ job.left # <<>>
  BY DEF BoundInv, FoldTable, At
<1>1. \/ batch' = batch
      \/ table \in DOMAIN batch.facts /\ batch' = [batch EXCEPT !.folded = @ \cup {table}]
  BY <1>0, LateEffect
<1> HIDE DEF table
<1>2. CASE batch' = batch
  BY <1>2, LifeStutter DEF Rows, Closed
<1>3. CASE table \in DOMAIN batch.facts /\ batch' = [batch EXCEPT !.folded = @ \cup {table}]
  <2>1. /\ batch'.folded = batch.folded \cup {table} /\ batch'.facts = batch.facts
        /\ batch'.raw = batch.raw /\ batch'.preq = batch.preq /\ batch'.postq = batch.postq
        /\ batch'.announced = batch.announced /\ batch'.markers = batch.markers
    BY <1>0, <1>3 DEF BatchFields
  <2>2. Closed' = Closed  BY <2>1 DEF Closed
  <2>3. Life!Fold  BY <1>3, <2>1, <2>2 DEF Life!Fold
  <2> QED  BY <2>3 DEF Life!Next
<1> QED  BY <1>1, <1>2, <1>3

\* The attempt that publishes has told of its commit, so the batch is closed.
LEMMA PublishLives ==
  ASSUME GapInv, BoundInv, TruthInv, LifeInv, Publish
  PROVE  [Life!Next]_(Life!vars)
<1>0. /\ DOMAIN batch = BatchFields /\ job # None /\ job.pc = "publish" /\ job.pc \notin Starting
      /\ StageOf(job.pc) = "publish"
  BY DEF BoundInv, Publish, At, Starting, StageOf
<1>1. Due(job) = 8  BY <1>0, Places DEF Due
<1>2. Closed
  <2>1. ToldOf(Attempt, 6)  BY <1>0, <1>1 DEF GapInv
  <2>2. PICK r \in Told : Place(r.stage) = 6 /\ r.outcome # "failed"  BY <2>1 DEF ToldOf
  <2>3. r.stage = "commit"  BY <2>2, Places DEF GapInv
  <2> QED  BY <2>2, <2>3 DEF TruthInv, Promise, Deed
<1>3. DOMAIN batch.facts \subseteq batch.folded
  <2>1. Past("fold")  BY <1>0, Places, PastAt
  <2> QED  BY <1>0, <2>1 DEF LifeInv
<1>4. FactTables(job.spec) \cap DOMAIN batch.facts = DOMAIN batch.facts  BY <1>0 DEF LifeInv
<1>5. /\ batch'.announced = DOMAIN batch.facts /\ batch'.facts = batch.facts /\ batch'.folded = batch.folded
      /\ batch'.raw = batch.raw /\ batch'.preq = batch.preq /\ batch'.postq = batch.postq /\ batch'.markers = batch.markers
  BY <1>0, <1>4 DEF Publish, BatchFields
<1>6. Closed' = Closed  BY <1>5 DEF Closed
<1>7. Life!Announce  BY <1>2, <1>3, <1>5, <1>6 DEF Life!Announce
<1> QED  BY <1>7 DEF Life!Next

LEMMA StepLives ==
  ASSUME GapInv, BoundInv, TruthInv, AdmitInv, LifeInv, [Next]_allVars
  PROVE  [Life!Next]_(Life!vars)
<1>0. JobOK /\ ExecOK /\ DOMAIN batch = BatchFields  BY DEF GapInv, BoundInv
<1>1. CASE batch' = batch
  BY <1>1, LifeStutter DEF Rows, Closed
<1>2. CASE Load \/ Describe \/ Bind
  <2>1. batch' = batch \/ batch' = [batch EXCEPT !.by = @ \cup {job.version}]  BY <1>0, <1>2, StartEffect
  <2>2. \A f \in BatchFields \ {"by"} : batch'[f] = batch[f]  BY <1>0, <2>1 DEF BatchFields
  <2> QED  BY <2>2, LifeStutter DEF BatchFields, Rows, Closed
<1>3. CASE Announce \/ Pull \/ Apply \/ OpenCommit \/ OpenFold  BY <1>0, <1>1, <1>3, MidEffect
<1>4. CASE EndFold  BY <1>1, <1>4 DEF EndFold
<1>5. CASE EffectRaises \/ Die  BY <1>0, <1>1, <1>5, FaultEffect
<1>6. CASE Staging
  BY <1>0, <1>2, <1>3, <1>4, <1>5, <1>6, LandLives, PreCheckLives, PostCheckLives, CommitLives, CompleteLives,
     FoldLives, PublishLives DEF Staging
<1>7. CASE Route \/ Retry \/ GiveUp \/ Rerun  BY <1>0, <1>1, <1>7, ExecSteps
<1>8. CASE RecordRun  BY <1>1, <1>8 DEF RecordRun
<1> QED  BY <1>1, <1>6, <1>7, <1>8, StepKinds

\* Faults, retries, reruns, redeployed specs and scripts of the operators do
\* not break what the tables promise of the batch (BatchLife): what is landed,
\* refused or committed is so once and for good, and what is announced as
\* completed is all that was committed, all of it folded.
THEOREM JobImplementsLife == Spec => LifeSpec
<1>1. Init => Life!Init
  <2>1. Init => Rows = {} /\ ~Closed  BY DEF Init, Rows, Closed
  <2> QED  BY <2>1 DEF Init, Life!Init, Rows
<1>2. GapInv /\ BoundInv /\ TruthInv /\ AdmitInv /\ LifeInv /\ [Next]_allVars => [Life!Next]_(Life!vars)  BY StepLives
<1> QED  BY <1>1, <1>2, InvLife, PTL DEF Spec, LifeSpec, Life!Spec

-------------------------------------------------------------------------------
\* The catalog

TableFields == {"class", "columns", "rows"}

\* A script has left some of the steps of a spec that was deployed.
CatalogInv ==
  /\ \A t \in DOMAIN catalog : DOMAIN catalog[t] = TableFields
  /\ script # None =>
       /\ DOMAIN script = {"todo", "inventory"}
       /\ \E v \in 1..deployed : script.todo \in Seq(StepsFor(scene.specs[v]))

\* Both scripts are listings of the steps for the spec.
LEMMA StepsListed ==
  ASSUME NEW s, IsFiniteSet(DOMAIN s.fact_types)
  PROVE  AdmissionSteps(s) \in Seq(StepsFor(s)) /\ RecordSteps(s) \in Seq(StepsFor(s))
<1> DEFINE types == SetToSeq(DOMAIN s.fact_types)
           two(i) == FactSteps(s.fact_types[types[(i + 1) \div 2]])
           heads == [i \in 1..(2 * Len(types)) |-> two(i)[2 - (i % 2)]]
           last == <<Step(MarkersTable(s), "marker", MARKER_COLUMNS, {})>>
<1>1. \A q : (\E n \in Nat : DOMAIN q = 1..n) /\ q = [i \in DOMAIN q |-> q[i]] => q \in Seq(Elems(q))
  <2> SUFFICES ASSUME NEW q, NEW n \in Nat, DOMAIN q = 1..n, q = [i \in DOMAIN q |-> q[i]] PROVE q \in Seq(Elems(q))
    OBVIOUS
  <2>1. q \in [1..n -> Elems(q)]  BY DEF Elems
  <2> QED  BY <2>1
<1>2. AdmissionSteps(s) \in Seq(Elems(AdmissionSteps(s)))
  <2>1. \A x, y : <<x, y>> \in Seq(Elems(<<x, y>>))
    <3> TAKE x, y
    <3>1. x \in Elems(<<x, y>>) /\ y \in Elems(<<x, y>>)  BY DEF Elems
    <3> QED  BY <3>1
  <2> QED  BY <2>1 DEF AdmissionSteps
<1>3. RecordSteps(s) \in Seq(Elems(RecordSteps(s)))
  <2>1. types \in Seq(DOMAIN s.fact_types)  BY Listed
  <2>2. Len(types) \in Nat  BY <2>1
  <2> HIDE DEF types
  <2>3. heads \in Seq(Elems(heads))
    <3>1. DOMAIN heads = 1..(2 * Len(types)) /\ 2 * Len(types) \in Nat  BY <2>2
    <3> HIDE DEF two
    <3> QED  BY <1>1, <3>1
  <2>4. RecordSteps(s) = heads \o last  BY DEF RecordSteps, types
  <2> HIDE DEF heads
  <2>5. \A x : heads \o <<x>> \in Seq(Elems(heads \o <<x>>))
    <3> TAKE x
    <3>1. heads \o <<x>> \in Seq(Elems(heads) \cup {x})  BY <2>3
    <3>2. heads \o <<x>> = [i \in DOMAIN (heads \o <<x>>) |-> (heads \o <<x>>)[i]]
          /\ Len(heads \o <<x>>) \in Nat /\ DOMAIN (heads \o <<x>>) = 1..Len(heads \o <<x>>)
      BY <3>1
    <3> QED  BY <1>1, <3>2
  <2> QED  BY <2>4, <2>5
<1>4. \A A, B, q : q \in Seq(A) /\ A \subseteq B => q \in Seq(B)  OBVIOUS
<1> QED  BY <1>2, <1>3, <1>4 DEF StepsFor

\* Who writes the catalog.
LEMMA WorldSteps ==
  ASSUME [Next]_allVars
  PROVE  /\ scene' = scene
         /\ \/ catalog' = catalog /\ script' = script /\ (deployed' = deployed \/ Redeploy)
            \/ deployed' = deployed /\ (Refresh \/ Provision)
<1>1. CASE Route \/ Retry \/ GiveUp \/ Rerun \/ RecordRun \/ EffectRaises \/ Die
  BY <1>1 DEF Route, Retry, GiveUp, Rerun, RecordRun, EffectRaises, Die, provisioningVars
<1>2. CASE Load \/ Describe \/ Bind
  BY <1>2 DEF Load, Describe, Bind, provisioningVars
<1>3. CASE Land \/ Announce \/ PreCheck \/ Pull \/ Apply \/ PostCheck
  BY <1>3 DEF Land, Announce, PreCheck, Pull, Apply, PostCheck, StageFrame, provisioningVars
<1>4. CASE OpenCommit \/ CommitTable \/ Complete \/ OpenFold \/ FoldTable \/ EndFold \/ Publish
  BY <1>4 DEF OpenCommit, CommitTable, Complete, OpenFold, FoldTable, EndFold, Publish, StageFrame, provisioningVars
<1>5. CASE Operators
  BY <1>5 DEF Operators, Redeploy, Refresh, provisioningVars
<1>6. CASE Rest \/ UNCHANGED allVars
  BY <1>6 DEF Rest, allVars, jobVars, provisioningVars
<1> QED  BY <1>1, <1>2, <1>3, <1>4, <1>5, <1>6 DEF Next, Runner

\* Tables, their columns and the types of these are never taken away, and a
\* table is labelled anew only as a deployed spec has it.
Grows ==
  \A t \in DOMAIN catalog :
    /\ t \in DOMAIN catalog'
    /\ \A n \in DOMAIN catalog[t].columns :
         n \in DOMAIN catalog'[t].columns /\ catalog'[t].columns[n] = catalog[t].columns[n]
    /\ catalog'[t].class # catalog[t].class =>
         \E v \in 1..deployed : \E x \in StepsFor(scene.specs[v]) : x.table = t /\ x.class = catalog'[t].class

LEMMA ProvisionGrows ==
  ASSUME CatalogInv, BoundInv, ProvisionTable
  PROVE  Grows /\ \A t \in DOMAIN catalog' : DOMAIN catalog'[t] = TableFields
<1> DEFINE step == Head(script.todo)
           table == bootstrap_table(step)
<1>1. script # None /\ script.todo # <<>>  BY DEF ProvisionTable
<1>2. PICK v \in 1..deployed : script.todo \in Seq(StepsFor(scene.specs[v]))  BY <1>1 DEF CatalogInv
<1>3. step \in StepsFor(scene.specs[v])  BY <1>1, <1>2, TailLeft
<1>4. \/ catalog' = catalog
      \/ table # None /\ catalog' = Put(catalog, step.table, table)
  BY DEF ProvisionTable
<1>5. CASE catalog' = catalog  BY <1>5 DEF Grows, CatalogInv
<1>6. CASE table # None /\ catalog' = Put(catalog, step.table, table)
  <2>1. CASE step.table \notin DOMAIN catalog
    <3>1. table = [class |-> step.class, columns |-> step.columns, rows |-> <<>>]  BY <2>1 DEF bootstrap_table
    <3>2. DOMAIN table = TableFields  BY <3>1 DEF TableFields
    <3> HIDE DEF table, step
    <3>3. /\ DOMAIN catalog' = DOMAIN catalog \cup {step.table}
          /\ \A t \in DOMAIN catalog : catalog'[t] = catalog[t]
          /\ catalog'[step.table] = table
      BY <1>6, <2>1 DEF Put
    <3> QED  BY <3>2, <3>3 DEF Grows, CatalogInv
  <2>2. CASE step.table \in DOMAIN catalog
    <3>1. Additive(step, catalog[step.table].columns)
          /\ table = [catalog[step.table] EXCEPT !.class = step.class, !.columns = step.columns]
      BY <1>6, <2>2 DEF bootstrap_table
    <3>2. DOMAIN catalog[step.table] = TableFields  BY <2>2 DEF CatalogInv
    <3>3. DOMAIN table = TableFields /\ table.class = step.class /\ table.columns = step.columns
      BY <3>1, <3>2 DEF TableFields
    <3>4. \A n \in DOMAIN catalog[step.table].columns :
            n \in DOMAIN step.columns /\ step.columns[n] = catalog[step.table].columns[n]
      BY <3>1 DEF Additive
    <3> HIDE DEF table, step
    <3>5. /\ DOMAIN catalog' = DOMAIN catalog
          /\ \A t \in DOMAIN catalog : t # step.table => catalog'[t] = catalog[t]
          /\ catalog'[step.table] = table
      BY <1>6, <2>2 DEF Put
    <3>6. ASSUME NEW t \in DOMAIN catalog
          PROVE  /\ t \in DOMAIN catalog' /\ DOMAIN catalog'[t] = TableFields
                 /\ \A n \in DOMAIN catalog[t].columns :
                      n \in DOMAIN catalog'[t].columns /\ catalog'[t].columns[n] = catalog[t].columns[n]
                 /\ catalog'[t].class = catalog[t].class \/ (t = step.table /\ catalog'[t].class = step.class)
      <4>1. CASE t = step.table  BY <3>3, <3>4, <3>5, <4>1
      <4>2. CASE t # step.table  BY <3>5, <4>2 DEF CatalogInv
      <4> QED  BY <4>1, <4>2
    <3> QED  BY <1>3, <3>5, <3>6 DEF Grows
  <2> QED  BY <2>1, <2>2
<1> QED  BY <1>4, <1>5, <1>6

LEMMA RefreshGrows ==
  ASSUME CatalogInv, Refresh
  PROVE  Grows /\ DOMAIN catalog' = DOMAIN catalog /\ \A t \in DOMAIN catalog' : DOMAIN catalog'[t] = TableFields
<1>1. catalog' = [t \in DOMAIN catalog |-> IF t \in DOMAIN scene.refreshed
                                           THEN [catalog[t] EXCEPT !.rows = scene.refreshed[t]] ELSE catalog[t]]
  BY DEF Refresh
<1>2. ASSUME NEW t \in DOMAIN catalog
      PROVE  /\ DOMAIN catalog'[t] = TableFields /\ catalog'[t].columns = catalog[t].columns
             /\ catalog'[t].class = catalog[t].class
  <2>1. DOMAIN catalog[t] = TableFields  BY DEF CatalogInv
  <2>2. LET r == [catalog[t] EXCEPT !.rows = scene.refreshed[t]]
        IN DOMAIN r = TableFields /\ r.columns = catalog[t].columns /\ r.class = catalog[t].class
    BY <2>1 DEF TableFields
  <2>3. catalog'[t] = catalog[t] \/ catalog'[t] = [catalog[t] EXCEPT !.rows = scene.refreshed[t]]  BY <1>1
  <2> QED  BY <2>1, <2>2, <2>3
<1>3. DOMAIN catalog' = DOMAIN catalog  BY <1>1
<1> QED  BY <1>2, <1>3 DEF Grows

\* What a step does to the script and the catalog.
LEMMA CatalogStep ==
  ASSUME CatalogInv, BoundInv, [Next]_allVars
  PROVE  Grows /\ CatalogInv'
<1>0. scene' = scene /\ deployed \in Nat  BY WorldSteps DEF BoundInv
<1>1. CASE catalog' = catalog /\ script' = script /\ (deployed' = deployed \/ Redeploy)
  <2>1. 1..deployed \subseteq 1..deployed'  BY <1>0, <1>1 DEF Redeploy
  <2>2. Grows  BY <1>1 DEF Grows
  <2> QED  BY <1>0, <1>1, <2>1, <2>2 DEF CatalogInv
<1>2. CASE deployed' = deployed /\ Refresh
  <2>1. script' = script  BY <1>2 DEF Refresh
  <2> QED  BY <1>0, <1>2, <2>1, RefreshGrows DEF CatalogInv
<1>3. CASE deployed' = deployed /\ Provision
  <2>1. CASE StartAdmissionTables(DeployedSpec) \/ StartRecordTables(DeployedSpec)
    <3>1. deployed # 0 \/ ProvisionTable \/ EndScript \/ AbortScript  BY <1>3 DEF Provision
    <3>2. script = None  BY <2>1 DEF StartAdmissionTables, StartRecordTables
    <3>3. deployed \in 1..deployed
      BY <1>0, <3>1, <3>2 DEF ProvisionTable, EndScript, AbortScript
    <3>4. DeployedSpec \in Elems(scene.specs)  BY <3>3 DEF BoundInv, DeployedSpec, Elems
    <3>5. IsFiniteSet(DOMAIN DeployedSpec.fact_types)  BY <3>4, SceneAssumption DEF BoundInv
    <3>6. AdmissionSteps(DeployedSpec) \in Seq(StepsFor(DeployedSpec)) /\ RecordSteps(DeployedSpec) \in Seq(StepsFor(DeployedSpec))
      BY <3>5, StepsListed
    <3>7. catalog' = catalog /\ DOMAIN script' = {"todo", "inventory"} /\ script'.todo \in Seq(StepsFor(DeployedSpec))
      BY <2>1, <3>6 DEF StartAdmissionTables, StartRecordTables
    <3> QED  BY <1>0, <1>3, <3>3, <3>7 DEF CatalogInv, Grows, DeployedSpec
  <2>2. CASE ProvisionTable
    <3>1. script # None /\ script.todo # <<>>  BY <2>2 DEF ProvisionTable
    <3>2. PICK v \in 1..deployed : script.todo \in Seq(StepsFor(scene.specs[v]))  BY <3>1 DEF CatalogInv
    <3>3. Tail(script.todo) \in Seq(StepsFor(scene.specs[v]))  BY <3>1, <3>2, TailLeft
    <3>4. script' = None \/ script' = [script EXCEPT !.todo = Tail(@)]  BY <2>2 DEF ProvisionTable
    <3>5. script' # None => DOMAIN script' = {"todo", "inventory"} /\ script'.todo = Tail(script.todo)
      BY <3>1, <3>4 DEF CatalogInv
    <3> QED  BY <1>0, <1>3, <2>2, <3>3, <3>5, ProvisionGrows DEF CatalogInv
  <2>3. CASE EndScript \/ AbortScript
    <3>1. catalog' = catalog /\ script' = None  BY <2>3 DEF EndScript, AbortScript
    <3> QED  BY <3>1 DEF CatalogInv, Grows
  <2> QED  BY <1>3, <2>1, <2>2, <2>3 DEF Provision
<1> QED  BY <1>0, <1>1, <1>2, <1>3, WorldSteps

LEMMA InvCatalog == Spec => [](BoundInv /\ GapInv /\ CatalogInv)
<1>1. Init => CatalogInv  BY SceneAssumption DEF Init, CatalogInv, TableFields
<1>2. GapInv /\ BoundInv /\ CatalogInv /\ [Next]_allVars => CatalogInv'  BY CatalogStep
<1> QED  BY <1>1, <1>2, InvAdmit, PTL DEF Spec

\* The scripts of the operators (create_admission_tables.py,
\* create_record_tables.py), whenever they run and wherever they are aborted,
\* take no table, no column and no type away.
THEOREM CatalogOnlyGrows == Spec => TablesOnlyGrow
<1>1. GapInv /\ BoundInv /\ CatalogInv /\ [Next]_allVars => [Grows]_catalog  BY CatalogStep
<1>2. Grows => \A t \in DOMAIN catalog :
                 /\ t \in DOMAIN catalog'
                 /\ \A n \in DOMAIN catalog[t].columns :
                      n \in DOMAIN catalog'[t].columns /\ catalog'[t].columns[n] = catalog[t].columns[n]
                 /\ catalog'[t].class # catalog[t].class =>
                      \E v \in 1..deployed : \E x \in StepsFor(scene.specs[v]) : x.table = t /\ x.class = catalog'[t].class
  BY DEF Grows
<1> QED  BY <1>1, <1>2, InvCatalog, PTL DEF Spec, TablesOnlyGrow

-------------------------------------------------------------------------------
\* The types of the state

Budgets == {"faults", "losses", "reruns", "refreshes", "scripts"}

ExecTypes ==
  /\ exec.status \in {"none", "running", "failed", "succeeded", "refused"}
  /\ exec.try \in 0..(MaxRetries + 1)
  /\ DOMAIN budget = Budgets /\ \A b \in Budgets : budget[b] \in 0..scene.budget[b]
  /\ exec.rerun + budget["reruns"] = scene.budget["reruns"]
  /\ exec.status = "none" => exec.rerun = 0

\* The facts of a batch are in tables that pre_check found.
TableTypes ==
  /\ DOMAIN batch.facts \subseteq DOMAIN catalog /\ batch.folded \subseteq DOMAIN batch.facts
  /\ job # None =>
       /\ job.pc = "load" => job.spec = None
       /\ job.pc # "record" => job.pending = None
       /\ Past("pre_check") => FactTables(job.spec) \subseteq DOMAIN catalog

\* Who spends what.
LEMMA Spending ==
  ASSUME [Next]_allVars
  PROVE  scene' = scene /\ (Rerun \/ budget' = budget \/ \E b \in Budgets \ {"reruns"} : Spend(b))
<1>1. CASE Route \/ Rerun \/ Retry \/ GiveUp \/ EffectRaises \/ Die
  BY <1>1 DEF Route, Rerun, Retry, GiveUp, EffectRaises, Die, Budgets
<1>2. CASE Load \/ Describe \/ Bind
  BY <1>2 DEF Load, Describe, Bind
<1>3. CASE Land \/ Announce \/ PreCheck \/ Pull \/ Apply \/ PostCheck
  BY <1>3 DEF Land, Announce, PreCheck, Pull, Apply, PostCheck, StageFrame
<1>4. CASE OpenCommit \/ CommitTable \/ Complete \/ OpenFold \/ FoldTable \/ EndFold \/ Publish
  BY <1>4 DEF OpenCommit, CommitTable, Complete, OpenFold, FoldTable, EndFold, Publish, StageFrame
<1>5. CASE RecordRun
  BY <1>5 DEF RecordRun, try_append, Budgets
<1>6. CASE Operators
  BY <1>6 DEF Operators, Redeploy, Refresh, Provision, Budgets
<1>7. CASE Rest \/ UNCHANGED allVars
  BY <1>7 DEF Rest, allVars, jobVars
<1> QED  BY <1>1, <1>2, <1>3, <1>4, <1>5, <1>6, <1>7 DEF Next, Runner

LEMMA BudgetKept ==
  ASSUME ExecTypes, NEW b \in Budgets, Spend(b), scene' = scene, scene.budget \in [Budgets -> Nat]
  PROVE  /\ DOMAIN budget' = Budgets /\ \A c \in Budgets : budget'[c] \in 0..scene'.budget[c]
         /\ budget'[b] = budget[b] - 1 /\ \A c \in Budgets \ {b} : budget'[c] = budget[c]
<1>1. budget' = [budget EXCEPT ![b] = @ - 1] /\ budget[b] > 0  BY DEF Spend
<1>2. DOMAIN budget = Budgets /\ \A c \in Budgets : budget[c] \in 0..scene.budget[c] /\ scene.budget[c] \in Nat
  BY DEF ExecTypes
<1>3. budget'[b] = budget[b] - 1 /\ \A c \in Budgets \ {b} : budget'[c] = budget[c]  BY <1>1, <1>2
<1>4. budget[b] - 1 \in 0..scene.budget[b]  BY <1>1, <1>2
<1> QED  BY <1>1, <1>2, <1>3, <1>4

LEMMA ExecTypesNext == ASSUME JobOK, ExecOK, BoundInv, ExecTypes, [Next]_allVars PROVE ExecTypes'
<1>1. scene' = scene /\ scene.budget \in [Budgets -> Nat]  BY Spending, SceneAssumption DEF BoundInv, Budgets
<1>2. /\ exec'.status \in {"none", "running", "failed", "succeeded", "refused"}
      /\ exec'.try \in 0..(MaxRetries + 1)
      /\ exec'.status = "none" => exec'.rerun = 0
      /\ IF Rerun THEN exec'.rerun = exec.rerun + 1 ELSE exec'.rerun = exec.rerun
  <2>1. CASE Route
    BY <2>1, RetriesAssumption DEF Route, Idle, Rerun, ExecTypes
  <2>2. CASE Retry
    <3>1. exec.status = "running" /\ exec.try <= MaxRetries /\ exec' = [exec EXCEPT !.try = @ + 1] /\ ~Rerun
      BY <2>2 DEF Retry, Rerun
    <3> QED  BY <3>1, RetriesAssumption DEF ExecOK, ExecTypes
  <2>3. CASE GiveUp
    BY <2>3 DEF GiveUp, Rerun, ExecOK, ExecTypes
  <2>4. CASE Rerun
    <3>1. exec' = [exec EXCEPT !.status = "running", !.try = 1, !.rerun = @ + 1]  BY <2>4 DEF Rerun
    <3> QED  BY <2>4, <3>1, RetriesAssumption DEF ExecOK
  <2>5. CASE Staging
    <3>1. exec' = exec /\ job # None /\ exec.status = "running"  BY <2>5, StagingStep DEF JobOK
    <3>2. ~Rerun  BY <3>1 DEF Rerun
    <3> QED  BY <3>1, <3>2 DEF ExecTypes
  <2>6. CASE RecordRun
    <3>1. job # None /\ exec.status = "running"  BY <2>6 DEF RecordRun, At, JobOK
    <3>2. ~Rerun  BY <3>1 DEF Rerun
    <3> QED  BY <2>6, <3>2 DEF RecordRun, ExecOK, ExecTypes
  <2>7. CASE exec' = exec
    <3>1. ~Rerun
      <4>1. Rerun => exec'.rerun = exec.rerun + 1  BY DEF Rerun, ExecOK
      <4> QED  BY <2>7, <4>1 DEF ExecOK
    <3> QED  BY <2>7, <3>1 DEF ExecTypes
  <2> QED  BY <2>1, <2>2, <2>3, <2>4, <2>5, <2>6, <2>7, StepKinds
<1>3. exec.rerun \in Nat /\ scene.budget["reruns"] \in Nat /\ budget["reruns"] \in Nat /\ "reruns" \in Budgets
  BY <1>1 DEF ExecOK, ExecTypes, Budgets
<1>4. CASE Rerun
  <2>1. Spend("reruns")  BY <1>4 DEF Rerun
  <2>2. /\ DOMAIN budget' = Budgets /\ \A b \in Budgets : budget'[b] \in 0..scene'.budget[b]
        /\ budget'["reruns"] = budget["reruns"] - 1
    BY <1>1, <1>3, <2>1, BudgetKept
  <2>3. exec'.rerun + budget'["reruns"] = scene'.budget["reruns"]  BY <1>1, <1>2, <1>3, <1>4, <2>2 DEF ExecTypes
  <2> QED  BY <1>2, <2>2, <2>3 DEF ExecTypes
<1>5. CASE ~Rerun /\ budget' = budget
  BY <1>1, <1>2, <1>5 DEF ExecTypes
<1>6. ASSUME ~Rerun, NEW b \in Budgets \ {"reruns"}, Spend(b) PROVE ExecTypes'
  <2>1. /\ DOMAIN budget' = Budgets /\ \A c \in Budgets : budget'[c] \in 0..scene'.budget[c]
        /\ budget'["reruns"] = budget["reruns"]
    BY <1>1, <1>3, <1>6, BudgetKept
  <2> QED  BY <1>1, <1>2, <1>6, <2>1 DEF ExecTypes
<1> QED  BY <1>4, <1>5, <1>6, Spending

LEMMA PendingKept ==
  ASSUME JobOK, Staging, job' # None, job'.pc # "record"
  PROVE  job'.pending = job.pending
<1>0. job # None => DOMAIN job = JobFields  BY DEF JobOK, RunningJob
<1>1. \A fs : job # None /\ But(fs, job, job') /\ "pending" \notin fs => job'.pending = job.pending
  BY <1>0 DEF But, JobFields
<1>2. ASSUME Load \/ Describe \/ Bind PROVE job'.pending = job.pending
  <2>1. job # None /\ (But({"pc", "version", "spec"}, job, job') \/ But({"pc", "facts"}, job, job') \/ But({"pc"}, job, job'))
    BY <1>2, StartEffect
  <2> QED  BY <1>1, <2>1
<1>3. ASSUME Land PROVE job'.pending = job.pending
  <2>1. job # None /\ (But({"pc", "skips"}, job, job') \/ But({"pc"}, job, job'))
    BY <1>3, LandEffect DEF FailedAs
  <2> QED  BY <1>1, <2>1
<1>4. ~PreCheck  BY PreCheckEffect DEF FailedAs, DoorAs
<1>5. ~PostCheck  BY PostCheckEffect DEF FailedAs, DoorAs
<1>6. ASSUME Announce \/ Pull \/ Apply \/ OpenCommit \/ OpenFold PROVE job'.pending = job.pending
  <2>1. job # None /\ But({"pc", "left"}, job, job')
    BY <1>6, MidEffect DEF FailedAs, EndedAs
  <2> QED  BY <1>1, <2>1
<1>7. ASSUME CommitTable \/ Complete \/ FoldTable \/ EndFold \/ Publish PROVE job'.pending = job.pending
  <2>1. job # None /\ (But({"left"}, job, job') \/ But({"left", "skips"}, job, job') \/ job' = job)
    BY <1>7, LateEffect DEF FailedAs, EndedAs
  <2> QED  BY <1>1, <2>1
<1>8. ~(EffectRaises \/ Die)  BY FaultEffect DEF FailedAs
<1> QED  BY <1>2, <1>3, <1>4, <1>5, <1>6, <1>7, <1>8 DEF Staging

LEMMA TableStaging ==
  ASSUME JobOK, BoundInv, AdmitInv, LifeInv, TableTypes, Staging, catalog' = catalog
  PROVE  TableTypes'
<1>0. /\ job # None /\ DOMAIN job = JobFields /\ DOMAIN batch = BatchFields
      /\ job' # None => RunningJob(job') /\ Due(job') = Due(job)
  BY StagingStep DEF JobOK, RunningJob, BoundInv
<1>1. job' # None =>
        /\ job.pc \in Starting \cup Working
        /\ job'.pc # "load"
        /\ job.pc \notin Starting => job'.spec = job.spec /\ job'.pc \notin Starting
  BY <1>0, StagingBinds DEF Starting, Working
<1>2. ASSUME job' # None, job'.pc # "record" PROVE job'.pending = None
  <2>1. job'.pending = job.pending  BY <1>2, PendingKept
  <2>2. job.pc # "record"  BY <1>1, <1>2 DEF Starting, Working
  <2> QED  BY <1>0, <2>1, <2>2 DEF TableTypes
<1>3. ASSUME job' # None, Past("pre_check")' PROVE FactTables(job'.spec) \subseteq DOMAIN catalog'
  <2>1. "pre_check" \in Stages  BY Places
  <2>2. job.pc # "record"  BY <1>1, <1>3 DEF Starting, Working
  <2>3. CASE Past("pre_check")
    <3>1. job.pc \notin Starting  BY <1>0, <2>1, <2>2, <2>3, NotPast
    <3> QED  BY <1>0, <1>1, <1>3, <2>3, <3>1 DEF TableTypes
  <2>4. CASE ~Past("pre_check")
    <3>1. PreCheck  BY <1>0, <1>3, <2>1, <2>4, PastStaging, Places DEF Ends
    <3>2. \/ \E c : FailedAs("pre_check", c, job, job')
          \/ Exists({job.spec.quarantine_table} \cup FactTables(job.spec))
      BY <3>1, PreCheckEffect
    <3>3. job.pc = "pre_check" /\ Due(job) = 2  BY <3>1, Places DEF PreCheck, At, Due, Starting, StageOf
    <3>4. ~\E c : FailedAs("pre_check", c, job, job')
      <4>1. SUFFICES ASSUME NEW c, FailedAs("pre_check", c, job, job') PROVE FALSE  OBVIOUS
      <4>2. job'.pc = "record" /\ job'.pending.stage = "pre_check" /\ job'.pending.outcome = "failed"
        BY <4>1 DEF FailedAs
      <4> QED  BY <1>3, <2>1, <4>2, PassedByEnd
    <3> QED  BY <1>1, <1>3, <3>2, <3>3, <3>4 DEF Exists, Starting
  <2> QED  BY <2>3, <2>4
<1>4. DOMAIN batch'.facts \subseteq DOMAIN catalog' /\ batch'.folded \subseteq DOMAIN batch'.facts
  <2>1. CASE CommitTable
    <3> DEFINE table == Current.fact_table
    <3>1. job.pc = "tables" /\ job.left # <<>>  BY <2>1 DEF CommitTable, At
    <3>2. \/ Mark(table) \/ batch' = batch
          \/ batch' = [batch EXCEPT !.facts = Put(@, table, novel_facts(job.admitted[Head(job.left)]))]
      BY <2>1, <3>1, LateEffect
    <3>3. Head(job.left) \in DOMAIN job.spec.fact_types
      <4>1. job.left \in Seq(DOMAIN job.spec.fact_types)  BY <1>0, <3>1 DEF AdmitInv, JobAdmits, Starting
      <4> QED  BY <3>1, <4>1, TailLeft
    <3>4. table \in FactTables(job.spec)  BY <3>3 DEF Current, FactTables
    <3>5. Past("pre_check")  BY <1>0, <3>1, Places, PastAt DEF Starting, StageOf
    <3>6. table \in DOMAIN catalog  BY <1>0, <3>4, <3>5 DEF TableTypes
    <3> HIDE DEF table
    <3>7. \/ batch'.facts = batch.facts /\ batch'.folded = batch.folded
          \/ DOMAIN batch'.facts = DOMAIN batch.facts \cup {table} /\ batch'.folded = batch.folded
      BY <1>0, <3>2 DEF Mark, BatchFields, Put
    <3> QED  BY <3>6, <3>7 DEF TableTypes
  <2>2. CASE FoldTable
    <3>1. batch'.facts = batch.facts  BY <1>0, <2>2, StagingWrites DEF BatchWrites, CommitTable, FoldTable, At
    <3>2. job.pc = "states" /\ job.left # <<>>  BY <2>2 DEF FoldTable, At
    <3>3. batch' = batch \/ (Current.fact_table \in DOMAIN batch.facts /\ batch' = [batch EXCEPT !.folded = @ \cup {Current.fact_table}])
      BY <2>2, <3>2, LateEffect
    <3> QED  BY <1>0, <3>1, <3>3 DEF TableTypes, BatchFields
  <2>3. CASE ~CommitTable /\ ~FoldTable
    BY <1>0, <2>3, StagingWrites DEF BatchWrites, TableTypes
  <2> QED  BY <2>1, <2>2, <2>3
<1> QED  BY <1>1, <1>2, <1>3, <1>4 DEF TableTypes

LEMMA StagingCatalog == ASSUME Staging PROVE catalog' = catalog
<1>1. CASE EffectRaises \/ Die \/ Load \/ Describe \/ Bind
  BY <1>1 DEF EffectRaises, Die, Load, Describe, Bind, provisioningVars
<1>2. CASE Land \/ Announce \/ PreCheck \/ Pull \/ Apply \/ PostCheck
  BY <1>2 DEF Land, Announce, PreCheck, Pull, Apply, PostCheck, StageFrame, provisioningVars
<1>3. CASE OpenCommit \/ CommitTable \/ Complete \/ OpenFold \/ FoldTable \/ EndFold \/ Publish
  BY <1>3 DEF OpenCommit, CommitTable, Complete, OpenFold, FoldTable, EndFold, Publish, StageFrame, provisioningVars
<1> QED  BY <1>1, <1>2, <1>3 DEF Staging

LEMMA TableNext ==
  ASSUME GapInv, BoundInv, AdmitInv, LifeInv, CatalogInv, TableTypes, [Next]_allVars
  PROVE  TableTypes'
<1>0. JobOK /\ ExecOK  BY DEF GapInv
<1>1. DOMAIN catalog \subseteq DOMAIN catalog'  BY CatalogStep DEF Grows
<1>2. CASE Route \/ Retry \/ GiveUp \/ Rerun
  <2>1. batch' = batch /\ (job' = Fresh \/ job' = None)  BY <1>0, <1>2, ExecSteps
  <2>2. ASSUME job' # None PROVE ~Past("pre_check")'
    <3>1. job' = Fresh  BY <2>1, <2>2
    <3>2. job'.pc = "load" /\ Due(job') = 1  BY <3>1, FreshJob DEF Fresh
    <3> QED  BY <3>2, Places DEF Past
  <2>3. job' # None => job'.pc = "load" /\ job'.spec = None /\ job'.pending = None  BY <2>1 DEF Fresh
  <2> QED  BY <1>1, <2>1, <2>2, <2>3 DEF TableTypes
<1>3. CASE Staging
  BY <1>0, <1>3, StagingCatalog, TableStaging
<1>4. CASE RecordRun
  <2>1. /\ job # None /\ job.pc = "record" /\ batch' = batch
        /\ \/ job' = None
           \/ /\ job.pending.outcome # "failed"
              /\ ~(job.pending.stage = "publish" /\ job.pending.outcome = "ok")
              /\ job' = [job EXCEPT !.pc = Following(job.pending.stage), !.pending = None]
    BY <1>4 DEF RecordRun, At
  <2>2. DOMAIN job = JobFields /\ job.pending.stage \in Stages /\ PendingOK(job.pending, job.skips) /\ job.skips \subseteq Guarded
    BY <1>0, <2>1 DEF JobOK, RunningJob, PendingOK
  <2>3. ASSUME job' # None
        PROVE  /\ job'.pc \in Working /\ job'.pending = None /\ job'.spec = job.spec
               /\ Past("pre_check")' <=> Past("pre_check")
    <3>1. job' = [job EXCEPT !.pc = Following(job.pending.stage), !.pending = None] /\ job.pending.stage # "publish"
      BY <2>1, <2>2, <2>3 DEF PendingOK, Outcomes, Guarded
    <3>2. Following(job.pending.stage) \in Working  BY <2>2, <3>1, FollowingPlace
    <3>3. Past("pre_check")' <=> Past("pre_check")  BY <1>0, <1>4, <2>3, Places, PastRecord
    <3> QED  BY <2>2, <3>1, <3>2, <3>3 DEF JobFields
  <2> QED  BY <1>1, <2>1, <2>3 DEF TableTypes, Working
<1>5. CASE job' = job /\ batch' = batch
  <2>1. Past("pre_check")' <=> Past("pre_check")  BY <1>5 DEF Past, Due
  <2> QED  BY <1>1, <1>5, <2>1 DEF TableTypes
<1> QED  BY <1>2, <1>3, <1>4, <1>5, StepKinds

LEMMA InvTypes == Spec => [](GapInv /\ LifeInv /\ ExecTypes /\ TableTypes)
<1>1. Init => ExecTypes /\ TableTypes
  <2> SUFFICES ASSUME Init PROVE ExecTypes /\ TableTypes  OBVIOUS
  <2>1. scene.budget \in [Budgets -> Nat] /\ budget = scene.budget  BY SceneAssumption DEF Init, Budgets
  <2>2. /\ exec.status = "none" /\ exec.try = 0 /\ exec.rerun = 0 /\ job = None
        /\ DOMAIN batch.facts = {} /\ batch.folded = {}
    BY DEF Init, Idle
  <2>3. \A b \in Budgets : budget[b] \in 0..scene.budget[b]  BY <2>1
  <2>4. 0 + budget["reruns"] = scene.budget["reruns"]  BY <2>1 DEF Budgets
  <2> QED  BY <2>1, <2>2, <2>3, <2>4, RetriesAssumption DEF ExecTypes, TableTypes
<1>2. GapInv /\ BoundInv /\ AdmitInv /\ LifeInv /\ CatalogInv /\ ExecTypes /\ TableTypes /\ [Next]_allVars
      => ExecTypes' /\ TableTypes'
  BY ExecTypesNext, TableNext DEF GapInv
<1> QED  BY <1>1, <1>2, InvLife, InvCatalog, PTL DEF Spec

\* What the variables of the job and its world hold: an attempt runs only in
\* a running execution, a report only while it is written; facts and folds are
\* of tables that exist; and no budget of the scene is overdrawn.
THEOREM JobTypes == Spec => []TypeOK
<1>1. ASSUME GapInv, LifeInv, ExecTypes, TableTypes PROVE TypeOK
  <2>1. exec.rerun \in 0..scene.budget.reruns
    <3>1. exec.rerun \in Nat /\ budget["reruns"] \in 0..scene.budget["reruns"] /\ exec.rerun + budget["reruns"] = scene.budget["reruns"]
      BY <1>1 DEF GapInv, ExecOK, ExecTypes, Budgets
    <3>2. CASE scene.budget["reruns"] \in Int
      BY <3>1, <3>2
    <3> QED  BY <3>1, <3>2
  <2>2. job # None =>
          /\ exec.status = "running"
          /\ job.spec # None => Parses(job.spec)
          /\ IF job.pc = "record" THEN job.pending.stage \in Stages /\ job.pending.outcome \in Outcomes
                                  ELSE job.pending = None
    BY <1>1 DEF GapInv, JobOK, RunningJob, PendingOK, LifeInv, TableTypes
  <2>3. DOMAIN batch.facts \subseteq DOMAIN catalog /\ batch.folded \subseteq DOMAIN catalog  BY <1>1 DEF TableTypes
  <2>4. \A r \in DOMAIN ledger.rows \cup ledger.losses : r.stage \in Stages /\ r.outcome \in Outcomes
    BY <1>1 DEF GapInv, Told
  <2>5. \A b \in DOMAIN budget : budget[b] \in 0..scene.budget[b]  BY <1>1 DEF ExecTypes
  <2> QED  BY <1>1, <2>1, <2>2, <2>3, <2>4, <2>5 DEF ExecTypes, TypeOK
<1> QED  BY <1>1, InvTypes, PTL

-------------------------------------------------------------------------------
\* What every attempt under one spec finds again

\* What the contract of a spec passes of the landed rows, and says of the
\* others; the candidates that the transforms make of them.
ValidRows(s) == zero_failures(RawRows(s), s)
Judgment(s) == shape_pre_quarantine(violations(RawRows(s), s), s)
Candidates(s) == apply(typed_projection(ValidRows(s), s), s)

\* The co-effects as they are; what the checks dismiss of candidates and pass.
Kept(s) == [a \in DOMAIN s.co_effects |-> catalog[s.co_effects[a].table].rows]
DismissedOf(cands, s, co) ==
  UNION {shape_post_quarantine(business_violations(cands[t], s, t, co), s, t) : t \in DOMAIN s.fact_types}
PassingOf(cands, s, t, co) == {r \in Elems(cands[t]) : BusinessFailures(r, s, t, co) = {}}

\* Doors 1 and 2 of pre_check find what door 3 would say, and no drift.
LEMMA PreDoorsAgree ==
  ASSUME NEW raw, NEW s, s.columns \in Seq(Elems(s.columns))
  PROVE  LET q == shape_pre_quarantine(violations(raw, s), s)
         IN /\ locator_subtraction(raw, q) = zero_failures(raw, s)
            /\ q = {} => readable_rows(raw) = zero_failures(raw, s)
            /\ ~PreDrift(raw, q, s)
<1> DEFINE q == shape_pre_quarantine(violations(raw, s), s)
<1>1. Locators(q) = DOMAIN violations(raw, s)  BY ShapedLocators
<1>2. q = {} => Locators(q) = {}  BY DEF Locators
<1> HIDE DEF q
<1>3. /\ DOMAIN violations(raw, s) = {l \in DOMAIN raw : evaluate(raw[l], s) # {}}
      /\ {l \in DOMAIN raw : raw[l].malformed_text # None} \subseteq DOMAIN violations(raw, s)
  BY Verdicts DEF violations, Restrict, Unreadable
<1>4. {l \in DOMAIN raw : raw[l].malformed_text = None /\ l \notin Locators(q)} = {l \in DOMAIN raw : evaluate(raw[l], s) = {}}
  BY <1>1, <1>3
<1>5. locator_subtraction(raw, q) = zero_failures(raw, s)
  BY <1>4 DEF locator_subtraction, zero_failures
<1>6. ASSUME q = {} PROVE readable_rows(raw) = zero_failures(raw, s)
  <2>1. {l \in DOMAIN raw : raw[l].malformed_text = None} = {l \in DOMAIN raw : evaluate(raw[l], s) = {}}
    BY <1>1, <1>2, <1>3, <1>6
  <2> QED  BY <2>1 DEF readable_rows, zero_failures
<1>7. ASSUME NEW r \in Elems(locator_subtraction(raw, q)), NEW c \in Elems(s.columns), r.cells[c.name] # None
      PROVE  typed_expr(r.cells[c.name], c.type) # None
  <2>1. PICK l \in DOMAIN raw : r = raw[l] /\ evaluate(raw[l], s) = {}
    BY <1>5, <1>7 DEF zero_failures, Restrict, Elems
  <2>2. PICK i \in DOMAIN s.columns : c = s.columns[i]  BY <1>7 DEF Elems
  <2>3. CASE c.type.kind = "string"
    <3>1. ValueOf(r.cells[c.name], c.type.kind) = r.cells[c.name]
      BY <2>3 DEF ValueOf, Integral, Temporal
    <3> QED  BY <1>7, <2>3, <3>1 DEF typed_expr
  <2>4. CASE c.type.kind # "string"
    <3>1. CHECKS[3].id = "cast"  BY DEF CHECKS, ROW_CHECKS, COLUMN_CHECKS
    <3>2. Declares(s.columns[i], CHECKS[3].id)  BY <2>2, <2>4, <3>1 DEF Declares
    <3> DEFINE e == <<3, i>>
    <3>3. e \in (3..7) \X DOMAIN s.columns /\ e[1] = 3 /\ e[2] = i /\ i # 0  BY <2>2
    <3>4. e \in compile_contract(s)  BY <3>2, <3>3 DEF compile_contract
    <3>5. e \notin evaluate(r, s)  BY <2>1
    <3> HIDE DEF e
    <3>6. ~CellFails(CHECKS[3].id, r.cells[s.columns[i].name], s.columns[i])  BY <3>3, <3>4, <3>5, Zenon DEF evaluate
    <3> QED  BY <1>7, <2>2, <3>1, <3>6 DEF CellFails
  <2> QED  BY <2>3, <2>4
<1>8. ~PreDrift(raw, q, s)  BY <1>1, <1>7 DEF PreDrift
<1> QED  BY <1>5, <1>6, <1>8 DEF q

\* Each candidate is found once at least, as it is.
LEMMA Evaluates ==
  ASSUME NEW cands, NEW s, NEW t, NEW co
  PROVE  LET all == evaluated(cands, s, t, co)
         IN /\ \A q \in DOMAIN all : q[1] \in DOMAIN cands /\ all[q] = cands[q[1]]
            /\ \A l \in DOMAIN cands : \E q \in DOMAIN all : q[1] = l
<1> DEFINE marks(row, i) == join_membership_marker(row, s.checks[i], co[s.checks[i].co_effect])
           choices(row) == {m \in [Memberships(s, t) -> UNION {marks(row, i) : i \in Memberships(s, t)}] :
                              \A i \in Memberships(s, t) : m[i] \in marks(row, i)}
           all == evaluated(cands, s, t, co)
<1>1. all = [q \in UNION {{l} \X choices(cands[l]) : l \in DOMAIN cands} |-> cands[q[1]]]  BY DEF evaluated
<1>2. \A row : choices(row) # {}
  <2> TAKE row
  <2>1. \A i : marks(row, i) # {}  BY DEF join_membership_marker
  <2> DEFINE m == [i \in Memberships(s, t) |-> CHOOSE x \in marks(row, i) : TRUE]
  <2>2. \A i \in Memberships(s, t) : m[i] \in marks(row, i)  BY <2>1
  <2>3. m \in [Memberships(s, t) -> UNION {marks(row, i) : i \in Memberships(s, t)}]  BY <2>2
  <2> QED  BY <2>2, <2>3
<1> HIDE DEF marks, choices, all
<1>3. \A q \in DOMAIN all : q[1] \in DOMAIN cands /\ all[q] = cands[q[1]]  BY <1>1
<1>4. ASSUME NEW l \in DOMAIN cands PROVE \E q \in DOMAIN all : q[1] = l
  <2>1. PICK m \in choices(cands[l]) : TRUE  BY <1>2
  <2>2. <<l, m>> \in DOMAIN all  BY <1>1, <2>1
  <2> QED  BY <2>2
<1> QED  BY <1>3, <1>4 DEF all

\* A type's candidates are functions of their columns.
Framed(cands, s) ==
  /\ DOMAIN cands = DOMAIN s.fact_types
  /\ \A t \in DOMAIN cands : \A l \in DOMAIN cands[t] :
       /\ cands[t][l] = [n \in DOMAIN cands[t][l] |-> cands[t][l][n]]
       /\ DOMAIN cands[t][l] \subseteq Declared(s.fact_types[t].columns)

\* A row as business_violations writes it: the reason stands in every column
\* that has the name of one.
Overwritten(row, reason) == [n \in DOMAIN row |-> IF n \in ReasonColumns THEN reason ELSE row[n]]

\* What the checks pass of the candidates, and what they say of the others.
LEMMA Dismissals ==
  ASSUME NEW cands, NEW s, NEW t, NEW co
  PROVE  /\ Elems(admitted_candidates(cands, s, t, co)) = {r \in Elems(cands) : BusinessFailures(r, s, t, co) = {}}
         /\ \A r \in Elems(cands) : BusinessFailures(r, s, t, co) # {} =>
              \E v \in Elems(business_violations(cands, s, t, co)) :
                v.row = Overwritten(r, v.reason)
         /\ \A v \in Elems(business_violations(cands, s, t, co)) :
              \E r \in Elems(cands) :
                /\ BusinessFailures(r, s, t, co) # {}
                /\ v.row = Overwritten(r, v.reason)
<1> DEFINE all == evaluated(cands, s, t, co)
           fails(r) == BusinessFailures(r, s, t, co)
           reason(row) == EntryOfCheck(s, Min(BusinessFailures(row, s, t, co))).reason
           told(r) == [row |-> Overwritten(r, reason(r)),
                       reason |-> reason(r)]
           viol == business_violations(cands, s, t, co)
<1>1. /\ \A q \in DOMAIN all : q[1] \in DOMAIN cands /\ all[q] = cands[q[1]]
      /\ \A l \in DOMAIN cands : \E q \in DOMAIN all : q[1] = l
  BY Evaluates
<1>2. viol = [q \in {x \in DOMAIN all : fails(all[x]) # {}} |-> told(all[q])]  BY DEF business_violations, Overwritten
<1>3. Elems(all) = Elems(cands)
  <2> HIDE DEF all
  <2> QED  BY <1>1 DEF Elems
<1>4. admitted_candidates(cands, s, t, co) = [q \in {x \in DOMAIN all : fails(all[x]) = {}} |-> all[q]]
  BY DEF admitted_candidates, Restrict
<1>5. \A r : told(r).row = Overwritten(r, told(r).reason)
  OBVIOUS
<1> HIDE DEF all, viol, told, fails
<1>6. Elems(admitted_candidates(cands, s, t, co)) = {r \in Elems(cands) : fails(r) = {}}
  BY <1>3, <1>4 DEF Elems
<1>7. ASSUME NEW r \in Elems(cands), fails(r) # {} PROVE told(r) \in Elems(viol)
  BY <1>2, <1>3, <1>7 DEF Elems
<1>8. ASSUME NEW v \in Elems(viol) PROVE \E r \in Elems(cands) : fails(r) # {} /\ v = told(r)
  BY <1>2, <1>3, <1>8 DEF Elems
<1>9. \A r \in Elems(cands) : fails(r) # {} =>
        \E v \in Elems(viol) : v.row = Overwritten(r, v.reason)
  BY <1>5, <1>7
<1>10. \A v \in Elems(viol) : \E r \in Elems(cands) :
         fails(r) # {} /\ v.row = Overwritten(r, v.reason)
  BY <1>5, <1>8
<1> QED  BY <1>6, <1>9, <1>10 DEF fails, viol

\* The hashes of what is refused are those of the refused rows.
LEMMA RefusedHashes ==
  ASSUME NEW cands, NEW s, NEW co
  PROVE  {q.row_hash : q \in DismissedOf(cands, s, co)} =
           UNION {{candidate_row_hash(v.row, t) : v \in Elems(business_violations(cands[t], s, t, co))}
                    : t \in DOMAIN s.fact_types}
<1> DEFINE viol(t) == Elems(business_violations(cands[t], s, t, co))
           shaped(t) == shape_post_quarantine(business_violations(cands[t], s, t, co), s, t)
<1>1. \A t : {q.row_hash : q \in shaped(t)} = {candidate_row_hash(v.row, t) : v \in viol(t)}
  <2> TAKE t
  <2> DEFINE told(v) == [row_hash |-> candidate_row_hash(v.row, t), reason |-> v.reason,
                         domain_id |-> v.row[s.fact_types[t].domain_id_col],
                         record_key |-> IF \E n \in Elems(s.fact_types[t].record_key) : v.row[n] = None
                                        THEN None ELSE KeyOf(v.row, s.fact_types[t])]
  <2>1. shaped(t) = {told(v) : v \in viol(t)}  BY DEF shape_post_quarantine
  <2>2. \A v : told(v).row_hash = candidate_row_hash(v.row, t)  OBVIOUS
  <2> HIDE DEF told, shaped, viol
  <2> QED  BY <2>1, <2>2
<1>2. DismissedOf(cands, s, co) = UNION {shaped(t) : t \in DOMAIN s.fact_types}  BY DEF DismissedOf
<1> HIDE DEF shaped, viol
<1>3. {q.row_hash : q \in DismissedOf(cands, s, co)} = UNION {{q.row_hash : q \in shaped(t)} : t \in DOMAIN s.fact_types}
  BY <1>2
<1> DEFINE left(t) == {q.row_hash : q \in shaped(t)}
           right(t) == {candidate_row_hash(v.row, t) : v \in viol(t)}
<1>4. \A t : left(t) = right(t)  BY <1>1
<1> HIDE DEF left, right
<1>5. UNION {left(t) : t \in DOMAIN s.fact_types} = UNION {right(t) : t \in DOMAIN s.fact_types}
  BY <1>4
<1> QED  BY <1>3, <1>5 DEF viol, left, right

\* Doors 1 and 2 of post_check find what door 3 would say, and no drift, unless
\* a candidate is told in a column of its own.
LEMMA PostDoorsAgree ==
  ASSUME NEW cands, NEW s, NEW co, Framed(cands, s), NEW q, q = DismissedOf(cands, s, co)
  PROVE  /\ ~PostDrift(cands, q, s, co)
         /\ \A t \in DOMAIN s.fact_types :
              /\ Elems(admitted_candidates(cands[t], s, t, co)) = PassingOf(cands, s, t, co)
              /\ q = {} => Elems(cands[t]) = PassingOf(cands, s, t, co)
              /\ NoReasonColumn(s) => Elems(hash_subtraction(cands[t], t, q)) = PassingOf(cands, s, t, co)
<1> DEFINE viol(t) == Elems(business_violations(cands[t], s, t, co))
           gone == {x.row_hash : x \in q}
<1>1. gone = UNION {{candidate_row_hash(v.row, t) : v \in viol(t)} : t \in DOMAIN s.fact_types}
  BY RefusedHashes
<1>2. ~PostDrift(cands, q, s, co)  BY <1>1 DEF PostDrift, Framed
<1>3. ASSUME NEW t \in DOMAIN s.fact_types
      PROVE  /\ Elems(admitted_candidates(cands[t], s, t, co)) = PassingOf(cands, s, t, co)
             /\ q = {} => Elems(cands[t]) = PassingOf(cands, s, t, co)
             /\ NoReasonColumn(s) => Elems(hash_subtraction(cands[t], t, q)) = PassingOf(cands, s, t, co)
  <2> DEFINE fails(r) == BusinessFailures(r, s, t, co)
  <2>1. /\ Elems(admitted_candidates(cands[t], s, t, co)) = {r \in Elems(cands[t]) : fails(r) = {}}
        /\ \A r \in Elems(cands[t]) : fails(r) # {} =>
             \E v \in viol(t) : v.row = Overwritten(r, v.reason)
    BY Dismissals
  <2>2. PassingOf(cands, s, t, co) = {r \in Elems(cands[t]) : fails(r) = {}}  BY DEF PassingOf
  <2>3. ASSUME q = {}, NEW r \in Elems(cands[t]) PROVE fails(r) = {}
    <3>1. gone = {}  BY <2>3
    <3>2. \A v \in viol(t) : candidate_row_hash(v.row, t) \in gone  BY <1>1
    <3> QED  BY <2>1, <2>3, <3>1, <3>2
  <2>4. ASSUME NoReasonColumn(s), NEW r \in Elems(cands[t])
        PROVE  candidate_row_hash(r, t) \notin gone <=> fails(r) = {}
    <3>1. \A x \in Elems(cands[t]) : \A d : Overwritten(x, d) = x
      <4>1. SUFFICES ASSUME NEW x \in Elems(cands[t]), NEW d
                     PROVE  Overwritten(x, d) = x
        OBVIOUS
      <4>2. x = [n \in DOMAIN x |-> x[n]] /\ DOMAIN x \subseteq Declared(s.fact_types[t].columns)
        BY DEF Framed, Elems
      <4>3. \A n \in DOMAIN x : n \notin ReasonColumns  BY <2>4, <4>2 DEF NoReasonColumn
      <4>4. [n \in DOMAIN x |-> IF n \in ReasonColumns THEN d ELSE x[n]] = [n \in DOMAIN x |-> x[n]]  BY <4>3
      <4> QED  BY <4>2, <4>4 DEF Overwritten
    <3>2. ASSUME fails(r) # {} PROVE candidate_row_hash(r, t) \in gone
      <4>1. PICK v \in viol(t) : v.row = Overwritten(r, v.reason)
        BY <2>1, <3>2
      <4>2. v.row = r  BY <3>1, <4>1
      <4> QED  BY <1>1, <4>2
    <3>3. ASSUME candidate_row_hash(r, t) \in gone PROVE fails(r) # {}
      <4>1. PICK u \in DOMAIN s.fact_types : \E v \in viol(u) : candidate_row_hash(r, t) = candidate_row_hash(v.row, u)
        BY <1>1, <3>3
      <4>2. PICK v \in viol(t) : v.row = r  BY <4>1 DEF candidate_row_hash
      <4>3. PICK x \in Elems(cands[t]) :
              /\ BusinessFailures(x, s, t, co) # {}
              /\ v.row = Overwritten(x, v.reason)
        BY <4>2, Dismissals
      <4>4. v.row = x  BY <3>1, <4>3
      <4> QED  BY <4>2, <4>3, <4>4
    <3> QED  BY <3>2, <3>3
  <2>5. hash_subtraction(cands[t], t, q) =
          [l \in {k \in DOMAIN cands[t] : candidate_row_hash(cands[t][k], t) \notin gone} |-> cands[t][l]]
    BY DEF hash_subtraction, Restrict
  <2> HIDE DEF fails, gone
  <2>6. Elems(hash_subtraction(cands[t], t, q)) = {r \in Elems(cands[t]) : candidate_row_hash(r, t) \notin gone}
    BY <2>5 DEF Elems
  <2> QED  BY <2>1, <2>2, <2>3, <2>4, <2>6
<1> QED  BY <1>2, <1>3

\* The modelled transforms return functions of declared columns.
LEMMA CandidatesFramed ==
  ASSUME NEW valid, NEW s, s.module.returns = DOMAIN s.fact_types
  PROVE  Framed(apply(valid, s), s)
  BY DEF Framed, apply

\* What the checks say of the batch as it is.
Dismissed(s) == DismissedOf(Candidates(s), s, Kept(s))
Passing(s, t) == PassingOf(Candidates(s), s, t, Kept(s))

\* Something of the batch was written after the transforms.
Written == batch.postq # {} \/ DOMAIN batch.facts # {}

\* What an earlier attempt has written of the batch is what spec s says of the
\* rows and the co-effects as they are.
SteadyBatch(s) ==
  /\ batch.preq # {} \/ Written => batch.preq = Judgment(s)
  /\ Written => /\ Exists(CoEffectTables(s)) /\ s.module.returns = DOMAIN s.fact_types
                /\ batch.postq = Dismissed(s)

\* So are the frames of the job, whichever doors it took.
SteadyJob(s) ==
  /\ Past("pre_check") => batch.preq = Judgment(s) /\ job.valid = typed_projection(ValidRows(s), s)
  /\ Past("pull") => Exists(CoEffectTables(s)) /\ job.co = Kept(s)
  /\ Past("apply") => s.module.returns = DOMAIN s.fact_types /\ job.cands = Candidates(s)
  /\ Past("post_check") =>
       /\ batch.postq = Dismissed(s)
       /\ NoReasonColumn(s) => \A t \in DOMAIN s.fact_types : Elems(job.admitted[t]) = Passing(s, t)

\* As long as the batch runs under one spec and no co-effect changes.
Steady ==
  /\ batch.by = {} => batch.preq = {} /\ ~Written
  /\ ~Changed => \A s \in RunSpecs : SteadyBatch(s) /\ (job # None /\ job.pc \notin Starting => SteadyJob(s))

\* What is said of the rows depends on the rows and the co-effects only.
LEMMA SameRows ==
  ASSUME NEW s, batch'.raw = batch.raw
  PROVE  ValidRows(s)' = ValidRows(s) /\ Judgment(s)' = Judgment(s) /\ Candidates(s)' = Candidates(s)
<1>1. RawRows(s)' = RawRows(s)  BY DEF RawRows
<1> QED  BY <1>1 DEF ValidRows, Judgment, Candidates

LEMMA SameWords ==
  ASSUME NEW s, batch'.raw = batch.raw, Kept(s)' = Kept(s)
  PROVE  Dismissed(s)' = Dismissed(s) /\ \A t : Passing(s, t)' = Passing(s, t)
  BY SameRows DEF Dismissed, Passing

KeptOn(s) == Exists(CoEffectTables(s)) => Exists(CoEffectTables(s))' /\ Kept(s)' = Kept(s)

LEMMA BatchKeepsSteady ==
  ASSUME NEW s, SteadyBatch(s), KeptOn(s), batch'.raw = batch.raw, batch'.preq = batch.preq,
         batch'.postq = batch.postq, batch'.facts = batch.facts
  PROVE  SteadyBatch(s)'
<1>1. Written' = Written /\ Judgment(s)' = Judgment(s)  BY SameRows DEF Written
<1>2. ASSUME Written PROVE Exists(CoEffectTables(s))' /\ Dismissed(s)' = batch.postq
  BY <1>2, SameWords DEF SteadyBatch, KeptOn
<1> QED  BY <1>1, <1>2 DEF SteadyBatch

LEMMA JobKeepsSteady ==
  ASSUME NEW s, SteadyJob(s), KeptOn(s), batch'.raw = batch.raw, batch'.preq = batch.preq, batch'.postq = batch.postq,
         job'.valid = job.valid, job'.co = job.co, job'.cands = job.cands, job'.admitted = job.admitted,
         \A stage \in {"pre_check", "pull", "apply", "post_check"} : Past(stage)' <=> Past(stage),
         Past("post_check") => Past("pull")
  PROVE  SteadyJob(s)'
<1>1. ValidRows(s)' = ValidRows(s) /\ Judgment(s)' = Judgment(s) /\ Candidates(s)' = Candidates(s)  BY SameRows
<1>2. ASSUME Past("pull") PROVE Exists(CoEffectTables(s))' /\ Kept(s)' = Kept(s)
  BY <1>2 DEF SteadyJob, KeptOn
<1>3. ASSUME Past("post_check") PROVE Dismissed(s)' = Dismissed(s) /\ \A t : Passing(s, t)' = Passing(s, t)
  BY <1>2, <1>3, SameWords
<1> QED  BY <1>1, <1>2, <1>3 DEF SteadyJob

\* Only a refresh of a co-effect changes the rows of a table.
LEMMA RowsStay ==
  ASSUME CatalogInv, [Next]_allVars
  PROVE  Refresh \/ \A t \in DOMAIN catalog : t \in DOMAIN catalog' /\ catalog'[t].rows = catalog[t].rows
<1> DEFINE stay == \A t \in DOMAIN catalog : t \in DOMAIN catalog' /\ catalog'[t].rows = catalog[t].rows
           step == Head(script.todo)
           table == bootstrap_table(step)
<1>1. catalog' = catalog => stay  OBVIOUS
<1>2. ASSUME ProvisionTable, catalog' # catalog PROVE stay
  <2>1. table # None /\ catalog' = Put(catalog, step.table, table)  BY <1>2 DEF ProvisionTable
  <2>2. step.table \in DOMAIN catalog => table.rows = catalog[step.table].rows
    <3>1. ASSUME step.table \in DOMAIN catalog PROVE table.rows = catalog[step.table].rows
      <4>1. table = [catalog[step.table] EXCEPT !.class = step.class, !.columns = step.columns]
        BY <2>1, <3>1 DEF bootstrap_table
      <4>2. DOMAIN catalog[step.table] = TableFields  BY <3>1 DEF CatalogInv
      <4> QED  BY <4>1, <4>2 DEF TableFields
    <3> QED  BY <3>1
  <2> HIDE DEF table, step
  <2>3. /\ DOMAIN catalog' = DOMAIN catalog \cup {step.table}
        /\ \A t \in DOMAIN catalog' : catalog'[t] = IF t = step.table THEN table ELSE catalog[t]
    BY <2>1 DEF Put
  <2> QED  BY <2>2, <2>3
<1>3. Refresh \/ ProvisionTable \/ catalog' = catalog
  BY WorldSteps DEF Provision, StartAdmissionTables, StartRecordTables, EndScript, AbortScript
<1> QED  BY <1>1, <1>2, <1>3

LEMMA CoEffectsStay ==
  ASSUME NEW s, \A t \in DOMAIN catalog : t \in DOMAIN catalog' /\ catalog'[t].rows = catalog[t].rows
  PROVE  KeptOn(s)
<1>1. ASSUME Exists(CoEffectTables(s)) PROVE Exists(CoEffectTables(s))' /\ Kept(s)' = Kept(s)
  <2>1. \A a \in DOMAIN s.co_effects : s.co_effects[a].table \in DOMAIN catalog
    BY <1>1 DEF Exists, CoEffectTables
  <2>2. Kept(s)' = Kept(s)  BY <2>1 DEF Kept
  <2> QED  BY <1>1, <2>2 DEF Exists
<1> QED  BY <1>1 DEF KeptOn

\* A batch that has not changed had not changed before.
LEMMA ChangedStays ==
  ASSUME JobOK, ExecOK, BoundInv, ExecTypes, [Next]_allVars, ~Changed'
  PROVE  ~Changed /\ ~Refresh
<1>1. scene' = scene /\ scene.budget \in [Budgets -> Nat] /\ "refreshes" \in Budgets
  BY Spending, SceneAssumption DEF BoundInv, Budgets
<1>2. batch.by \subseteq batch'.by
  <2>1. CASE Staging
    <3>1. DOMAIN batch = BatchFields  BY DEF BoundInv
    <3>2. batch'.by = batch.by \/ batch' = [batch EXCEPT !.by = @ \cup {job.version}]
      BY <2>1, <3>1, StagingBinds
    <3> QED  BY <3>1, <3>2 DEF BatchFields
  <2>2. CASE batch' = batch  BY <2>2
  <2>3. RecordRun => batch' = batch  BY DEF RecordRun
  <2> QED  BY <2>1, <2>2, <2>3, StepKinds, ExecSteps
<1>3. budget'["refreshes"] <= budget["refreshes"] /\ (Refresh => budget'["refreshes"] < scene.budget["refreshes"])
  <2>1. budget["refreshes"] \in 0..scene.budget["refreshes"] /\ scene.budget["refreshes"] \in Nat
    BY <1>1 DEF ExecTypes
  <2>2. \A b \in Budgets : Spend(b) => budget'["refreshes"] = IF b = "refreshes" THEN budget["refreshes"] - 1 ELSE budget["refreshes"]
    BY <1>1, BudgetKept
  <2>3. Refresh => Spend("refreshes")  BY DEF Refresh
  <2>4. Rerun => Spend("reruns")  BY DEF Rerun
  <2>5. "reruns" \in Budgets /\ "reruns" # "refreshes"  BY DEF Budgets
  <2>6. budget'["refreshes"] \in {budget["refreshes"], budget["refreshes"] - 1}
    BY <1>1, <2>2, <2>4, <2>5, Spending
  <2> QED  BY <1>1, <2>1, <2>2, <2>3, <2>6
<1>4. budget["refreshes"] \in Int /\ budget'["refreshes"] \in Int /\ scene.budget["refreshes"] \in Int
  <2>1. ExecTypes'  BY ExecTypesNext
  <2> QED  BY <1>1, <2>1 DEF ExecTypes
<1> QED  BY <1>1, <1>2, <1>3, <1>4 DEF Changed, OneSpec

\* Under one spec it is that of the job.
LEMMA SameSpec ==
  ASSUME BoundInv, ~Changed, job # None, job.pc \notin Starting
  PROVE  RunSpecs = {job.spec}
<1>1. job.version \in batch.by /\ job.spec = scene.specs[job.version]  BY DEF BoundInv, Starting
<1> QED  BY <1>1 DEF Changed, OneSpec, RunSpecs

\* A job that is past the judgment of the candidates is past what it judged.
LEMMA PastOrder == ASSUME JobOK, job # None, Past("post_check") PROVE Past("pre_check") /\ Past("pull") /\ Past("apply")
<1>1. Due(job) \in Nat /\ Due(job) >= 5
  <2>1. Past("post_check") => Due(job) > 5 \/ (job.pc = "record" /\ job.pending.stage = "post_check")
    BY Places DEF Past
  <2>2. job.pc = "record" => Due(job) = Place(job.pending.stage)  BY DEF Due
  <2>3. 5 \in Nat /\ Due(job) \in Nat
    <3>1. /\ job.pc \in Starting \cup Working \cup {"record"}
          /\ job.pc = "record" => job.pending.stage \in Stages
      BY DEF JobOK, RunningJob, PendingOK
    <3>2. StageOf(job.pc) \in Stages \/ job.pc \in Starting \/ job.pc = "record"
      BY <3>1, Places DEF Working, StageOf
    <3>3. \A x \in Stages : Place(x) \in Nat  BY Places
    <3>4. CASE job.pc = "record"  BY <3>1, <3>3, <3>4 DEF Due
    <3>5. CASE job.pc # "record" /\ job.pc \in Starting  BY <3>5 DEF Due
    <3>6. CASE job.pc # "record" /\ job.pc \notin Starting  BY <3>2, <3>3, <3>6 DEF Due
    <3> QED  BY <3>4, <3>5, <3>6
  <2>4. Due(job) > 5 \/ Due(job) = 5  BY <2>1, <2>2, Places
  <2> HIDE DEF Due
  <2> QED  BY <2>3, <2>4
<1> QED  BY <1>1, Places DEF Past

\* Of no rows there is nothing to say.
LEMMA NoRowsNoWords ==
  ASSUME NEW s, s.module.returns = DOMAIN s.fact_types, DOMAIN batch.raw = {}
  PROVE  Dismissed(s) = {}
<1>1. DOMAIN ValidRows(s) = {}  BY DEF ValidRows, zero_failures, Restrict, RawRows
<1>2. DOMAIN typed_projection(ValidRows(s), s) = {}  BY <1>1 DEF typed_projection
<1>3. \A t \in DOMAIN s.fact_types : DOMAIN Candidates(s)[t] = {}  BY <1>2 DEF Candidates, apply
<1> DEFINE viol(t) == business_violations(Candidates(s)[t], s, t, Kept(s))
<1>4. \A t \in DOMAIN s.fact_types : Elems(viol(t)) = {}
  <2> TAKE t \in DOMAIN s.fact_types
  <2>1. \A r : r \notin Elems(Candidates(s)[t])  BY <1>3 DEF Elems
  <2> QED  BY <2>1, Dismissals
<1> HIDE DEF viol
<1>5. \A t \in DOMAIN s.fact_types : shape_post_quarantine(viol(t), s, t) = {}  BY <1>4 DEF shape_post_quarantine
<1> QED  BY <1>5 DEF Dismissed, DismissedOf, viol

\* A step of a job keeps what is said of the batch and the job under its spec.
Stays(s) == SteadyBatch(s)' /\ (job' # None => SteadyJob(s)')

LEMMA SteadyLand ==
  ASSUME NEW s, job.spec = s, SteadyBatch(s), SteadyJob(s), JobOK, BoundInv, AdmitInv, Land
  PROVE  Stays(s)
<1>1. /\ job # None /\ job.pc = "land" /\ DOMAIN batch = BatchFields /\ Staging
      /\ StageOf(job.pc) = "land" /\ job.pc \in Working
  BY DEF Land, At, JobOK, RunningJob, BoundInv, Staging, StageOf, Working
<1>2. KeptOn(s)
  <2>1. catalog' = catalog  BY <1>1, StagingCatalog
  <2> QED  BY <2>1, CoEffectsStay
<1>3. \/ batch' = batch
      \/ ~Landed /\ batch' = [batch EXCEPT !.raw = read_objects(Objects, s)]
  BY LandEffect
<1>4. ASSUME batch' = batch PROVE SteadyBatch(s)'  BY <1>2, <1>4, BatchKeepsSteady
<1>5. ASSUME ~Landed, batch' = [batch EXCEPT !.raw = read_objects(Objects, s)] PROVE SteadyBatch(s)'
  <2>1. /\ batch'.preq = batch.preq /\ batch'.postq = batch.postq /\ batch'.facts = batch.facts
    BY <1>1, <1>5 DEF BatchFields
  <2>2. DOMAIN batch.raw = {}  BY <1>5 DEF Landed
  <2>3. batch.preq = {}
    <3>1. Locators(batch.preq) = {}  BY <2>2 DEF AdmitInv, BatchAdmitted
    <3> QED  BY <3>1 DEF Locators
  <2>4. DOMAIN batch.facts = {}  BY <1>5 DEF AdmitInv, BatchAdmitted
  <2>5. ~Written  BY <2>2, <2>4, NoRowsNoWords DEF SteadyBatch, Written
  <2> QED  BY <2>1, <2>3, <2>5 DEF SteadyBatch, Written
<1>6. ASSUME job' # None PROVE SteadyJob(s)'
  <2>1. ASSUME NEW stage \in {"pre_check", "pull", "apply", "post_check"} PROVE ~Past(stage)'
    <3>1. stage \in Stages /\ Place(stage) > Place(StageOf(job.pc))  BY <1>1, Places
    <3> QED  BY <1>1, <1>6, <3>1, InStage
  <2> QED  BY <2>1 DEF SteadyJob
<1> QED  BY <1>3, <1>4, <1>5, <1>6 DEF Stays

LEMMA SteadyPreCheck ==
  ASSUME NEW s, job.spec = s, s.columns \in Seq(Elems(s.columns)),
         SteadyBatch(s), SteadyJob(s), JobOK, BoundInv, AdmitInv, PreCheck
  PROVE  Stays(s)
<1>1. /\ job # None /\ job.pc = "pre_check" /\ DOMAIN job = JobFields /\ DOMAIN batch = BatchFields /\ Staging
      /\ StageOf(job.pc) = "pre_check" /\ job.pc \in Working
  BY DEF PreCheck, At, JobOK, RunningJob, BoundInv, Staging, StageOf, Working
<1>2. KeptOn(s)
  <2>1. catalog' = catalog  BY <1>1, StagingCatalog
  <2> QED  BY <2>1, CoEffectsStay
<1> DEFINE raw == RawRows(s)
           judged == [batch EXCEPT !.preq = Judgment(s), !.judge = job.version]
           door(valid) == \E skip, d : DoorAs("pre_check", skip, d, PreChecked(valid, s), job')
<1>3. \/ (\E c : FailedAs("pre_check", c, job, job')) /\ (batch' = batch \/ batch' = judged)
      \/ batch.preq # {} /\ batch' = batch /\ door(locator_subtraction(raw, batch.preq))
      \/ batch.preq = {} /\ AnyFactPresent(s) /\ batch' = batch /\ door(readable_rows(raw))
      \/ batch' = judged /\ door(zero_failures(raw, s))
  BY PreCheckEffect DEF Judgment
<1>4. /\ locator_subtraction(raw, Judgment(s)) = ValidRows(s)
      /\ Judgment(s) = {} => readable_rows(raw) = ValidRows(s)
  BY PreDoorsAgree DEF Judgment, ValidRows
<1>5. AnyFactPresent(s) => Written  BY DEF AnyFactPresent, Written
<1>6. \/ (\E c : FailedAs("pre_check", c, job, job')) /\ (batch' = batch \/ batch' = judged)
      \/ batch.preq = Judgment(s) /\ batch' = batch /\ door(ValidRows(s))
      \/ batch' = judged /\ door(ValidRows(s))
  <2> HIDE DEF door, judged
  <2> QED  BY <1>3, <1>4, <1>5 DEF SteadyBatch, ValidRows
<1>7. /\ batch'.raw = batch.raw /\ batch'.postq = batch.postq /\ batch'.facts = batch.facts
      /\ batch'.preq \in {batch.preq, Judgment(s)}
  BY <1>1, <1>6 DEF BatchFields
<1>8. ValidRows(s)' = ValidRows(s) /\ Judgment(s)' = Judgment(s)  BY <1>7, SameRows
<1>9. SteadyBatch(s)'
  <2>1. CASE batch'.preq = batch.preq  BY <1>2, <1>7, <2>1, BatchKeepsSteady
  <2>2. CASE batch'.preq = Judgment(s)
    <3>1. Written' = Written  BY <1>7 DEF Written
    <3>2. Written => Exists(CoEffectTables(s))' /\ Dismissed(s)' = Dismissed(s)
      BY <1>2, <1>7, SameWords DEF KeptOn, SteadyBatch
    <3> QED  BY <1>7, <1>8, <2>2, <3>1, <3>2 DEF SteadyBatch
  <2> QED  BY <1>7, <2>1, <2>2
<1>10. ASSUME job' # None PROVE SteadyJob(s)'
  <2>1. ASSUME NEW stage \in {"pull", "apply", "post_check"} PROVE ~Past(stage)'
    <3>1. stage \in Stages /\ Place(stage) > Place(StageOf(job.pc))  BY <1>1, Places
    <3> QED  BY <1>1, <1>10, <3>1, InStage
  <2>2. ASSUME Past("pre_check")' PROVE batch'.preq = Judgment(s) /\ job'.valid = typed_projection(ValidRows(s), s)
    <3>1. ~\E c : FailedAs("pre_check", c, job, job')
      <4>1. ASSUME NEW c, FailedAs("pre_check", c, job, job') PROVE FALSE
        <5>1. job'.pc = "record" /\ job'.pending.stage = "pre_check" /\ job'.pending.outcome = "failed"
          BY <4>1 DEF FailedAs
        <5> QED  BY <1>10, <2>2, <5>1, Places, PassedByEnd
      <4> QED  BY <4>1
    <3>2. batch'.preq = Judgment(s) /\ door(ValidRows(s))
      <4> HIDE DEF door
      <4> QED  BY <1>1, <1>6, <3>1 DEF BatchFields
    <3>3. LET j == PreChecked(ValidRows(s), s) IN DOMAIN j = JobFields /\ j.valid = typed_projection(ValidRows(s), s)
      BY <1>1 DEF PreChecked, JobFields
    <3> QED  BY <3>2, <3>3 DEF DoorAs, But, JobFields
  <2> QED  BY <1>8, <2>1, <2>2 DEF SteadyJob
<1> QED  BY <1>9, <1>10 DEF Stays

\* A stage that fails is not passed, and a later one is not either.
LEMMA FailedNotPast ==
  ASSUME NEW stage \in Stages, NEW c, FailedAs(stage, c, job, job'), job' # None
  PROVE  ~Past(stage)'
<1>1. job'.pc = "record" /\ job'.pending.stage = stage /\ job'.pending.outcome = "failed"  BY DEF FailedAs
<1> QED  BY <1>1, PassedByEnd

LEMMA SteadyPull ==
  ASSUME NEW s, job.spec = s, SteadyBatch(s), SteadyJob(s), JobOK, BoundInv, AdmitInv, Pull
  PROVE  Stays(s)
<1>1. /\ job # None /\ job.pc = "pull" /\ DOMAIN job = JobFields /\ DOMAIN batch = BatchFields /\ Staging
      /\ StageOf(job.pc) = "pull" /\ job.pc \in Working /\ batch' = batch
  BY DEF Pull, At, JobOK, RunningJob, BoundInv, Staging, StageOf, Working
<1>2. catalog' = catalog  BY <1>1, StagingCatalog
<1>3. KeptOn(s)  BY <1>2, CoEffectsStay
<1>4. \/ \E c : FailedAs("pull", c, job, job')
      \/ Exists(CoEffectTables(s)) /\ EndedAs("pull", [job EXCEPT !.co = Kept(s)], job')
  BY <1>1, MidEffect DEF Kept
<1>5. SteadyBatch(s)'  BY <1>1, <1>3, BatchKeepsSteady
<1>6. ASSUME job' # None PROVE SteadyJob(s)'
  <2>1. ASSUME NEW stage \in {"apply", "post_check"} PROVE ~Past(stage)'
    <3>1. stage \in Stages /\ Place(stage) > Place(StageOf(job.pc))  BY <1>1, <2>1, Places
    <3> QED  BY <1>1, <1>6, <3>1, InStage
  <2>2. Past("pre_check")
    <3>1. "pre_check" \in Stages /\ Place("pre_check") < Place(StageOf(job.pc))  BY <1>1, Places
    <3> QED  BY <1>1, <3>1, InStage
  <2>3. ~PreCheck  BY <1>1 DEF PreCheck, At
  <2>4. job'.valid = job.valid  BY <1>1, <1>6, <2>3, StagingWrites DEF JobWrites
  <2>5. ASSUME Past("pull")' PROVE Exists(CoEffectTables(s))' /\ job'.co = Kept(s)'
    <3>1. ~\E c : FailedAs("pull", c, job, job')  BY <1>6, <2>5, Places, FailedNotPast
    <3>2. LET j == [job EXCEPT !.co = Kept(s)] IN DOMAIN j = JobFields /\ j.co = Kept(s)
      BY <1>1 DEF JobFields
    <3>3. Exists(CoEffectTables(s)) /\ job'.co = Kept(s)
      BY <1>4, <3>1, <3>2 DEF EndedAs, But, JobFields
    <3> QED  BY <1>3, <3>3 DEF KeptOn
  <2>6. ValidRows(s)' = ValidRows(s) /\ Judgment(s)' = Judgment(s)  BY <1>1, SameRows
  <2> QED  BY <1>1, <2>1, <2>2, <2>4, <2>5, <2>6 DEF SteadyJob
<1> QED  BY <1>5, <1>6 DEF Stays

LEMMA SteadyApply ==
  ASSUME NEW s, job.spec = s, SteadyBatch(s), SteadyJob(s), JobOK, BoundInv, AdmitInv, Apply
  PROVE  Stays(s)
<1>1. /\ job # None /\ job.pc = "apply" /\ DOMAIN job = JobFields /\ DOMAIN batch = BatchFields /\ Staging
      /\ StageOf(job.pc) = "apply" /\ job.pc \in Working /\ batch' = batch
  BY DEF Apply, At, JobOK, RunningJob, BoundInv, Staging, StageOf, Working
<1>2. catalog' = catalog  BY <1>1, StagingCatalog
<1>3. KeptOn(s)  BY <1>2, CoEffectsStay
<1>4. \/ \E c : FailedAs("apply", c, job, job')
      \/ assert_return_shape(s) /\ EndedAs("apply", [job EXCEPT !.cands = apply(job.valid, s)], job')
  BY <1>1, MidEffect
<1>5. SteadyBatch(s)'  BY <1>1, <1>3, BatchKeepsSteady
<1>6. ASSUME job' # None PROVE SteadyJob(s)'
  <2>1. ~Past("post_check")'
    <3>1. "post_check" \in Stages /\ Place("post_check") > Place(StageOf(job.pc))  BY <1>1, Places
    <3> QED  BY <1>1, <1>6, <3>1, InStage
  <2>2. Past("pre_check") /\ Past("pull")
    <3>1. \A stage \in {"pre_check", "pull"} : stage \in Stages /\ Place(stage) < Place(StageOf(job.pc))  BY <1>1, Places
    <3> QED  BY <1>1, <3>1, InStage
  <2>3. ~PreCheck /\ ~Pull  BY <1>1 DEF PreCheck, Pull, At
  <2>4. job'.valid = job.valid /\ job'.co = job.co  BY <1>1, <1>6, <2>3, StagingWrites DEF JobWrites
  <2>5. job.valid = typed_projection(ValidRows(s), s)  BY <2>2 DEF SteadyJob
  <2>6. ASSUME Past("apply")' PROVE s.module.returns = DOMAIN s.fact_types /\ job'.cands = Candidates(s)
    <3>1. ~\E c : FailedAs("apply", c, job, job')  BY <1>6, <2>6, Places, FailedNotPast
    <3>2. LET j == [job EXCEPT !.cands = apply(job.valid, s)] IN DOMAIN j = JobFields /\ j.cands = apply(job.valid, s)
      BY <1>1 DEF JobFields
    <3>3. s.module.returns = DOMAIN s.fact_types /\ job'.cands = apply(job.valid, s)
      BY <1>4, <3>1, <3>2 DEF EndedAs, But, JobFields, assert_return_shape
    <3> QED  BY <2>5, <3>3 DEF Candidates
  <2>7. ValidRows(s)' = ValidRows(s) /\ Judgment(s)' = Judgment(s) /\ Candidates(s)' = Candidates(s)  BY <1>1, SameRows
  <2>8. Exists(CoEffectTables(s))' /\ job.co = Kept(s)'  BY <1>3, <2>2 DEF KeptOn, SteadyJob
  <2> QED  BY <1>1, <2>1, <2>2, <2>4, <2>5, <2>6, <2>7, <2>8 DEF SteadyJob
<1> QED  BY <1>5, <1>6 DEF Stays

\* What a job finds that is about to judge the candidates.
LEMMA AtPostCheck ==
  ASSUME NEW s, job.spec = s, SteadyJob(s), JobOK, BoundInv, PostCheck
  PROVE  /\ job # None /\ job.pc = "post_check" /\ DOMAIN job = JobFields /\ DOMAIN batch = BatchFields /\ Staging
         /\ StageOf(job.pc) = "post_check" /\ job.pc \in Working /\ KeptOn(s)
         /\ Past("pre_check") /\ Past("pull") /\ Past("apply")
         /\ batch.preq = Judgment(s) /\ Exists(CoEffectTables(s)) /\ s.module.returns = DOMAIN s.fact_types
         /\ job.cands = Candidates(s) /\ job.co = Kept(s) /\ Framed(Candidates(s), s)
<1>1. /\ job # None /\ job.pc = "post_check" /\ DOMAIN job = JobFields /\ DOMAIN batch = BatchFields /\ Staging
      /\ StageOf(job.pc) = "post_check" /\ job.pc \in Working
  BY DEF PostCheck, At, JobOK, RunningJob, BoundInv, Staging, StageOf, Working
<1>2. Past("pre_check") /\ Past("pull") /\ Past("apply")
  <2>1. \A stage \in {"pre_check", "pull", "apply"} : stage \in Stages /\ Place(stage) < Place(StageOf(job.pc))
    BY <1>1, Places
  <2> QED  BY <1>1, <2>1, InStage
<1>3. catalog' = catalog  BY <1>1, StagingCatalog
<1>4. KeptOn(s)  BY <1>3, CoEffectsStay
<1>5. s.module.returns = DOMAIN s.fact_types  BY <1>2 DEF SteadyJob
<1>6. Framed(Candidates(s), s)  BY <1>5, CandidatesFramed DEF Candidates
<1> QED  BY <1>1, <1>2, <1>4, <1>5, <1>6 DEF SteadyJob

LEMMA SteadyPostCheck ==
  ASSUME NEW s, job.spec = s, SteadyBatch(s), SteadyJob(s), JobOK, BoundInv, PostCheck
  PROVE  Stays(s)
<1>1. /\ job # None /\ job.pc = "post_check" /\ DOMAIN job = JobFields /\ DOMAIN batch = BatchFields /\ Staging
      /\ StageOf(job.pc) = "post_check" /\ job.pc \in Working /\ KeptOn(s)
      /\ Past("pre_check") /\ Past("pull") /\ Past("apply")
      /\ batch.preq = Judgment(s) /\ Exists(CoEffectTables(s)) /\ s.module.returns = DOMAIN s.fact_types
      /\ job.cands = Candidates(s) /\ job.co = Kept(s) /\ Framed(Candidates(s), s)
  BY AtPostCheck
<1> DEFINE types == DOMAIN s.fact_types
           judged == [batch EXCEPT !.postq = Dismissed(s)]
           door(admitted) == \E skip, d : DoorAs("post_check", skip, d, [job EXCEPT !.admitted = admitted], job')
           restOf(x, c) == [t \in DOMAIN x.fact_types |-> hash_subtraction(c[t], t, batch.postq)]
           wholeOf(x, c) == [t \in DOMAIN x.fact_types |-> c[t]]
           goodOf(x, c, co) == [t \in DOMAIN x.fact_types |-> admitted_candidates(c[t], x, t, co)]
           rest == restOf(s, Candidates(s))
           whole == wholeOf(s, Candidates(s))
           good == goodOf(s, Candidates(s), Kept(s))
<1>2. \/ (\E c : FailedAs("post_check", c, job, job')) /\ batch' = batch
      \/ batch.postq # {} /\ batch' = batch /\ door(rest)
      \/ batch.postq = {} /\ AnyFactPresent(s) /\ batch' = batch /\ door(whole)
      \/ batch' = judged /\ door(good)
  <2>1. \/ (\E c : FailedAs("post_check", c, job, job')) /\ batch' = batch
        \/ batch.postq # {} /\ batch' = batch /\ door(restOf(job.spec, job.cands))
        \/ batch.postq = {} /\ AnyFactPresent(job.spec) /\ batch' = batch /\ door(wholeOf(job.spec, job.cands))
        \/ /\ batch' = [batch EXCEPT !.postq = DismissedOf(job.cands, job.spec, job.co)]
           /\ door(goodOf(job.spec, job.cands, job.co))
    BY PostCheckEffect DEF DismissedOf
  <2> HIDE DEF door, restOf, wholeOf, goodOf
  <2> QED  BY <1>1, <2>1 DEF Dismissed
<1>3. AnyFactPresent(s) => Written  BY DEF AnyFactPresent, Written
<1> DEFINE fine(a) == NoReasonColumn(s) => \A t \in types : Elems(a[t]) = Passing(s, t)
<1>4. /\ fine(good)
      /\ batch.postq = Dismissed(s) => fine(rest)
      /\ Dismissed(s) = {} => fine(whole)
  <2> DEFINE cands == Candidates(s)  co == Kept(s)  q == Dismissed(s)
  <2>0. Framed(cands, s) /\ q = DismissedOf(cands, s, co)  BY <1>1 DEF Dismissed
  <2> HIDE DEF cands, co, q
  <2>3. \A t \in types :
          /\ Elems(admitted_candidates(cands[t], s, t, co)) = PassingOf(cands, s, t, co)
          /\ q = {} => Elems(cands[t]) = PassingOf(cands, s, t, co)
          /\ NoReasonColumn(s) => Elems(hash_subtraction(cands[t], t, q)) = PassingOf(cands, s, t, co)
    BY <2>0, PostDoorsAgree
  <2>1. \A t \in types :
          /\ Elems(admitted_candidates(Candidates(s)[t], s, t, Kept(s))) = Passing(s, t)
          /\ Dismissed(s) = {} => Elems(Candidates(s)[t]) = Passing(s, t)
          /\ NoReasonColumn(s) => Elems(hash_subtraction(Candidates(s)[t], t, Dismissed(s))) = Passing(s, t)
    BY <2>3 DEF Passing, cands, co, q
  <2>2. /\ \A t \in types : good[t] = admitted_candidates(Candidates(s)[t], s, t, Kept(s))
        /\ \A t \in types : whole[t] = Candidates(s)[t]
        /\ \A t \in types : rest[t] = hash_subtraction(Candidates(s)[t], t, batch.postq)
    OBVIOUS
  <2> HIDE DEF rest, whole, good
  <2> QED  BY <2>1, <2>2
<1> HIDE DEF rest, whole, good
<1>5. \/ (\E c : FailedAs("post_check", c, job, job')) /\ batch' = batch
      \/ \E a : fine(a) /\ door(a) /\ (batch' = judged \/ (batch' = batch /\ batch.postq = Dismissed(s)))
  <2> HIDE DEF door, judged, fine
  <2> QED  BY <1>2, <1>3, <1>4 DEF SteadyBatch, Written
<1>6. /\ batch'.raw = batch.raw /\ batch'.preq = batch.preq /\ batch'.facts = batch.facts
      /\ batch'.postq \in {batch.postq, Dismissed(s)}
      /\ (\E c : FailedAs("post_check", c, job, job')) \/ batch'.postq = Dismissed(s)
  <2> HIDE DEF door, fine
  <2> QED  BY <1>1, <1>5 DEF BatchFields
<1>7. Judgment(s)' = Judgment(s) /\ ValidRows(s)' = ValidRows(s) /\ Candidates(s)' = Candidates(s)
      /\ Exists(CoEffectTables(s))' /\ Kept(s)' = Kept(s)
  BY <1>1, <1>6, SameRows DEF KeptOn
<1>8. Dismissed(s)' = Dismissed(s) /\ \A t : Passing(s, t)' = Passing(s, t)  BY <1>6, <1>7, SameWords
<1>9. SteadyBatch(s)'
  <2>1. CASE batch'.postq = batch.postq  BY <1>1, <1>6, <2>1, BatchKeepsSteady
  <2>2. CASE batch'.postq = Dismissed(s)  BY <1>1, <1>6, <1>7, <1>8, <2>2 DEF SteadyBatch
  <2> QED  BY <1>6, <2>1, <2>2
<1>10. ASSUME job' # None PROVE SteadyJob(s)'
  <2>1. ~PreCheck /\ ~Pull /\ ~Apply  BY <1>1 DEF PreCheck, Pull, Apply, At
  <2>2. job'.valid = job.valid /\ job'.co = job.co /\ job'.cands = job.cands
    BY <1>1, <1>10, <2>1, StagingWrites DEF JobWrites
  <2>3. ASSUME Past("post_check")'
        PROVE  batch'.postq = Dismissed(s) /\ (NoReasonColumn(s) => \A t \in types : Elems(job'.admitted[t]) = Passing(s, t))
    <3>1. ~\E c : FailedAs("post_check", c, job, job')  BY <1>10, <2>3, Places, FailedNotPast
    <3>2. PICK a : fine(a) /\ door(a)
      <4> HIDE DEF fine, door
      <4> QED  BY <1>5, <3>1
    <3>3. LET j == [job EXCEPT !.admitted = a] IN DOMAIN j = JobFields /\ j.admitted = a
      BY <1>1 DEF JobFields
    <3>4. job'.admitted = a  BY <3>2, <3>3 DEF DoorAs, But, JobFields
    <3> QED  BY <1>6, <3>1, <3>2, <3>4
  <2>4. job.valid = typed_projection(ValidRows(s), s)  BY <1>1 DEF SteadyJob
  <2> QED  BY <1>1, <1>6, <1>7, <1>8, <2>2, <2>3, <2>4 DEF SteadyJob
<1> QED  BY <1>9, <1>10 DEF Stays

\* The stages that end what was judged before write none of it.
LEMMA SteadyCommit ==
  ASSUME NEW s, job.spec = s, SteadyBatch(s), SteadyJob(s), JobOK, BoundInv, CommitTable
  PROVE  Stays(s)
<1>1. /\ job # None /\ job.pc = "tables" /\ DOMAIN job = JobFields /\ DOMAIN batch = BatchFields /\ Staging
      /\ StageOf(job.pc) = "commit" /\ job.pc \in Working
  BY DEF CommitTable, At, JobOK, RunningJob, BoundInv, Staging, StageOf, Working
<1>2. catalog' = catalog  BY <1>1, StagingCatalog
<1>3. KeptOn(s)  BY <1>2, CoEffectsStay
<1>4. \A stage \in {"pre_check", "pull", "apply", "post_check"} : Past(stage) /\ (job' # None => Past(stage)')
  <2>1. \A stage \in {"pre_check", "pull", "apply", "post_check"} :
          stage \in Stages /\ Place(stage) < Place(StageOf(job.pc))
    BY <1>1, Places
  <2> QED  BY <1>1, <2>1, InStage
<1>5. ~Land /\ ~PreCheck /\ ~Pull /\ ~Apply /\ ~PostCheck  BY <1>1 DEF Land, PreCheck, Pull, Apply, PostCheck, At
<1>6. /\ batch'.raw = batch.raw /\ batch'.preq = batch.preq /\ batch'.postq = batch.postq
      /\ job' # None => /\ job'.valid = job.valid /\ job'.co = job.co
                        /\ job'.cands = job.cands /\ job'.admitted = job.admitted
  BY <1>1, <1>5, StagingWrites DEF BatchWrites, JobWrites
<1>7. /\ Judgment(s)' = Judgment(s) /\ Exists(CoEffectTables(s))' /\ Kept(s)' = Kept(s)
      /\ Dismissed(s)' = Dismissed(s)
  BY <1>3, <1>4, <1>6, SameRows, SameWords DEF KeptOn, SteadyJob
<1>8. SteadyBatch(s)'  BY <1>4, <1>6, <1>7 DEF SteadyBatch, SteadyJob
<1>9. job' # None => SteadyJob(s)'  BY <1>3, <1>4, <1>6, JobKeepsSteady
<1> QED  BY <1>8, <1>9 DEF Stays

LEMMA SteadyQuiet ==
  ASSUME NEW s, SteadyBatch(s), job # None, job.pc \notin Starting, SteadyJob(s), JobOK, BoundInv, Staging,
         ~Land /\ ~PreCheck /\ ~Pull /\ ~Apply /\ ~PostCheck /\ ~CommitTable
  PROVE  Stays(s)
<1>1. DOMAIN batch = BatchFields /\ "post_check" \in Stages  BY Places DEF BoundInv
<1>2. catalog' = catalog  BY StagingCatalog
<1>3. KeptOn(s)  BY <1>2, CoEffectsStay
<1>4. /\ batch'.raw = batch.raw /\ batch'.preq = batch.preq /\ batch'.postq = batch.postq /\ batch'.facts = batch.facts
      /\ job' # None => /\ job'.valid = job.valid /\ job'.co = job.co
                        /\ job'.cands = job.cands /\ job'.admitted = job.admitted
  BY <1>1, StagingWrites DEF BatchWrites, JobWrites
<1>5. ASSUME job' # None, NEW stage \in {"pre_check", "pull", "apply", "post_check"} PROVE Past(stage)' <=> Past(stage)
  <2>1. stage \in Stages /\ ~Ends(stage)  BY <1>5, Places DEF Ends
  <2> QED  BY <1>1, <1>5, <2>1, PastStaging
<1>6. Past("post_check") => Past("pull")  BY PastOrder
<1>7. SteadyBatch(s)'  BY <1>3, <1>4, BatchKeepsSteady
<1>8. job' # None => SteadyJob(s)'  BY <1>3, <1>4, <1>5, <1>6, JobKeepsSteady
<1> QED  BY <1>7, <1>8 DEF Stays

\* A batch that no job has bound a spec for is as it was.
LEMMA UnboundNext ==
  ASSUME JobOK, ExecOK, BoundInv, [Next]_allVars, batch.by = {} => batch.preq = {} /\ ~Written
  PROVE  batch'.by = {} => batch'.preq = {} /\ ~Written'
<1>1. ASSUME batch' = batch PROVE batch'.by = {} => batch'.preq = {} /\ ~Written'  BY <1>1 DEF Written
<1>2. CASE Staging
  <2>1. DOMAIN batch = BatchFields  BY DEF BoundInv
  <2>2. CASE job.pc \in Working
    <3>1. job # None /\ batch'.by = batch.by  BY <1>2, <2>1, <2>2, StagingBinds DEF Working
    <3>2. job.pc \notin Starting  BY <2>2 DEF Working, Starting
    <3> QED  BY <3>1, <3>2 DEF BoundInv
  <2>3. CASE batch' = [batch EXCEPT !.by = @ \cup {job.version}]
    <3>1. job.version \in batch'.by  BY <2>1, <2>3 DEF BatchFields
    <3> QED  BY <3>1
  <2> QED  BY <1>1, <1>2, <2>1, <2>2, <2>3, StagingBinds
<1>3. RecordRun => batch' = batch  BY DEF RecordRun
<1> QED  BY <1>1, <1>2, <1>3, StepKinds, ExecSteps

LEMMA SteadyStart ==
  ASSUME Steady, JobOK, BoundInv, Load \/ Describe \/ Bind, ~Changed, ~Changed', NEW s \in RunSpecs'
  PROVE  SteadyBatch(s)' /\ (job' # None /\ job'.pc \notin Starting => SteadyJob(s)')
<1>1. /\ job # None /\ scene' = scene /\ catalog' = catalog /\ DOMAIN batch = BatchFields
      /\ \/ batch' = batch /\ (job' = None \/ job'.pc \in Starting)
         \/ job.pc = "bind" /\ job'.pc = "land" /\ batch' = [batch EXCEPT !.by = @ \cup {job.version}]
  BY StartEffect DEF Starting, provisioningVars, BoundInv
<1>2. KeptOn(s)  BY <1>1, CoEffectsStay
<1>3. /\ batch'.raw = batch.raw /\ batch'.preq = batch.preq /\ batch'.postq = batch.postq /\ batch'.facts = batch.facts
      /\ batch'.by \in {batch.by, batch.by \cup {job.version}}
  BY <1>1 DEF BatchFields
<1>4. SteadyBatch(s)'
  <2>1. CASE s \in RunSpecs
    <3>1. SteadyBatch(s)  BY <2>1 DEF Steady
    <3> QED  BY <1>2, <1>3, <3>1, BatchKeepsSteady
  <2>2. CASE batch.by = {}
    <3>1. batch'.preq = {} /\ ~Written'  BY <1>3, <2>2 DEF Steady, Written
    <3> QED  BY <3>1 DEF SteadyBatch
  <2>3. batch.by # {} => s \in RunSpecs
    <3>1. batch.by \subseteq batch'.by /\ \A v, w \in batch'.by : v = w  BY <1>3 DEF Changed, OneSpec
    <3> QED  BY <1>1, <3>1 DEF RunSpecs
  <2> QED  BY <2>1, <2>2, <2>3
<1>5. ASSUME job' # None, job'.pc \notin Starting PROVE SteadyJob(s)'
  <2>1. job.pc \in Starting /\ job.pc # "record" /\ Staging  BY <1>1, <1>5 DEF Starting, Staging
  <2>2. ~PreCheck /\ ~Pull /\ ~Apply /\ ~PostCheck  BY <2>1 DEF PreCheck, Pull, Apply, PostCheck, At, Starting
  <2>3. ASSUME NEW stage \in {"pre_check", "pull", "apply", "post_check"} PROVE ~Past(stage)'
    <3>1. stage \in Stages /\ ~Ends(stage)  BY <2>2, <2>3, Places DEF Ends
    <3>2. ~Past(stage)  BY <1>1, <2>1, <3>1, NotPast
    <3> QED  BY <1>1, <1>5, <2>1, <3>1, <3>2, PastStaging
  <2> QED  BY <2>3 DEF SteadyJob
<1> QED  BY <1>4, <1>5

\* A stage works under the spec that the batch has run under so far.
LEMMA SteadyWorking ==
  ASSUME Steady, JobOK, BoundInv, AdmitInv, Staging, ~Load /\ ~Describe /\ ~Bind, ~Changed, NEW s \in RunSpecs'
  PROVE  SteadyBatch(s)' /\ (job' # None /\ job'.pc \notin Starting => SteadyJob(s)')
<1>1. DOMAIN batch = BatchFields  BY DEF BoundInv
<1>2. scene' = scene /\ job # None  BY <1>1, StagingBinds
<1>3. CASE job.pc \in Starting
  <2>1. EffectRaises \/ Die
    BY <1>3 DEF Staging, Starting, Land, Announce, PreCheck, Pull, Apply, PostCheck, OpenCommit, CommitTable, Complete,
                OpenFold, FoldTable, EndFold, Publish, At
  <2>2. batch' = batch /\ job' = None /\ catalog' = catalog
    BY <1>3, <2>1, FaultEffect DEF Starting, Working, provisioningVars
  <2>3. s \in RunSpecs  BY <1>2, <2>2 DEF RunSpecs
  <2>4. SteadyBatch(s) /\ KeptOn(s)  BY <2>2, <2>3, CoEffectsStay DEF Steady
  <2> QED  BY <2>2, <2>4, BatchKeepsSteady
<1>4. CASE job.pc \notin Starting
  <2>1. RunSpecs = {job.spec}  BY <1>2, <1>4, SameSpec
  <2>2. batch'.by = batch.by  BY <1>1, <1>4, StagingBinds DEF Starting
  <2>3. s = job.spec /\ SteadyBatch(s) /\ SteadyJob(s)  BY <1>2, <1>4, <2>1, <2>2 DEF RunSpecs, Steady
  <2>4. s.columns \in Seq(Elems(s.columns))
    <3>1. s \in Elems(scene.specs) /\ scene \in Scenes  BY <1>4, <1>2, <2>3 DEF BoundInv, Elems, Starting
    <3> QED  BY <3>1, SceneAssumption
  <2>5. Stays(s)
    BY <1>2, <1>4, <2>3, <2>4, SteadyLand, SteadyPreCheck, SteadyPull, SteadyApply, SteadyPostCheck, SteadyCommit,
       SteadyQuiet
  <2> QED  BY <2>5 DEF Stays
<1> QED  BY <1>3, <1>4

LEMMA SteadyNext ==
  ASSUME GapInv, BoundInv, AdmitInv, CatalogInv, ExecTypes, Steady, [Next]_allVars
  PROVE  Steady'
<1>0. JobOK /\ ExecOK  BY DEF GapInv
<1>1. batch'.by = {} => batch'.preq = {} /\ ~Written'  BY <1>0, UnboundNext DEF Steady
<1>2. ASSUME ~Changed', NEW s \in RunSpecs'
      PROVE  SteadyBatch(s)' /\ (job' # None /\ job'.pc \notin Starting => SteadyJob(s)')
  <2>1. ~Changed /\ ~Refresh  BY <1>0, <1>2, ChangedStays
  <2>2. KeptOn(s)  BY <2>1, RowsStay, CoEffectsStay
  <2>3. scene' = scene  BY WorldSteps
  <2>4. ASSUME batch' = batch PROVE s \in RunSpecs /\ SteadyBatch(s) /\ SteadyBatch(s)'
    <3>1. s \in RunSpecs  BY <2>3, <2>4 DEF RunSpecs
    <3>2. SteadyBatch(s)  BY <2>1, <3>1 DEF Steady
    <3> QED  BY <2>2, <2>4, <3>1, <3>2, BatchKeepsSteady
  <2>5. CASE Route \/ Retry \/ GiveUp \/ Rerun
    <3>1. batch' = batch /\ (job' = Fresh \/ job' = None)  BY <1>0, <2>5, ExecSteps
    <3>2. job' # None => job'.pc \in Starting  BY <3>1 DEF Fresh, Starting
    <3> QED  BY <2>4, <3>1, <3>2
  <2>6. CASE Staging
    BY <1>0, <1>2, <2>1, <2>6, SteadyStart, SteadyWorking
  <2>7. CASE RecordRun
    <3>1. batch' = batch /\ job # None /\ job.pc = "record"  BY <2>7 DEF RecordRun, At
    <3>2. s \in RunSpecs /\ SteadyBatch(s)'  BY <2>4, <3>1
    <3>3. ASSUME job' # None PROVE SteadyJob(s)'
      <4>1. SteadyJob(s)  BY <2>1, <3>1, <3>2 DEF Steady, Starting
      <4>2. job' = [job EXCEPT !.pc = Following(job.pending.stage), !.pending = None]
        BY <2>7, <3>3 DEF RecordRun
      <4>3. job'.valid = job.valid /\ job'.co = job.co /\ job'.cands = job.cands /\ job'.admitted = job.admitted
        BY <1>0, <3>1, <4>2 DEF JobOK, RunningJob, JobFields
      <4>4. \A stage \in {"pre_check", "pull", "apply", "post_check"} : Past(stage)' <=> Past(stage)
        <5>1. \A stage \in {"pre_check", "pull", "apply", "post_check"} : stage \in Stages  BY Places
        <5> QED  BY <1>0, <2>7, <3>3, <5>1, PastRecord
      <4>5. Past("post_check") => Past("pull")  BY <1>0, <3>1, PastOrder
      <4> QED  BY <2>2, <3>1, <4>1, <4>3, <4>4, <4>5, JobKeepsSteady
    <3> QED  BY <3>2, <3>3
  <2>8. CASE job' = job /\ batch' = batch
    <3>1. s \in RunSpecs /\ SteadyBatch(s)'  BY <2>4, <2>8
    <3>2. ASSUME job' # None, job'.pc \notin Starting PROVE SteadyJob(s)'
      <4>1. SteadyJob(s)  BY <2>1, <2>8, <3>1, <3>2 DEF Steady
      <4>2. \A stage : Past(stage)' <=> Past(stage)  BY <2>8 DEF Past, Due
      <4>3. Past("post_check") => Past("pull")  BY <1>0, <2>8, <3>2, PastOrder
      <4> QED  BY <2>2, <2>8, <4>1, <4>2, <4>3, JobKeepsSteady
    <3> QED  BY <3>1, <3>2
  <2> QED  BY <2>5, <2>6, <2>7, <2>8, StepKinds
<1> QED  BY <1>1, <1>2 DEF Steady

LEMMA SteadyInit == Init => Steady
<1> SUFFICES ASSUME Init PROVE Steady  OBVIOUS
<1>1. /\ job = None /\ batch.preq = {} /\ batch.postq = {} /\ DOMAIN batch.facts = {} /\ batch.by = {}
  BY DEF Init
<1>2. RunSpecs = {}  BY <1>1 DEF RunSpecs
<1> QED  BY <1>1, <1>2 DEF Steady, Written

-------------------------------------------------------------------------------
\* The alarms of drift tell of a change

\* No alarm has gone off in the job, and none is about to be reported.
Silent(j) == j.drift = {} /\ (j.pc = "record" => ~j.pending.drift)

NoAlarm == ~Changed => (\A r \in Told : ~r.drift) /\ (job # None => Silent(job))

LEMMA SilentEnds ==
  ASSUME NEW j, NEW k, NEW stage, DOMAIN j = JobFields, j.drift = {}
  PROVE  /\ EndedAs(stage, j, k) => Silent(k)
         /\ \A c : FailedAs(stage, c, j, k) => Silent(k)
         /\ \A skip : DoorAs(stage, skip, FALSE, j, k) => Silent(k)
         /\ \A fs : But(fs, j, k) /\ "drift" \notin fs /\ k.pc # "record" => Silent(k)
<1>1. "drift" \in DOMAIN j  BY DEF JobFields
<1>2. ASSUME k.drift = {}, NEW a, NEW c, NEW o, NEW d, d = FALSE,
             k.pending = [attempt |-> a, stage |-> stage, cause |-> c, drift |-> d, outcome |-> o]
      PROVE  Silent(k)
  BY <1>2 DEF Silent
<1>3. (stage \in j.drift) = FALSE  OBVIOUS
<1>4. ASSUME EndedAs(stage, j, k) PROVE Silent(k)
  <2>1. k.drift = {}  BY <1>1, <1>4 DEF EndedAs, But
  <2> QED  BY <1>4, <1>2, <1>3, <2>1 DEF EndedAs
<1>5. ASSUME NEW c, FailedAs(stage, c, j, k) PROVE Silent(k)
  <2>1. k.drift = {}  BY <1>1, <1>5 DEF FailedAs, But
  <2> QED  BY <1>5, <1>2, <1>3, <2>1 DEF FailedAs
<1>6. ASSUME NEW skip, DoorAs(stage, skip, FALSE, j, k) PROVE Silent(k)
  <2>1. k.drift = {}  BY <1>6 DEF DoorAs
  <2>2. (stage \in k.drift) = FALSE  BY <2>1
  <2> QED  BY <1>6, <1>2, <2>1, <2>2 DEF DoorAs
<1>7. \A fs : But(fs, j, k) /\ "drift" \notin fs /\ k.pc # "record" => Silent(k)  BY <1>1 DEF But, Silent
<1> QED  BY <1>4, <1>5, <1>6, <1>7

LEMMA SilentPreCheck ==
  ASSUME NEW s, job.spec = s, s.columns \in Seq(Elems(s.columns)), SteadyBatch(s), JobOK, PreCheck, job.drift = {}
  PROVE  Silent(job')
<1>1. job # None /\ DOMAIN job = JobFields  BY DEF PreCheck, At, JobOK, RunningJob
<1> DEFINE raw == RawRows(s)
           drift == PreDrift(raw, batch.preq, s)
           door(skip, d) == \E valid : DoorAs("pre_check", skip, d, PreChecked(valid, s), job')
<1>2. \/ \E c : FailedAs("pre_check", c, job, job')
      \/ batch.preq # {} /\ door(TRUE, drift)
      \/ AnyFactPresent(s) /\ door(FALSE, drift)
      \/ door(FALSE, FALSE)
  BY PreCheckEffect
<1>3. AnyFactPresent(s) => Written  BY DEF AnyFactPresent, Written
<1>4. batch.preq # {} \/ AnyFactPresent(s) => drift = FALSE
  <2>1. ~PreDrift(raw, Judgment(s), s)  BY PreDoorsAgree DEF Judgment
  <2>2. batch.preq # {} \/ AnyFactPresent(s) => batch.preq = Judgment(s)  BY <1>3 DEF SteadyBatch
  <2>3. drift \in BOOLEAN  BY DEF PreDrift
  <2> HIDE DEF raw
  <2> QED  BY <2>1, <2>2, <2>3
<1> HIDE DEF drift, door
<1>5. (\E c : FailedAs("pre_check", c, job, job')) \/ \E skip : door(skip, FALSE)  BY <1>2, <1>4
<1>6. \A valid : LET j == PreChecked(valid, s) IN DOMAIN j = JobFields /\ j.drift = {}
  BY <1>1 DEF PreChecked, JobFields
<1>7. ASSUME NEW c, FailedAs("pre_check", c, job, job') PROVE Silent(job')  BY <1>1, <1>7, SilentEnds
<1>8. ASSUME NEW skip, door(skip, FALSE) PROVE Silent(job')
  <2>1. PICK valid : DoorAs("pre_check", skip, FALSE, PreChecked(valid, s), job')  BY <1>8 DEF door
  <2> QED  BY <1>6, <2>1, SilentEnds
<1> QED  BY <1>5, <1>7, <1>8

LEMMA SilentPostCheck ==
  ASSUME NEW s, job.spec = s, SteadyBatch(s), SteadyJob(s), JobOK, BoundInv, PostCheck, job.drift = {}
  PROVE  Silent(job')
<1>1. /\ job # None /\ DOMAIN job = JobFields /\ Framed(Candidates(s), s)
      /\ job.cands = Candidates(s) /\ job.co = Kept(s)
  BY AtPostCheck
<1> DEFINE drift == PostDrift(job.cands, batch.postq, s, job.co)
           door(skip, d) == \E a : DoorAs("post_check", skip, d, [job EXCEPT !.admitted = a], job')
<1>2. \/ \E c : FailedAs("post_check", c, job, job')
      \/ batch.postq # {} /\ door(TRUE, drift)
      \/ AnyFactPresent(s) /\ door(FALSE, drift)
      \/ door(FALSE, FALSE)
  BY PostCheckEffect
<1>3. batch.postq # {} \/ AnyFactPresent(s) => Written  BY DEF AnyFactPresent, Written
<1>4. batch.postq # {} \/ AnyFactPresent(s) => drift = FALSE
  <2> DEFINE cands == Candidates(s)  co == Kept(s)  q == Dismissed(s)
  <2>1. Framed(cands, s) /\ q = DismissedOf(cands, s, co)  BY <1>1 DEF Dismissed
  <2>2. job.cands = cands /\ job.co = co  BY <1>1
  <2>3. batch.postq # {} \/ AnyFactPresent(s) => batch.postq = q  BY <1>3 DEF SteadyBatch
  <2> HIDE DEF cands, co, q
  <2>4. ~PostDrift(cands, q, s, co)  BY <2>1, PostDoorsAgree
  <2>5. drift \in BOOLEAN  BY DEF PostDrift
  <2> QED  BY <2>2, <2>3, <2>4, <2>5
<1> HIDE DEF drift, door
<1>5. (\E c : FailedAs("post_check", c, job, job')) \/ \E skip : door(skip, FALSE)  BY <1>2, <1>4
<1>6. \A a : LET j == [job EXCEPT !.admitted = a] IN DOMAIN j = JobFields /\ j.drift = {}
  BY <1>1 DEF JobFields
<1>7. ASSUME NEW c, FailedAs("post_check", c, job, job') PROVE Silent(job')  BY <1>1, <1>7, SilentEnds
<1>8. ASSUME NEW skip, door(skip, FALSE) PROVE Silent(job')
  <2>1. PICK a : DoorAs("post_check", skip, FALSE, [job EXCEPT !.admitted = a], job')  BY <1>8 DEF door
  <2> QED  BY <1>6, <2>1, SilentEnds
<1> QED  BY <1>5, <1>7, <1>8

\* No other step of a job raises an alarm.
LEMMA SilentQuiet ==
  ASSUME JobOK, Staging, ~PreCheck, ~PostCheck, Silent(job), job' # None
  PROVE  Silent(job')
<1>1. job # None
  BY DEF Staging, Load, Describe, Bind, Land, Announce, PreCheck, Pull, Apply, PostCheck, OpenCommit, CommitTable, Complete,
         OpenFold, FoldTable, EndFold, Publish, EffectRaises, Die, At
<1>2. DOMAIN job = JobFields /\ job.drift = {}  BY <1>1 DEF JobOK, RunningJob, Silent
<1>3. \A v : /\ LET j == [job EXCEPT !.co = v] IN DOMAIN j = JobFields /\ j.drift = {}
             /\ LET j == [job EXCEPT !.cands = v] IN DOMAIN j = JobFields /\ j.drift = {}
  BY <1>2 DEF JobFields
<1>4. \/ job' = job
      \/ \E stage, c : FailedAs(stage, c, job, job')
      \/ \E stage : EndedAs(stage, job, job')
      \/ \E v : EndedAs("pull", [job EXCEPT !.co = v], job')
      \/ \E v : EndedAs("apply", [job EXCEPT !.cands = v], job')
      \/ \E fs : But(fs, job, job') /\ "drift" \notin fs /\ job'.pc # "record"
  <2> DEFINE Goal == \/ job' = job
                     \/ \E stage, c : FailedAs(stage, c, job, job')
                     \/ \E stage : EndedAs(stage, job, job')
                     \/ \E v : EndedAs("pull", [job EXCEPT !.co = v], job')
                     \/ \E v : EndedAs("apply", [job EXCEPT !.cands = v], job')
                     \/ \E fs : But(fs, job, job') /\ "drift" \notin fs /\ job'.pc # "record"
             moved == \E fs : But(fs, job, job') /\ "drift" \notin fs /\ job'.pc # "record"
  <2>1. ASSUME Load \/ Describe \/ Bind PROVE Goal
    <3>1. \/ But({"pc", "version", "spec"}, job, job') /\ job'.pc = "describe"
          \/ But({"pc", "facts"}, job, job') /\ job'.pc = "bind"
          \/ But({"pc"}, job, job') /\ job'.pc = "land"
      BY <2>1, StartEffect
    <3>2. moved  BY <3>1
    <3> QED  BY <3>2
  <2>2. ASSUME Land PROVE Goal
    <3>1. \/ \E c : FailedAs("land", c, job, job')
          \/ But({"pc", "skips"}, job, job') /\ job'.pc = "announce"
          \/ But({"pc"}, job, job') /\ job'.pc = "announce"
      BY <2>2, LandEffect
    <3>2. (\E c : FailedAs("land", c, job, job')) \/ moved  BY <3>1
    <3> QED  BY <3>2
  <2>3. ASSUME Announce \/ Pull \/ Apply \/ OpenCommit \/ OpenFold PROVE Goal
    <3>1. \/ \E stage, c : FailedAs(stage, c, job, job')
          \/ EndedAs("land", job, job')
          \/ \E v : EndedAs("pull", [job EXCEPT !.co = v], job')
          \/ \E v : EndedAs("apply", [job EXCEPT !.cands = v], job')
          \/ But({"pc", "left"}, job, job') /\ job'.pc \in {"tables", "states"}
      BY <2>3, MidEffect
    <3>2. But({"pc", "left"}, job, job') /\ job'.pc \in {"tables", "states"} => moved  OBVIOUS
    <3> QED  BY <3>1, <3>2
  <2>4. ASSUME CommitTable \/ Complete \/ FoldTable \/ EndFold \/ Publish PROVE Goal
    <3>1. /\ job.pc # "record" \/ \E stage : EndedAs(stage, job, job')
          /\ \/ \E stage, c : FailedAs(stage, c, job, job')
             \/ \E stage : EndedAs(stage, job, job')
             \/ But({"left"}, job, job')
             \/ But({"left", "skips"}, job, job')
             \/ job' = job
      BY <2>4, LateEffect
    <3>2. (But({"left"}, job, job') \/ But({"left", "skips"}, job, job')) => job'.pc = job.pc
      BY <1>2 DEF But, JobFields
    <3>3. (But({"left"}, job, job') \/ But({"left", "skips"}, job, job')) /\ job.pc # "record" => moved
      BY <3>2
    <3> QED  BY <3>1, <3>3
  <2>5. ASSUME EffectRaises \/ Die PROVE Goal
    BY <2>5, FaultEffect
  <2> HIDE DEF Goal
  <2> QED  BY <2>1, <2>2, <2>3, <2>4, <2>5 DEF Staging, Goal
<1>5. ASSUME NEW stage, NEW j, DOMAIN j = JobFields, j.drift = {}, EndedAs(stage, j, job') PROVE Silent(job')
  BY <1>5, SilentEnds
<1>6. ASSUME NEW stage, NEW c, FailedAs(stage, c, job, job') PROVE Silent(job')  BY <1>2, <1>6, SilentEnds
<1>7. ASSUME NEW fs, But(fs, job, job'), "drift" \notin fs, job'.pc # "record" PROVE Silent(job')
  BY <1>2, <1>7, SilentEnds
<1> QED  BY <1>2, <1>3, <1>4, <1>5, <1>6, <1>7

LEMMA NoAlarmNext ==
  ASSUME GapInv, BoundInv, AdmitInv, ExecTypes, Steady, NoAlarm, [Next]_allVars
  PROVE  NoAlarm'
<1>0. JobOK /\ ExecOK  BY DEF GapInv
<1>1. SUFFICES ASSUME ~Changed' PROVE (\A r \in Told' : ~r.drift) /\ (job' # None => Silent(job'))
  BY DEF NoAlarm, Silent
<1>2. ~Changed  BY <1>0, <1>1, ChangedStays
<1>3. (\A r \in Told : ~r.drift) /\ (job # None => Silent(job))  BY <1>2 DEF NoAlarm
<1>4. CASE Route \/ Retry \/ GiveUp \/ Rerun
  <2>1. ledger' = ledger /\ (job' = Fresh \/ job' = None)  BY <1>0, <1>4, ExecSteps
  <2>2. Silent(Fresh)  BY DEF Silent, Fresh
  <2>3. Told' = Told  BY <2>1 DEF Told
  <2> QED  BY <1>3, <2>1, <2>2, <2>3
<1>5. CASE Staging
  <2>1. job # None /\ ledger' = ledger  BY <1>0, <1>5, StagingStep
  <2>2. Told' = Told  BY <2>1 DEF Told
  <2>3. ASSUME PreCheck \/ PostCheck PROVE Silent(job')
    <3>1. job.pc \in {"pre_check", "post_check"}  BY <2>3 DEF PreCheck, PostCheck, At
    <3>2. job.pc \notin Starting  BY <3>1 DEF Starting
    <3>3. RunSpecs = {job.spec}  BY <1>2, <2>1, <3>2, SameSpec
    <3>4. PICK s : s = job.spec  OBVIOUS
    <3>5. SteadyBatch(s) /\ SteadyJob(s)  BY <1>2, <2>1, <3>2, <3>3, <3>4 DEF Steady
    <3>6. s \in Elems(scene.specs) /\ scene \in Scenes  BY <2>1, <3>2, <3>4 DEF BoundInv, Elems, Starting
    <3>7. s.columns \in Seq(Elems(s.columns))  BY <3>6, SceneAssumption
    <3>8. job.drift = {}  BY <1>3, <2>1 DEF Silent
    <3> QED  BY <1>0, <2>3, <3>4, <3>5, <3>7, <3>8, SilentPreCheck, SilentPostCheck
  <2>4. job' # None => Silent(job')  BY <1>0, <1>3, <1>5, <2>1, <2>3, SilentQuiet
  <2> QED  BY <1>3, <2>2, <2>4
<1>6. CASE RecordRun
  <2>1. job # None /\ job.pc = "record" /\ DOMAIN job = JobFields  BY <1>0, <1>6 DEF RecordRun, At, JobOK, RunningJob
  <2>2. Told' = Told \cup {job.pending}  BY <1>6, Reporting
  <2>3. ~job.pending.drift /\ job.drift = {}  BY <1>3, <2>1 DEF Silent
  <2>4. ASSUME job' # None PROVE Silent(job')
    <3> DEFINE p == job.pending
    <3>1. /\ p.outcome # "failed" /\ ~(p.stage = "publish" /\ p.outcome = "ok")
          /\ job' = [job EXCEPT !.pc = Following(p.stage), !.pending = None]
      BY <1>6, <2>4 DEF RecordRun
    <3>2. job'.drift = {} /\ job'.pc = Following(p.stage)  BY <2>1, <2>3, <3>1 DEF JobFields
    <3>3. p.stage \in Stages /\ p.outcome \in Outcomes /\ (p.outcome = "skipped-guard" => p.stage \in Guarded)
      BY <1>0, <2>1 DEF JobOK, RunningJob, PendingOK
    <3>4. p.stage # "publish"  BY <3>1, <3>3 DEF Guarded, Outcomes
    <3>5. Following(p.stage) \in Working  BY <3>3, <3>4, FollowingPlace
    <3> QED  BY <3>2, <3>5 DEF Silent, Working
  <2> QED  BY <1>3, <2>2, <2>3, <2>4
<1>7. CASE job' = job /\ ledger' = ledger
  BY <1>3, <1>7 DEF Told
<1> QED  BY <1>4, <1>5, <1>6, <1>7, StepKinds


LEMMA InvSteady == Spec => [](GapInv /\ BoundInv /\ AdmitInv /\ ExecTypes /\ Steady /\ NoAlarm)
<1>1. Init => NoAlarm
  <2> SUFFICES ASSUME Init PROVE NoAlarm  OBVIOUS
  <2>1. job = None /\ Told = {}  BY DEF Init, Told
  <2> QED  BY <2>1 DEF NoAlarm
<1>2. GapInv /\ BoundInv /\ AdmitInv /\ CatalogInv /\ ExecTypes /\ Steady /\ NoAlarm /\ [Next]_allVars => Steady' /\ NoAlarm'
  BY SteadyNext, NoAlarmNext
<1> QED  BY <1>1, <1>2, SteadyInit, InvAdmit, InvCatalog, InvTypes, PTL DEF Spec

\* An alarm of drift in the ledger tells of a change: as long as a batch runs
\* under one spec and no co-effect is refreshed, the doors of pre_check and
\* post_check that skip a judgment find on every retry and rerun what the
\* judgment said, wherever an earlier attempt was cut off.
THEOREM AlarmsMeanChange == Spec => []DriftMeansChange
<1>1. NoAlarm => DriftMeansChange  BY DEF NoAlarm, DriftMeansChange, Told
<1> QED  BY <1>1, InvSteady, PTL

-------------------------------------------------------------------------------
\* Every row of a batch that was announced has its place

\* A closed batch was run under some spec, and an attempt landed its rows or
\* found none; an announced one is closed.
ClosedInv ==
  /\ Closed => batch.by # {}
  /\ Closed /\ ~Landed => \E r \in Told : r.stage = "land" /\ r.outcome = "ok"
  /\ batch.announced # None => Closed

\* Only the last step of commit closes a batch.
LEMMA Closing ==
  ASSUME JobOK, BoundInv, AdmitInv, LifeInv, Staging, Closed'
  PROVE  Closed \/ Complete
<1>1. DOMAIN batch = BatchFields  BY DEF BoundInv
<1>2. CASE CommitTable
  <2> DEFINE table == Current.fact_table
  <2>1. job # None /\ job.pc = "tables" /\ job.left # <<>>  BY <1>2 DEF CommitTable, At
  <2>2. Mark(table) \/ batch'.markers = batch.markers  BY <1>1, <1>2, <2>1, LateEffect DEF BatchFields
  <2>3. Head(job.left) \in DOMAIN job.spec.fact_types
    <3>1. job.left \in Seq(DOMAIN job.spec.fact_types)  BY <2>1 DEF AdmitInv, JobAdmits, Starting
    <3> QED  BY <2>1, <3>1, TailLeft
  <2>4. table # COMMIT_COMPLETION_SENTINEL
    <3>1. Parses(job.spec)  BY <2>1 DEF LifeInv
    <3> QED  BY <2>3, <3>1, QualifiedTables DEF Current
  <2> HIDE DEF table
  <2>5. batch'.markers = batch.markers => Closed' = Closed  BY DEF Closed
  <2> QED  BY <1>1, <2>2, <2>4, <2>5, MarkCloses
<1>3. CASE ~CommitTable /\ ~Complete
  <2>1. batch'.markers = batch.markers  BY <1>1, <1>3, StagingWrites DEF BatchWrites
  <2> QED  BY <2>1 DEF Closed
<1> QED  BY <1>2, <1>3

\* A job that is past a stage has told of it.
LEMMA ToldBefore ==
  ASSUME GapInv, job # None, job.pc \in Working, NEW stage \in Stages, Place(stage) < Place(StageOf(job.pc))
  PROVE  \E r \in Told : r.stage = stage /\ r.outcome \in {"ok", "skipped-guard"}
<1>1. job.pc # "record" /\ job.pc \notin Starting /\ StageOf(job.pc) \in Stages
  BY Places DEF Working, Starting, StageOf
<1>2. Place(stage) \in 1..(Due(job) - 1)
  <2>1. Due(job) = Place(StageOf(job.pc))  BY <1>1 DEF Due
  <2>2. Place(stage) \in 1..8 /\ Place(StageOf(job.pc)) \in 1..8  BY <1>1, Places
  <2> QED  BY <2>1, <2>2
<1>3. PICK r \in Told : Place(r.stage) = Place(stage) /\ r.outcome # "failed"  BY <1>2 DEF GapInv, ToldOf
<1>4. r.stage \in Stages /\ r.outcome \in Outcomes  BY DEF GapInv
<1>5. r.stage = stage  BY <1>3, <1>4, Places
<1> QED  BY <1>3, <1>4, <1>5 DEF Outcomes

LEMMA ClosedNext ==
  ASSUME GapInv, BoundInv, TruthInv, AdmitInv, LifeInv, ClosedInv, [Next]_allVars
  PROVE  ClosedInv'
<1>0. JobOK /\ ExecOK /\ DOMAIN batch = BatchFields  BY DEF GapInv, BoundInv
<1>1. ASSUME batch' = batch, Told \subseteq Told' PROVE ClosedInv'  BY <1>1 DEF ClosedInv, Closed, Landed
<1>2. CASE Route \/ Retry \/ GiveUp \/ Rerun
  <2>1. batch' = batch /\ Told' = Told  BY <1>0, <1>2, ExecSteps DEF Told
  <2> QED  BY <1>1, <2>1
<1>3. CASE RecordRun
  <2>1. batch' = batch /\ Told \subseteq Told'  BY <1>3, Reporting DEF RecordRun
  <2> QED  BY <1>1, <2>1
<1>4. CASE job' = job /\ batch' = batch /\ ledger' = ledger
  <2>1. batch' = batch /\ Told' = Told  BY <1>4 DEF Told
  <2> QED  BY <1>1, <2>1
<1>5. CASE Staging
  <2>1. /\ job # None /\ ledger' = ledger /\ Grown
    BY <1>0, <1>5, StagingStep, StagingTells
  <2>2. Told' = Told  BY <2>1 DEF Told
  <2>3. batch.by \subseteq batch'.by
    <3>1. batch'.by = batch.by \/ batch' = [batch EXCEPT !.by = @ \cup {job.version}]  BY <1>0, <1>5, StagingBinds
    <3> QED  BY <1>0, <3>1 DEF BatchFields
  <2>4. Closed' => Closed \/ Complete  BY <1>0, <1>5, Closing
  <2>5. ASSUME Complete
        PROVE  batch.by # {} /\ (~Landed => \E r \in Told : r.stage = "land" /\ r.outcome = "ok")
    <3>1. job.pc = "tables" /\ job.pc \in Working  BY <2>5 DEF Complete, At, Working
    <3>2. batch.by # {}  BY <2>1, <3>1 DEF BoundInv, Starting
    <3>3. "land" \in Stages /\ Place("land") < Place(StageOf(job.pc))  BY <3>1, Places DEF StageOf
    <3>4. PICK r \in Told : r.stage = "land" /\ r.outcome \in {"ok", "skipped-guard"}  BY <2>1, <3>1, <3>3, ToldBefore
    <3>5. r.outcome = "skipped-guard" => Landed  BY <3>4 DEF TruthInv, Promise, Guard
    <3> QED  BY <3>2, <3>4, <3>5
  <2>6. Closed' => batch'.by # {} /\ (~Landed' => \E r \in Told' : r.stage = "land" /\ r.outcome = "ok")
    BY <2>1, <2>2, <2>3, <2>4, <2>5 DEF ClosedInv, Grown
  <2>7. batch'.announced # None => Closed'
    <3>1. CASE Publish
      <4>1. job.pc = "publish" /\ job.pc \in Working  BY <3>1 DEF Publish, At, Working
      <4>2. "commit" \in Stages /\ Place("commit") < Place(StageOf(job.pc))  BY <4>1, Places DEF StageOf
      <4>3. PICK r \in Told : r.stage = "commit" /\ r.outcome \in {"ok", "skipped-guard"}  BY <2>1, <4>1, <4>2, ToldBefore
      <4>4. Closed  BY <4>3 DEF TruthInv, Promise, Deed
      <4> QED  BY <2>1, <4>4 DEF Grown
    <3>2. CASE ~Publish
      <4>1. batch'.announced = batch.announced  BY <1>0, <1>5, <3>2, StagingWrites DEF BatchWrites
      <4> QED  BY <2>1, <4>1 DEF ClosedInv, Grown
    <3> QED  BY <3>1, <3>2
  <2> QED  BY <2>6, <2>7 DEF ClosedInv
<1> QED  BY <1>2, <1>3, <1>4, <1>5, StepKinds

\* A type of a spec whose passing candidates are facts, if there are any.
TypeDone(s, t) == s.fact_types[t].fact_table \in DOMAIN batch.facts \/ Passing(s, t) = {}

\* The facts of each type are the candidates that pass, each table has its own
\* type; and every type that commit has gone through is done.
FactsAre(s) ==
  \A t \in DOMAIN s.fact_types :
    LET table == s.fact_types[t].fact_table IN table \in DOMAIN batch.facts => batch.facts[table] = Passing(s, t)
Settled(s) ==
  /\ Exists(CoEffectTables(s)) /\ s.module.returns = DOMAIN s.fact_types
  /\ batch.preq = Judgment(s) /\ batch.postq = Dismissed(s)
  /\ \A t \in DOMAIN s.fact_types : TypeDone(s, t)
Tabled(s) ==
  job # None /\ job.pc = "tables" => \A t \in DOMAIN s.fact_types : t \in Elems(job.left) \/ TypeDone(s, t)

SteadyFacts ==
  ~Changed => \A s \in RunSpecs : NoReasonColumn(s) => FactsAre(s) /\ (Closed => Settled(s)) /\ Tabled(s)

LEMMA SameSayings ==
  ASSUME NEW s, RawRows(s)' = RawRows(s), Kept(s)' = Kept(s)
  PROVE  Judgment(s)' = Judgment(s) /\ Dismissed(s)' = Dismissed(s) /\ \A t : Passing(s, t)' = Passing(s, t)
<1>1. Judgment(s)' = Judgment(s) /\ ValidRows(s)' = ValidRows(s)  BY DEF Judgment, ValidRows
<1>2. Candidates(s)' = Candidates(s)  BY <1>1 DEF Candidates
<1> QED  BY <1>1, <1>2 DEF Dismissed, Passing

\* What is settled stays so, as long as nothing durable is taken back.
LEMMA SettledStays ==
  ASSUME NEW s, Settled(s), KeptOn(s), RawRows(s)' = RawRows(s), Grown, SteadyBatch(s)',
         DOMAIN batch.facts \subseteq DOMAIN batch'.facts
  PROVE  Settled(s)'
<1>1. Exists(CoEffectTables(s))' /\ Kept(s)' = Kept(s)  BY DEF KeptOn, Settled
<1>2. Judgment(s)' = Judgment(s) /\ Dismissed(s)' = Dismissed(s) /\ \A t : Passing(s, t)' = Passing(s, t)
  BY <1>1, SameSayings
<1>3. batch'.preq = Judgment(s)'
  <2>1. CASE batch'.preq = {}  BY <1>2, <2>1 DEF Grown, Settled
  <2>2. CASE batch'.preq # {}  BY <2>2 DEF SteadyBatch
  <2> QED  BY <2>1, <2>2
<1>4. batch'.postq = Dismissed(s)'
  <2>1. CASE batch'.postq = {}  BY <1>2, <2>1 DEF Grown, Settled
  <2>2. CASE batch'.postq # {}  BY <2>2 DEF SteadyBatch, Written
  <2> QED  BY <2>1, <2>2
<1>5. \A t \in DOMAIN s.fact_types : TypeDone(s, t)'  BY <1>2 DEF Settled, TypeDone
<1> QED  BY <1>1, <1>3, <1>4, <1>5 DEF Settled

LEMMA FactsStay ==
  ASSUME NEW s, SteadyBatch(s), FactsAre(s), KeptOn(s), batch'.facts = batch.facts,
         batch'.raw = batch.raw \/ DOMAIN batch.facts = {}
  PROVE  FactsAre(s)'
<1>1. CASE DOMAIN batch.facts = {}  BY <1>1 DEF FactsAre
<1>2. CASE DOMAIN batch.facts # {} /\ batch'.raw = batch.raw
  <2>1. Kept(s)' = Kept(s)  BY <1>2 DEF SteadyBatch, Written, KeptOn
  <2>2. \A t : Passing(s, t)' = Passing(s, t)  BY <1>2, <2>1, SameWords
  <2> QED  BY <2>2 DEF FactsAre
<1> QED  BY <1>1, <1>2

\* The rows of a closed batch are not landed once more: where an attempt found
\* none under a spec, no other does.
LEMMA RawStays ==
  ASSUME NEW s, job.spec = s, job # None, job.pc \notin Starting, JobOK, BoundInv, ClaimInv, ClosedInv, ~Changed, Closed, Staging
  PROVE  RawRows(s)' = RawRows(s)
<1>1. DOMAIN batch = BatchFields  BY DEF BoundInv
<1>2. CASE batch'.raw = batch.raw  BY <1>2 DEF RawRows
<1>3. CASE ~Landed /\ batch'.raw = read_objects(Objects, s)
  <2>1. Claims # {}
    <3>1. PICK r \in Told : r.stage = "land" /\ r.outcome = "ok"  BY <1>3 DEF ClosedInv
    <3> QED  BY <3>1 DEF Claims
  <2>2. PICK v \in batch.by : Empty(v)  BY <1>3, <2>1 DEF ClaimInv
  <2>3. s = scene.specs[v]  BY <2>2 DEF BoundInv, Changed, OneSpec, Starting
  <2>4. DOMAIN batch'.raw = {} /\ DOMAIN batch.raw = {}  BY <1>3, <2>2, <2>3 DEF Empty, Landed
  <2> QED  BY <2>4 DEF RawRows
<1>4. Land => batch'.raw = batch.raw \/ (~Landed /\ batch'.raw = read_objects(Objects, s))
  BY <1>1, LandEffect DEF BatchFields
<1> QED  BY <1>1, <1>2, <1>3, <1>4, StagingWrites DEF BatchWrites

\* Only these actions leave a job among the fact tables.
LEMMA TablesFrom ==
  ASSUME JobOK, Staging, job' # None, job'.pc = "tables"
  PROVE  OpenCommit \/ CommitTable
<1>1. job # None /\ Due(job') = Due(job) /\ DOMAIN job = JobFields  BY StagingStep DEF JobOK, RunningJob
<1>2. Due(job) = 6  BY <1>1, Places DEF Due, Starting, StageOf
<1>3. ~(Load \/ Describe \/ Bind)  BY StartEffect
<1>4. ~(EffectRaises \/ Die)  BY FaultEffect DEF FailedAs
<1>5. ~Complete  BY <1>1 DEF Complete, Ended, Report, JobFields
<1>6. ~(Land \/ Announce \/ PreCheck \/ Pull \/ Apply \/ PostCheck \/ OpenFold \/ FoldTable \/ EndFold \/ Publish)
  <2>1. ASSUME job.pc \in {"land", "announce", "pre_check", "pull", "apply", "post_check", "fold", "states", "publish"}
        PROVE  FALSE
    BY <1>2, <2>1, Places DEF Due, Starting, StageOf
  <2> QED  BY <2>1 DEF Land, Announce, PreCheck, Pull, Apply, PostCheck, OpenFold, FoldTable, EndFold, Publish, At
<1> QED  BY <1>3, <1>4, <1>5, <1>6 DEF Staging

\* What a job has judged that goes through the fact tables.
LEMMA AtTables ==
  ASSUME NEW s, SteadyJob(s), job # None, job.pc = "tables"
  PROVE  /\ Exists(CoEffectTables(s)) /\ s.module.returns = DOMAIN s.fact_types
         /\ batch.preq = Judgment(s) /\ batch.postq = Dismissed(s)
         /\ NoReasonColumn(s) => \A t \in DOMAIN s.fact_types : Elems(job.admitted[t]) = Passing(s, t)
<1>1. job.pc # "record" /\ job.pc \notin Starting /\ StageOf(job.pc) = "commit"  BY DEF Starting, StageOf
<1>2. \A stage \in {"pre_check", "pull", "apply", "post_check"} : Past(stage)  BY <1>1, Places, PastAt
<1> QED  BY <1>2 DEF SteadyJob

LEMMA FactsCommit ==
  ASSUME NEW s, job.spec = s, SteadyBatch(s), SteadyJob(s), FactsAre(s), Tabled(s), NoReasonColumn(s),
         JobOK, BoundInv, AdmitInv, LifeInv, CommitTable
  PROVE  FactsAre(s)' /\ Tabled(s)'
<1> DEFINE head == Head(job.left)
           table == Current.fact_table
<1>1. /\ job # None /\ job.pc = "tables" /\ job.left # <<>> /\ DOMAIN job = JobFields /\ DOMAIN batch = BatchFields
      /\ Staging
  BY DEF CommitTable, At, JobOK, RunningJob, BoundInv, Staging
<1>2. job.left \in Seq(DOMAIN s.fact_types) /\ head \in DOMAIN s.fact_types /\ table = s.fact_types[head].fact_table
  <2>1. job.left \in Seq(DOMAIN s.fact_types)  BY <1>1 DEF AdmitInv, JobAdmits, Starting
  <2>2. head \in DOMAIN s.fact_types  BY <1>1, <2>1, TailLeft
  <2> QED  BY <2>1, <2>2 DEF Current
<1>3. \A t \in DOMAIN s.fact_types : s.fact_types[t].fact_table = table => t = head
  <2>1. TablesDistinct(s)  BY <1>1 DEF LifeInv, Parses
  <2>2. ASSUME NEW t \in DOMAIN s.fact_types, s.fact_types[t].fact_table = table PROVE t = head
    <3>1. <<t, "fact">> \in Homes(s) /\ <<head, "fact">> \in Homes(s)  BY <1>2, <2>2 DEF Homes
    <3>2. HomeTable(s, <<t, "fact">>) = HomeTable(s, <<head, "fact">>)  BY <1>2, <2>2 DEF HomeTable
    <3>3. <<t, "fact">> = <<head, "fact">>  BY <2>1, <3>1, <3>2 DEF TablesDistinct
    <3> QED  BY <3>3
  <2> QED  BY <2>2
<1>4. novel_facts(job.admitted[head]) = Passing(s, head)  BY <1>1, <1>2, AtTables DEF novel_facts
<1>5. Kept(s)' = Kept(s) /\ batch'.raw = batch.raw
  <2>1. catalog' = catalog  BY <1>1, StagingCatalog
  <2>2. KeptOn(s)  BY <2>1, CoEffectsStay
  <2>3. ~Land  BY <1>1 DEF Land, At
  <2> QED  BY <1>1, <2>2, <2>3, AtTables, StagingWrites DEF KeptOn, BatchWrites
<1>6. \A t : Passing(s, t)' = Passing(s, t)  BY <1>5, SameWords
<1>7. \/ /\ table \in DOMAIN batch.facts /\ batch'.facts = batch.facts
         /\ job'.left = Tail(job.left)
      \/ batch'.facts = batch.facts /\ job'.pc = "record"
      \/ Passing(s, head) = {} /\ batch'.facts = batch.facts /\ job'.left = Tail(job.left)
      \/ batch'.facts = batch.facts /\ job' = job
      \/ batch'.facts = Put(batch.facts, table, Passing(s, head)) /\ job'.left = Tail(job.left)
  <2>1. \A t : Mark(t) => batch'.facts = batch.facts  BY <1>1 DEF Mark, BatchFields
  <2>2. \A f : batch' = [batch EXCEPT !.facts = f] => batch'.facts = f  BY <1>1 DEF BatchFields
  <2> QED  BY <1>1, <1>4, <2>1, <2>2, LateEffect DEF FailedAs
<1> HIDE DEF table, head
<1>8. FactsAre(s)'
  <2>1. CASE batch'.facts = batch.facts  BY <1>6, <2>1 DEF FactsAre
  <2>2. CASE batch'.facts = Put(batch.facts, table, Passing(s, head))
    <3>1. ASSUME NEW t \in DOMAIN s.fact_types, s.fact_types[t].fact_table \in DOMAIN batch'.facts
          PROVE  batch'.facts[s.fact_types[t].fact_table] = Passing(s, t)
      <4>1. CASE s.fact_types[t].fact_table = table  BY <1>3, <2>2, <3>1, <4>1 DEF Put
      <4>2. CASE s.fact_types[t].fact_table # table  BY <2>2, <3>1, <4>2 DEF Put, FactsAre
      <4> QED  BY <4>1, <4>2
    <3> QED  BY <1>6, <3>1 DEF FactsAre
  <2> QED  BY <1>7, <2>1, <2>2
<1>9. Tabled(s)'
  <2>1. SUFFICES ASSUME job'.pc = "tables", NEW t \in DOMAIN s.fact_types
                 PROVE  t \in Elems(job'.left) \/ TypeDone(s, t)'
    BY DEF Tabled
  <2>2. t \in Elems(job.left) \/ TypeDone(s, t)  BY <1>1 DEF Tabled
  <2>3. TypeDone(s, t) => TypeDone(s, t)'  BY <1>6, <1>7 DEF TypeDone, Put
  <2>4. t \in Elems(job.left) => t = head \/ t \in Elems(Tail(job.left))
    BY <1>1, <1>2, ListedLater DEF head
  <2>5. job' = job \/ (job'.left = Tail(job.left) /\ (t = head => TypeDone(s, t)'))
    BY <1>2, <1>6, <1>7, <2>1 DEF TypeDone, Put
  <2> QED  BY <2>2, <2>3, <2>4, <2>5
<1> QED  BY <1>8, <1>9

LEMMA FactsGrow ==
  ASSUME JobOK, DOMAIN batch = BatchFields, Staging
  PROVE  DOMAIN batch.facts \subseteq DOMAIN batch'.facts
<1>1. CASE CommitTable
  <2>1. job.pc = "tables"  BY <1>1 DEF CommitTable, At
  <2>2. \/ batch'.facts = batch.facts
        \/ batch'.facts = Put(batch.facts, Current.fact_table, novel_facts(job.admitted[Head(job.left)]))
    <3>1. \A t : Mark(t) => batch'.facts = batch.facts  BY DEF Mark, BatchFields
    <3>2. \A f : batch' = [batch EXCEPT !.facts = f] => batch'.facts = f  BY DEF BatchFields
    <3> QED  BY <1>1, <2>1, <3>1, <3>2, LateEffect
  <2> QED  BY <2>2 DEF Put
<1>2. CASE ~CommitTable  BY <1>2, StagingWrites DEF BatchWrites
<1> QED  BY <1>1, <1>2

\* A stage under the spec that the batch has run under.
LEMMA FactsWork ==
  ASSUME NEW s, job # None, job.pc \notin Starting, job.spec = s, NoReasonColumn(s), SteadyBatch(s), SteadyBatch(s)',
         SteadyJob(s), FactsAre(s), Closed => Settled(s), Tabled(s), ~Changed, Staging,
         JobOK, BoundInv, ClaimInv, AdmitInv, LifeInv, ClosedInv
  PROVE  FactsAre(s)' /\ (Closed' => Settled(s)') /\ (job' # None => Tabled(s)')
<1>1. DOMAIN batch = BatchFields /\ Grown  BY StagingTells DEF BoundInv
<1>2. KeptOn(s)
  <2>1. catalog' = catalog  BY StagingCatalog
  <2> QED  BY <2>1, CoEffectsStay
<1>3. FactsAre(s)'
  <2>1. CASE CommitTable  BY <2>1, FactsCommit
  <2>2. CASE ~CommitTable
    <3>1. batch'.facts = batch.facts  BY <1>1, <2>2, StagingWrites DEF BatchWrites
    <3>2. batch'.raw = batch.raw \/ DOMAIN batch.facts = {}
      <4>1. Land => batch'.raw = batch.raw \/ ~Landed  BY LandEffect
      <4>2. ~Landed => DOMAIN batch.facts = {}  BY DEF AdmitInv, BatchAdmitted
      <4> QED  BY <1>1, <4>1, <4>2, StagingWrites DEF BatchWrites
    <3> QED  BY <1>2, <3>1, <3>2, FactsStay
  <2> QED  BY <2>1, <2>2
<1>4. ASSUME Closed' PROVE Settled(s)'
  <2>1. Closed \/ Complete  BY <1>4, Closing
  <2>2. Settled(s) /\ RawRows(s)' = RawRows(s)
    <3>1. CASE Closed  BY <3>1, RawStays
    <3>2. CASE Complete
      <4>1. job.pc = "tables" /\ job.left = <<>>  BY <3>2 DEF Complete, At
      <4>2. \A t \in DOMAIN s.fact_types : TypeDone(s, t)  BY <4>1 DEF Tabled, Elems
      <4>3. Settled(s)  BY <4>1, <4>2, AtTables DEF Settled
      <4>4. ~Land  BY <4>1 DEF Land, At
      <4>5. batch'.raw = batch.raw  BY <1>1, <4>4, StagingWrites DEF BatchWrites
      <4> QED  BY <4>3, <4>5 DEF RawRows
    <3> QED  BY <2>1, <3>1, <3>2
  <2>3. DOMAIN batch.facts \subseteq DOMAIN batch'.facts  BY <1>1, FactsGrow
  <2> QED  BY <1>1, <1>2, <2>2, <2>3, SettledStays
<1>5. ASSUME job' # None PROVE Tabled(s)'
  <2>1. CASE job'.pc # "tables"  BY <2>1 DEF Tabled
  <2>2. CASE CommitTable  BY <2>2, FactsCommit
  <2>3. CASE OpenCommit /\ job'.pc = "tables"
    <3>1. DOMAIN job = JobFields  BY DEF JobOK, RunningJob
    <3>2. job'.left = Types(s)  BY <2>3, <3>1 DEF OpenCommit, Raised, Report, JobFields
    <3>3. Elems(Types(s)) = DOMAIN s.fact_types  BY TypesListed DEF Starting
    <3> QED  BY <3>2, <3>3 DEF Tabled
  <2> QED  BY <1>5, <2>1, <2>2, <2>3, TablesFrom
<1> QED  BY <1>3, <1>4, <1>5

\* The same for the steps before the stages, of which the last binds the spec.
LEMMA FactsStart ==
  ASSUME NEW s, Staging, job.pc \in Starting, JobOK, BoundInv, AdmitInv, LifeInv, SteadyBatch(s)', KeptOn(s),
         \/ SteadyBatch(s) /\ FactsAre(s) /\ (Closed => Settled(s))
         \/ ~Written /\ ~Closed
  PROVE  FactsAre(s)' /\ (Closed' => Settled(s)') /\ (job' # None => Tabled(s)')
<1>1. DOMAIN batch = BatchFields /\ Grown  BY StagingTells DEF BoundInv
<1>2. ~Land /\ ~CommitTable /\ ~Complete /\ ~OpenCommit  BY DEF Land, CommitTable, Complete, OpenCommit, At, Starting
<1>3. batch'.raw = batch.raw /\ batch'.facts = batch.facts /\ batch'.markers = batch.markers
  BY <1>1, <1>2, StagingWrites DEF BatchWrites
<1>4. Closed' = Closed /\ RawRows(s)' = RawRows(s)  BY <1>3 DEF Closed, RawRows
<1>5. job' # None => Tabled(s)'  BY <1>2, TablesFrom DEF Tabled
<1>6. CASE SteadyBatch(s) /\ FactsAre(s) /\ (Closed => Settled(s))
  <2>1. FactsAre(s)'  BY <1>3, <1>6, FactsStay
  <2>2. Closed' => Settled(s)'  BY <1>1, <1>3, <1>4, <1>6, SettledStays
  <2> QED  BY <1>5, <2>1, <2>2
<1>7. CASE ~Written /\ ~Closed
  <2>1. FactsAre(s)'  BY <1>3, <1>7 DEF FactsAre, Written
  <2> QED  BY <1>4, <1>5, <1>7, <2>1
<1> QED  BY <1>6, <1>7

LEMMA SteadyFactsNext ==
  ASSUME GapInv, BoundInv, TruthInv, ClaimInv, AdmitInv, LifeInv, CatalogInv, ExecTypes, Steady, Steady', ClosedInv,
         SteadyFacts, [Next]_allVars
  PROVE  SteadyFacts'
<1>0. JobOK /\ ExecOK /\ DOMAIN batch = BatchFields  BY DEF GapInv, BoundInv
<1>1. SUFFICES ASSUME ~Changed', NEW s \in RunSpecs', NoReasonColumn(s)
               PROVE  FactsAre(s)' /\ (Closed' => Settled(s)') /\ Tabled(s)'
  BY DEF SteadyFacts
<1>2. ~Changed /\ ~Refresh  BY <1>0, <1>1, ChangedStays
<1>3. KeptOn(s)  BY <1>2, RowsStay, CoEffectsStay
<1>4. SteadyBatch(s)' /\ scene' = scene  BY <1>1, WorldSteps DEF Steady
<1>5. s \in RunSpecs => SteadyBatch(s) /\ FactsAre(s) /\ (Closed => Settled(s)) /\ Tabled(s)
  BY <1>1, <1>2 DEF Steady, SteadyFacts
<1>6. ASSUME batch' = batch PROVE s \in RunSpecs /\ FactsAre(s)' /\ (Closed' => Settled(s)')
  <2>1. s \in RunSpecs  BY <1>1, <1>4, <1>6 DEF RunSpecs
  <2>2. FactsAre(s)'  BY <1>3, <1>5, <1>6, <2>1, FactsStay
  <2>3. Closed' = Closed /\ RawRows(s)' = RawRows(s)  BY <1>6 DEF Closed, RawRows
  <2>4. Closed' => Settled(s)'  BY <1>3, <1>4, <1>5, <1>6, <2>1, <2>3, SameBatch, SettledStays
  <2> QED  BY <2>1, <2>2, <2>4
<1>7. CASE Route \/ Retry \/ GiveUp \/ Rerun
  <2>1. batch' = batch /\ (job' = Fresh \/ job' = None)  BY <1>0, <1>7, ExecSteps
  <2>2. Tabled(s)'  BY <2>1 DEF Tabled, Fresh
  <2> QED  BY <1>6, <2>1, <2>2
<1>8. CASE Staging
  <2>1. job # None  BY <1>0, <1>8, StagingStep
  <2>2. FactsAre(s)' /\ (Closed' => Settled(s)') /\ (job' # None => Tabled(s)')
    <3>1. CASE job.pc \in Starting
      <4>1. batch.by \subseteq batch'.by
        <5>1. batch'.by = batch.by \/ batch' = [batch EXCEPT !.by = @ \cup {job.version}]  BY <1>0, <1>8, StagingBinds
        <5> QED  BY <1>0, <5>1 DEF BatchFields
      <4>2. batch.by # {} => s \in RunSpecs
        <5>1. \A v, w \in batch'.by : v = w  BY <1>1 DEF Changed, OneSpec
        <5> QED  BY <1>1, <1>4, <4>1, <5>1 DEF RunSpecs
      <4>3. batch.by = {} => ~Written /\ ~Closed  BY DEF Steady, ClosedInv
      <4> QED  BY <1>0, <1>3, <1>4, <1>5, <1>8, <3>1, <4>2, <4>3, FactsStart
    <3>2. CASE job.pc \notin Starting
      <4>1. RunSpecs = {job.spec}  BY <1>2, <2>1, <3>2, SameSpec
      <4>2. batch'.by = batch.by  BY <1>0, <1>8, <3>2, StagingBinds DEF Starting
      <4>3. s = job.spec  BY <1>1, <1>4, <4>1, <4>2 DEF RunSpecs
      <4>4. SteadyJob(s) /\ SteadyBatch(s) /\ FactsAre(s) /\ (Closed => Settled(s)) /\ Tabled(s)
        BY <1>2, <1>5, <2>1, <3>2, <4>1, <4>3 DEF Steady
      <4> QED  BY <1>0, <1>1, <1>2, <1>4, <1>8, <2>1, <3>2, <4>3, <4>4, FactsWork
    <3> QED  BY <3>1, <3>2
  <2> QED  BY <2>2 DEF Tabled
<1>9. CASE RecordRun
  <2>1. batch' = batch  BY <1>9 DEF RecordRun
  <2>2. job' # None => job'.pc # "tables"
    <3>1. SUFFICES ASSUME job' # None PROVE job'.pc # "tables"  OBVIOUS
    <3> DEFINE p == job.pending
    <3>2. /\ job # None /\ job.pc = "record" /\ p.outcome # "failed" /\ ~(p.stage = "publish" /\ p.outcome = "ok")
          /\ job' = [job EXCEPT !.pc = Following(p.stage), !.pending = None]
      BY <1>9, <3>1 DEF RecordRun, At
    <3>3. DOMAIN job = JobFields /\ p.stage \in Stages /\ p.outcome \in Outcomes /\ (p.outcome = "skipped-guard" => p.stage \in Guarded)
      BY <1>0, <3>2 DEF JobOK, RunningJob, PendingOK
    <3>4. job'.pc = Following(p.stage)  BY <3>2, <3>3 DEF JobFields
    <3>5. p.stage # "publish"  BY <3>2, <3>3 DEF Guarded, Outcomes
    <3>6. Following(p.stage) \in Stages  BY <3>3, <3>5, FollowingPlace
    <3> QED  BY <3>4, <3>6, Places
  <2>3. Tabled(s)'  BY <2>2 DEF Tabled
  <2> QED  BY <1>6, <2>1, <2>3
<1>10. CASE job' = job /\ batch' = batch
  <2>1. Tabled(s)'
    <3>1. SUFFICES ASSUME job # None, job.pc = "tables", NEW t \in DOMAIN s.fact_types
                   PROVE  t \in Elems(job.left) \/ TypeDone(s, t)'
      BY <1>10 DEF Tabled
    <3>2. s \in RunSpecs /\ job.pc \notin Starting  BY <1>6, <1>10, <3>1 DEF Starting
    <3>3. SteadyJob(s)  BY <1>2, <3>1, <3>2 DEF Steady
    <3>4. Kept(s)' = Kept(s)  BY <1>3, <3>1, <3>3, AtTables DEF KeptOn
    <3>5. Passing(s, t)' = Passing(s, t)  BY <1>10, <3>4, SameWords
    <3> QED  BY <1>5, <1>10, <3>1, <3>2, <3>5 DEF Tabled, TypeDone
  <2> QED  BY <1>6, <1>10, <2>1
<1> QED  BY <1>7, <1>8, <1>9, <1>10, StepKinds

LEMMA InvFacts == Spec => [](BoundInv /\ ClosedInv /\ SteadyFacts)
<1>1. Init => ClosedInv /\ SteadyFacts
  <2> SUFFICES ASSUME Init PROVE ClosedInv /\ SteadyFacts  OBVIOUS
  <2>1. batch.markers = {} /\ batch.announced = None /\ batch.by = {}  BY DEF Init
  <2>2. ~Closed /\ RunSpecs = {}  BY <2>1 DEF Closed, RunSpecs
  <2> QED  BY <2>1, <2>2 DEF ClosedInv, SteadyFacts
<1>2. GapInv /\ BoundInv /\ TruthInv /\ AdmitInv /\ LifeInv /\ ClosedInv /\ [Next]_allVars => ClosedInv'
  BY ClosedNext
<1>3. GapInv /\ BoundInv /\ TruthInv /\ ClaimInv /\ AdmitInv /\ LifeInv /\ CatalogInv /\ ExecTypes /\ Steady /\ Steady'
      /\ ClosedInv /\ SteadyFacts /\ [Next]_allVars => SteadyFacts'
  BY SteadyFactsNext
<1> QED  BY <1>1, <1>2, <1>3, InvTruth, InvLife, InvCatalog, InvTypes, InvSteady, PTL DEF Spec

\* A row that the contract passes is a candidate of every type, at its place.
LEMMA ValidRowIsCandidate ==
  ASSUME NEW s, NEW l \in DOMAIN batch.raw, l \notin Locators(Judgment(s)), s.module.returns = DOMAIN s.fact_types,
         NEW t \in DOMAIN s.fact_types
  PROVE  LET c == apply(typed_projection(RawRows(s), s), s)[t][l]
         IN l \in DOMAIN Candidates(s)[t] /\ Candidates(s)[t][l] = c
<1> DEFINE raw == RawRows(s)
           all == typed_projection(raw, s)
           valid == typed_projection(ValidRows(s), s)
<1>1. DOMAIN raw = DOMAIN batch.raw  BY DEF RawRows
<1>2. evaluate(raw[l], s) = {}
  <2>1. l \notin DOMAIN violations(raw, s)  BY ShapedLocators DEF Judgment
  <2> HIDE DEF raw
  <2> QED  BY <1>1, <2>1 DEF violations, Restrict
<1>3. l \in DOMAIN ValidRows(s) /\ ValidRows(s)[l] = raw[l]
  <2>1. ValidRows(s) = zero_failures(raw, s)  BY DEF ValidRows
  <2> HIDE DEF raw
  <2> QED  BY <1>1, <1>2, <2>1 DEF zero_failures, Restrict
<1>4. l \in DOMAIN valid /\ l \in DOMAIN all /\ valid[l] = all[l]
  <2> HIDE DEF raw
  <2> QED  BY <1>1, <1>3 DEF typed_projection
<1> HIDE DEF all, valid
<1>5. l \in DOMAIN apply(valid, s)[t] /\ apply(valid, s)[t][l] = apply(all, s)[t][l]
  BY <1>4 DEF apply
<1> QED  BY <1>5 DEF Candidates, all, valid, raw

LEMMA AnnouncedAccounted ==
  ASSUME BoundInv, ClosedInv, SteadyFacts
  PROVE  RowsAccounted
<1> DEFINE factsOf(s, t) == LET f == s.fact_types[t].fact_table IN IF f \in DOMAIN batch.facts THEN batch.facts[f] ELSE {}
           refused == {q.row_hash : q \in batch.postq}
<1>1. SUFFICES ASSUME batch.announced # None, ~Changed, ReasonsApart, NEW s, s = scene.specs[CHOOSE v \in batch.by : TRUE],
                      NEW l \in DOMAIN batch.raw, l \notin Locators(batch.preq), NEW t \in DOMAIN s.fact_types
               PROVE  LET c == apply(typed_projection(RawRows(s), s), s)[t][l]
                      IN (candidate_row_hash(c, t) \in refused) # (c \in factsOf(s, t))
  BY DEF RowsAccounted
<1>2. s \in RunSpecs
  <2>1. batch.by # {}  BY <1>1 DEF ClosedInv
  <2> QED  BY <1>1, <2>1 DEF RunSpecs
<1>3. FactsAre(s) /\ Settled(s) /\ NoReasonColumn(s)  BY <1>1, <1>2 DEF SteadyFacts, ClosedInv, ReasonsApart
<1>4. PICK c : c = apply(typed_projection(RawRows(s), s), s)[t][l]  OBVIOUS
<1>5. l \in DOMAIN Candidates(s)[t] /\ Candidates(s)[t][l] = c
  BY <1>1, <1>3, <1>4, ValidRowIsCandidate DEF Settled
<1>6. c \in Elems(Candidates(s)[t])  BY <1>5 DEF Elems
<1>7. factsOf(s, t) = Passing(s, t)  BY <1>3 DEF FactsAre, Settled, TypeDone
<1>8. Elems(hash_subtraction(Candidates(s)[t], t, batch.postq)) = Passing(s, t)
  <2>1. Framed(Candidates(s), s)  BY <1>3, CandidatesFramed DEF Candidates, Settled
  <2>2. batch.postq = DismissedOf(Candidates(s), s, Kept(s))  BY <1>3 DEF Settled, Dismissed
  <2>3. Elems(hash_subtraction(Candidates(s)[t], t, batch.postq)) = PassingOf(Candidates(s), s, t, Kept(s))
    BY <1>3, <2>1, <2>2, PostDoorsAgree
  <2> QED  BY <2>3 DEF Passing
<1>9. hash_subtraction(Candidates(s)[t], t, batch.postq) =
        [k \in {i \in DOMAIN Candidates(s)[t] : candidate_row_hash(Candidates(s)[t][i], t) \notin refused} |-> Candidates(s)[t][k]]
  BY DEF hash_subtraction, Restrict
<1> HIDE DEF factsOf, refused
<1>10. c \in Elems(hash_subtraction(Candidates(s)[t], t, batch.postq)) <=> candidate_row_hash(c, t) \notin refused
  BY <1>5, <1>9 DEF Elems
<1>11. (candidate_row_hash(c, t) \in refused) # (c \in factsOf(s, t))
  <2>1. c \in factsOf(s, t) <=> candidate_row_hash(c, t) \notin refused  BY <1>7, <1>8, <1>10
  <2>2. (c \in factsOf(s, t)) \in BOOLEAN /\ (candidate_row_hash(c, t) \in refused) \in BOOLEAN  OBVIOUS
  <2> QED  BY <2>1, <2>2
<1> QED  BY <1>4, <1>11

\* A batch announced under one spec, with its co-effects unchanged, has a
\* single place for every row it landed, wherever its attempts were cut off:
\* quarantined before the transforms, or of each fact type either quarantined
\* after them or a fact.  RowsAccounted excepts specs with a fact column of the
\* name of a column of reasons: it is overwritten in what is quarantined, so
\* that the hash which is written is not that of the candidate.
THEOREM EachRowHasItsPlace == Spec => []RowsAccounted
<1>1. BoundInv /\ ClosedInv /\ SteadyFacts => RowsAccounted
  BY AnnouncedAccounted
<1> QED  BY <1>1, InvFacts, PTL

-------------------------------------------------------------------------------
\* What the text of a spec may not do to a stage

\* The contract leaves no row out and takes none twice.
LEMMA PreIdentity ==
  ASSUME NEW raw, IsFiniteSet(DOMAIN raw), NEW s
  PROVE  CountIdentity(raw, zero_failures(raw, s), violations(raw, s))
<1> DEFINE Z == DOMAIN zero_failures(raw, s)
           V == DOMAIN violations(raw, s)
<1>1. Z \cap V = {} /\ Z \cup V = DOMAIN raw  BY Verdicts
<1> HIDE DEF Z, V
<1>2. IsFiniteSet(Z) /\ IsFiniteSet(V)  BY <1>1, FS_Subset
<1>3. Cardinality(Z \cup V) = Cardinality(Z) + Cardinality(V) - Cardinality(Z \cap V)  BY <1>2, FS_Union
<1>4. Cardinality(Z \cap V) = 0  BY <1>1, FS_EmptySet
<1>5. Cardinality(Z) \in Nat /\ Cardinality(V) \in Nat  BY <1>2, FS_CardinalityType
<1>6. Cardinality(DOMAIN raw) = Cardinality(Z) + Cardinality(V)  BY <1>1, <1>3, <1>4, <1>5
<1> QED  BY <1>6 DEF CountIdentity, Z, V

\* The checks of a type that join are well formed.
JoinsOK(s) ==
  \A c \in Elems(s.checks) :
    /\ CheckModelOK(c)
    /\ {c.columns, c.ref_columns} \subseteq Seq(Elems(c.columns) \cup Elems(c.ref_columns))

\* A membership check compares as many columns as it has references, so that a
\* candidate meets one distinct tuple at most.
LEMMA OneMatch ==
  ASSUME NEW c, CheckModelOK(c), c.kind = "membership",
         {c.columns, c.ref_columns} \subseteq Seq(Elems(c.columns) \cup Elems(c.ref_columns)), NEW row, NEW ref,
         NEW u \in join_membership_marker(row, c, ref), NEW v \in join_membership_marker(row, c, ref)
  PROVE  u = v
<1>1. DOMAIN c.columns = DOMAIN c.ref_columns
  <2>1. Len(c.columns) = Len(c.ref_columns)  BY DEF CheckModelOK
  <2> QED  BY <2>1
<1>2. \A x \in RefMatches(row, c, ref) : x = [i \in DOMAIN c.ref_columns |-> row[c.columns[i]]]
  <2> TAKE x \in RefMatches(row, c, ref)
  <2>1. x \in RefTuples(c, ref) /\ \A i \in DOMAIN c.columns : row[c.columns[i]] = x[i]  BY DEF RefMatches
  <2>2. PICK r \in Elems(ref) : x = [i \in DOMAIN c.ref_columns |-> r[c.ref_columns[i]]]  BY <2>1 DEF RefTuples
  <2> QED  BY <1>1, <2>1, <2>2
<1> QED  BY <1>2 DEF join_membership_marker

\* The checks leave no candidate out and take none twice.
LEMMA PostIdentity ==
  ASSUME NEW cands, IsFiniteSet(DOMAIN cands), NEW s, JoinsOK(s), NEW t, NEW co
  PROVE  CountIdentity(cands, admitted_candidates(cands, s, t, co), business_violations(cands, s, t, co))
<1> DEFINE marks(row, i) == join_membership_marker(row, s.checks[i], co[s.checks[i].co_effect])
           choices(row) == {m \in [Memberships(s, t) -> UNION {marks(row, i) : i \in Memberships(s, t)}] :
                              \A i \in Memberships(s, t) : m[i] \in marks(row, i)}
           all == evaluated(cands, s, t, co)
           passed == {q \in DOMAIN all : BusinessFailures(all[q], s, t, co) = {}}
           failed == {q \in DOMAIN all : BusinessFailures(all[q], s, t, co) # {}}
<1>1. DOMAIN all = UNION {{l} \X choices(cands[l]) : l \in DOMAIN cands}  BY DEF evaluated
<1>2. ASSUME NEW row, NEW m \in choices(row), NEW n \in choices(row) PROVE m = n
  <2>1. ASSUME NEW i \in Memberships(s, t) PROVE m[i] = n[i]
    <3>1. i \in DOMAIN s.checks /\ s.checks[i].kind = "membership"
      BY <2>1 DEF Memberships, compile_business_checks, EntryOfCheck, ImplicitCheck
    <3>2. s.checks[i] \in Elems(s.checks)  BY <3>1 DEF Elems
    <3>3. m[i] \in marks(row, i) /\ n[i] \in marks(row, i)  BY <1>2, <2>1
    <3> QED  BY <3>1, <3>2, <3>3, OneMatch DEF JoinsOK
  <2> HIDE DEF marks
  <2> QED  BY <1>2, <2>1
<1> HIDE DEF choices
<1>3. \A q, r \in DOMAIN all : q[1] = r[1] => q = r
  <2> TAKE q, r \in DOMAIN all
  <2> HAVE q[1] = r[1]
  <2>1. PICK k \in DOMAIN cands : q \in {k} \X choices(cands[k])  BY <1>1
  <2>2. PICK l \in DOMAIN cands : r \in {l} \X choices(cands[l])  BY <1>1
  <2>3. k = l /\ q = <<k, q[2]>> /\ r = <<l, r[2]>> /\ q[2] \in choices(cands[k]) /\ r[2] \in choices(cands[k])
    BY <2>1, <2>2
  <2> QED  BY <1>2, <2>3
<1>4. /\ \A q \in DOMAIN all : q[1] \in DOMAIN cands
      /\ \A l \in DOMAIN cands : \E q \in DOMAIN all : q[1] = l
  BY Evaluates
<1> DEFINE D == DOMAIN all
           f == [l \in DOMAIN cands |-> CHOOSE q \in D : q[1] = l]
<1> HIDE DEF all
<1>5. f \in Bijection(DOMAIN cands, D)
  <2>1. \A l \in DOMAIN cands : f[l] \in D /\ f[l][1] = l  BY <1>4
  <2>2. f \in [DOMAIN cands -> D]  BY <2>1
  <2>3. \A q \in D : f[q[1]] = q  BY <1>3, <1>4, <2>1
  <2> HIDE DEF f
  <2>4. f \in Injection(DOMAIN cands, D)  BY <2>1, <2>2 DEF Injection, IsInjective
  <2>5. f \in Surjection(DOMAIN cands, D)  BY <1>4, <2>2, <2>3 DEF Surjection
  <2> QED  BY <2>4, <2>5 DEF Bijection
<1>6. IsFiniteSet(D) /\ Cardinality(D) = Cardinality(DOMAIN cands)
  <2>1. ExistsBijection(DOMAIN cands, D)  BY <1>5 DEF ExistsBijection
  <2> QED  BY <2>1, FS_Bijection
<1>7. passed \cap failed = {} /\ passed \cup failed = D  OBVIOUS
<1>8. /\ DOMAIN admitted_candidates(cands, s, t, co) = passed
      /\ DOMAIN business_violations(cands, s, t, co) = failed
  BY DEF admitted_candidates, business_violations, Restrict, all
<1> HIDE DEF passed, failed, D
<1>9. IsFiniteSet(passed) /\ IsFiniteSet(failed)  BY <1>6, <1>7, FS_Subset
<1>10. Cardinality(passed \cup failed) = Cardinality(passed) + Cardinality(failed) - Cardinality(passed \cap failed)
  BY <1>9, FS_Union
<1>11. Cardinality(passed \cap failed) = 0  BY <1>7, FS_EmptySet
<1>12. Cardinality(passed) \in Nat /\ Cardinality(failed) \in Nat  BY <1>9, FS_CardinalityType
<1>13. Cardinality(D) = Cardinality(passed) + Cardinality(failed) - 0  BY <1>7, <1>10, <1>11, Zenon
<1>14. Cardinality(DOMAIN cands) = Cardinality(passed) + Cardinality(failed)  BY <1>6, <1>12, <1>13
<1> QED  BY <1>8, <1>14 DEF CountIdentity

\* What the doors before the first stage leave true of a spec: of the tables
\* that were described for it, while it is bound; afterwards, that its
\* co-effects are there and its checks resolve.
Described(s) ==
  \A t \in referenced_tables(s) :
    job.facts[t] # None => t \in DOMAIN catalog /\ DOMAIN job.facts[t].columns \subseteq DOMAIN catalog[t].columns
Resolves(s) == Exists(CoEffectTables(s)) /\ ChecksCompile(s)
PlainNames == \A u \in Elems(exec.detail.object_uris) : u.name \notin BadObjectNames

ProbedInv ==
  /\ exec.status # "none" => exec.detail \in scene.details
  /\ job # None =>
       /\ job.pc # "load" => EngineProbes(job.spec) /\ PlainNames
       /\ \A s \in Elems(scene.specs) : job.spec = s =>
            /\ job.pc = "bind" => Described(s)
            /\ job.pc \notin Starting => Resolves(s)

\* Of the checks that join, every co-effect is declared.
LEMMA JoinsDeclared ==
  ASSUME NEW s, Parses(s), NEW c \in Elems(s.checks), c.kind = "membership"
  PROVE  /\ c.co_effect \in DOMAIN s.co_effects
         /\ s.co_effects[c.co_effect].table \in CoEffectTables(s)
         /\ s.co_effects[c.co_effect].columns # None =>
              Elems(c.ref_columns) \subseteq s.co_effects[c.co_effect].columns
<1>1. MembershipBindsTo(s, c)  BY DEF Parses, ChecksBind
<1> QED  BY <1>1 DEF MembershipBindsTo, CoEffectTables

LEMMA BindResolves ==
  ASSUME NEW s, Parses(s), EngineProbes(s), Described(s), NEW committed,
         validate_bindings(s, job.facts, inventory, committed)
  PROVE  Resolves(s)
<1>1. ASSUME NEW a \in DOMAIN s.co_effects
      PROVE  LET d == s.co_effects[a]
             IN /\ d.table \in referenced_tables(s) /\ job.facts[d.table] # None
                /\ d.columns # None => d.columns \subseteq DOMAIN job.facts[d.table].columns
  BY DEF validate_bindings, CoEffectBinds, referenced_tables, CoEffectTables
<1>2. Exists(CoEffectTables(s))  BY <1>1 DEF Exists, CoEffectTables, Described
<1>3. ASSUME NEW c \in Elems(s.checks), c.kind = "membership"
      PROVE  Elems(c.ref_columns) \subseteq DOMAIN catalog[s.co_effects[c.co_effect].table].columns
  <2> DEFINE d == s.co_effects[c.co_effect]
  <2>1. c.co_effect \in DOMAIN s.co_effects /\ (d.columns # None => Elems(c.ref_columns) \subseteq d.columns)
    BY <1>3, JoinsDeclared
  <2>2. MembershipRefsExist(s, c, job.facts)  BY <1>3 DEF validate_bindings
  <2>3. Elems(c.ref_columns) \subseteq DOMAIN job.facts[d.table].columns
    BY <1>1, <2>1, <2>2 DEF MembershipRefsExist
  <2>4. DOMAIN job.facts[d.table].columns \subseteq DOMAIN catalog[d.table].columns
    BY <1>1, <2>1 DEF Described
  <2> QED  BY <2>3, <2>4
<1>4. CheckExpressionsCompile(s)  BY DEF EngineProbes
<1> QED  BY <1>2, <1>3, <1>4 DEF Resolves, ChecksCompile

\* Nothing that the catalog gains makes a check fail.
LEMMA ResolvesStays ==
  ASSUME NEW s, Parses(s), Resolves(s), Grows
  PROVE  Resolves(s)'
<1>1. ASSUME NEW t \in CoEffectTables(s)
      PROVE  t \in DOMAIN catalog' /\ DOMAIN catalog[t].columns \subseteq DOMAIN catalog'[t].columns
  BY <1>1 DEF Resolves, Exists, Grows
<1>2. Exists(CoEffectTables(s))'  BY <1>1 DEF Exists
<1>3. ASSUME NEW c \in Elems(s.checks), c.kind = "membership"
      PROVE  Elems(c.ref_columns) \subseteq DOMAIN catalog'[s.co_effects[c.co_effect].table].columns
  <2>1. Elems(c.ref_columns) \subseteq DOMAIN catalog[s.co_effects[c.co_effect].table].columns
    BY <1>3 DEF Resolves, ChecksCompile
  <2>2. s.co_effects[c.co_effect].table \in CoEffectTables(s)  BY <1>3, JoinsDeclared
  <2> QED  BY <1>1, <2>1, <2>2
<1>4. CheckExpressionsCompile(s)  BY DEF Resolves, ChecksCompile
<1> QED  BY <1>2, <1>3, <1>4 DEF Resolves, ChecksCompile

LEMMA DescribedStays ==
  ASSUME NEW s, Described(s), Grows, job'.facts = job.facts
  PROVE  Described(s)'
<1>1. ASSUME NEW t \in DOMAIN catalog
      PROVE  t \in DOMAIN catalog' /\ DOMAIN catalog[t].columns \subseteq DOMAIN catalog'[t].columns
  BY DEF Grows
<1> QED  BY <1>1 DEF Described

LEMMA ProbedStaging ==
  ASSUME ProbedInv, JobOK, BoundInv, LifeInv, Staging, Grows
  PROVE  ProbedInv'
<1>0. /\ job # None /\ DOMAIN job = JobFields /\ DOMAIN batch = BatchFields /\ exec' = exec /\ scene' = scene
  BY StagingStep, StagingBinds DEF JobOK, RunningJob, BoundInv
<1>1. catalog' = catalog  BY StagingCatalog
<1>2. ASSUME job' # None
      PROVE  /\ job'.pc # "load" /\ EngineProbes(job'.spec) /\ PlainNames'
             /\ \A s \in Elems(scene.specs) : job'.spec = s =>
                  /\ job'.pc = "bind" => Described(s)'
                  /\ job'.pc \notin Starting => Resolves(s)'
  <2>1. CASE job.pc \in Starting
    <3>1. ~(EffectRaises \/ Die)  BY <1>2, <2>1, FaultEffect DEF Starting, Working
    <3>2. Load \/ Describe \/ Bind
      BY <2>1, <3>1
      DEF Staging, Starting, Land, Announce, PreCheck, Pull, Apply, PostCheck, OpenCommit, CommitTable, Complete,
          OpenFold, FoldTable, EndFold, Publish, At
    <3>3. \/ /\ job.pc = "load" /\ job'.pc = "describe" /\ job'.spec = DeployedSpec /\ LoadOK(from_args(Argv))
          \/ /\ job.pc = "describe" /\ But({"pc", "facts"}, job, job') /\ job'.pc = "bind"
             /\ job'.facts = CatalogFacts(job.spec, catalog)
          \/ /\ job.pc = "bind" /\ But({"pc"}, job, job') /\ job'.pc = "land"
             /\ validate_bindings(job.spec, job.facts, inventory, committed_tables(job.spec))
      BY <1>2, <3>2, StartEffect
    <3>4. CASE job.pc = "load"
      <4>1. LoadOK(from_args(Argv)) /\ job'.pc = "describe" /\ job'.spec = DeployedSpec  BY <3>3, <3>4
      <4>2. EngineProbes(DeployedSpec) /\ check_object_uris(exec.detail, from_args(Argv)["landing-bucket"])
        BY <4>1 DEF LoadOK
      <4>3. PlainNames  BY <4>2 DEF PlainNames, check_object_uris
      <4>4. PlainNames'  BY <1>0, <4>3 DEF PlainNames
      <4> QED  BY <4>1, <4>2, <4>4 DEF Starting
    <3>5. CASE job.pc \in {"describe", "bind"}
      <4>1. job'.spec = job.spec /\ job'.pc \in {"bind", "land"}  BY <1>0, <3>3, <3>5 DEF But, JobFields
      <4>2. EngineProbes(job.spec) /\ PlainNames  BY <1>0, <3>5 DEF ProbedInv
      <4>3. PlainNames'  BY <1>0, <4>2 DEF PlainNames
      <4>4. ASSUME NEW s \in Elems(scene.specs), job'.spec = s
            PROVE  /\ job'.pc = "bind" => Described(s)'
                   /\ job'.pc \notin Starting => Resolves(s)'
        <5>1. CASE job.pc = "describe"
          <6>1. job'.facts = CatalogFacts(s, catalog) /\ job'.pc = "bind"  BY <3>3, <4>1, <4>4, <5>1
          <6>2. Described(s)'  BY <1>1, <6>1 DEF Described, CatalogFacts
          <6> QED  BY <6>1, <6>2 DEF Starting
        <5>2. CASE job.pc = "bind"
          <6>1. validate_bindings(s, job.facts, inventory, committed_tables(s)) /\ job'.pc = "land"
            BY <3>3, <4>1, <4>4, <5>2
          <6>2. Parses(s) /\ EngineProbes(s) /\ Described(s)
            BY <1>0, <4>1, <4>2, <4>4, <5>2 DEF LifeInv, ProbedInv
          <6>3. Resolves(s)  BY <6>1, <6>2, BindResolves
          <6>4. Resolves(s)'  BY <6>2, <6>3, ResolvesStays
          <6> QED  BY <6>1, <6>4
        <5> QED  BY <3>5, <5>1, <5>2
      <4> QED  BY <4>1, <4>2, <4>3, <4>4
    <3> QED  BY <2>1, <3>4, <3>5 DEF Starting
  <2>2. CASE job.pc \notin Starting
    <3>1. job'.spec = job.spec /\ job'.pc \in Working \cup {"record"}
      BY <1>0, <1>2, <2>2, StagingBinds DEF Starting
    <3>2. EngineProbes(job.spec) /\ PlainNames /\ Parses(job.spec)
      BY <1>0, <2>2 DEF ProbedInv, LifeInv, Starting
    <3>3. PlainNames'  BY <1>0, <3>2 DEF PlainNames
    <3>4. ASSUME NEW s \in Elems(scene.specs), job'.spec = s PROVE Resolves(s)'
      <4>1. Resolves(s)  BY <1>0, <2>2, <3>1, <3>4 DEF ProbedInv
      <4> QED  BY <3>1, <3>2, <3>4, <4>1, ResolvesStays
    <3>5. job'.pc \notin {"load", "bind"}  BY <3>1 DEF Working
    <3> QED  BY <3>1, <3>2, <3>3, <3>4, <3>5
  <2> QED  BY <2>1, <2>2
<1> QED  BY <1>0, <1>2 DEF ProbedInv

LEMMA ProbedNext ==
  ASSUME GapInv, BoundInv, LifeInv, CatalogInv, ProbedInv, [Next]_allVars
  PROVE  ProbedInv'
<1>0. JobOK /\ ExecOK /\ Grows /\ scene' = scene  BY CatalogStep, WorldSteps DEF GapInv
<1>1. CASE Route
  <2>1. exec'.detail \in scene.details /\ (job' = Fresh \/ job' = None)  BY <1>1 DEF Route, Idle
  <2>2. job' # None => job'.pc = "load"  BY <2>1 DEF Fresh
  <2> QED  BY <1>0, <2>1, <2>2 DEF ProbedInv, Starting
<1>2. CASE Retry \/ GiveUp \/ Rerun
  <2>1. (job' = Fresh \/ job' = None) /\ exec.status # "none" /\ exec'.detail = exec.detail
    BY <1>0, <1>2 DEF Retry, GiveUp, Rerun, ExecOK
  <2>2. job' # None => job'.pc = "load"  BY <2>1 DEF Fresh
  <2> QED  BY <1>0, <2>1, <2>2 DEF ProbedInv, Starting
<1>3. CASE Staging  BY <1>0, <1>3, ProbedStaging
<1>4. CASE RecordRun
  <2>1. /\ job # None /\ job.pc = "record" /\ (exec' = exec \/ exec' = [exec EXCEPT !.status = "succeeded"])
        /\ \/ job' = None
           \/ /\ job.pending.outcome # "failed"
              /\ ~(job.pending.stage = "publish" /\ job.pending.outcome = "ok")
              /\ job' = [job EXCEPT !.pc = Following(job.pending.stage), !.pending = None]
    BY <1>4 DEF RecordRun, At
  <2>2. exec'.detail = exec.detail /\ exec.status = "running"  BY <1>0, <2>1 DEF ExecOK, JobOK
  <2>3. DOMAIN job = JobFields /\ job.pending.stage \in Stages /\ PendingOK(job.pending, job.skips) /\ job.skips \subseteq Guarded
    BY <1>0, <2>1 DEF JobOK, RunningJob, PendingOK
  <2>4. ASSUME job' # None PROVE job'.pc \in Working /\ job'.spec = job.spec
    <3>1. job' = [job EXCEPT !.pc = Following(job.pending.stage), !.pending = None] /\ job.pending.stage # "publish"
      BY <2>1, <2>3, <2>4 DEF PendingOK, Outcomes, Guarded
    <3>2. Following(job.pending.stage) \in Working  BY <2>3, <3>1, FollowingPlace
    <3> QED  BY <2>3, <3>1, <3>2 DEF JobFields
  <2>5. EngineProbes(job.spec) /\ PlainNames /\ Parses(job.spec)  BY <2>1 DEF ProbedInv, LifeInv
  <2>6. PlainNames'  BY <2>2, <2>5 DEF PlainNames
  <2>7. ASSUME NEW s \in Elems(scene.specs), job.spec = s PROVE Resolves(s)'
    <3>1. Resolves(s)  BY <2>1, <2>7 DEF ProbedInv, Starting
    <3> QED  BY <1>0, <2>5, <2>7, <3>1, ResolvesStays
  <2> QED  BY <1>0, <2>2, <2>4, <2>5, <2>6, <2>7 DEF ProbedInv, Working
<1>5. CASE job' = job /\ exec' = exec
  <2>1. PlainNames' <=> PlainNames  BY <1>5 DEF PlainNames
  <2>2. ASSUME job # None, NEW s \in Elems(scene.specs), job.spec = s
        PROVE  /\ job.pc = "bind" => Described(s)'
               /\ job.pc \notin Starting => Resolves(s)'
    <3>1. job.pc # "load" => Parses(s)  BY <2>2 DEF LifeInv
    <3>2. job.pc = "bind" => Described(s)  BY <2>2 DEF ProbedInv
    <3>3. job.pc \notin Starting => Resolves(s)  BY <2>2 DEF ProbedInv
    <3> QED  BY <1>0, <1>5, <3>1, <3>2, <3>3, DescribedStays, ResolvesStays DEF Starting
  <2> QED  BY <1>0, <1>5, <2>1, <2>2 DEF ProbedInv
<1> QED  BY <1>1, <1>2, <1>3, <1>4, <1>5, StepKinds

-------------------------------------------------------------------------------
\* What is counted is finite

FiniteInv ==
  /\ IsFiniteSet(DOMAIN batch.raw)
  /\ job # None /\ Past("apply") => \A t \in DOMAIN job.spec.fact_types : IsFiniteSet(DOMAIN job.cands[t])

LEMMA FiniteStaging ==
  ASSUME FiniteInv, ProbedInv, AdmitInv, JobOK, BoundInv, Staging
  PROVE  FiniteInv'
<1>0. /\ job # None /\ DOMAIN job = JobFields /\ DOMAIN batch = BatchFields /\ "apply" \in Stages /\ "pre_check" \in Stages
  BY StagingStep, Places DEF JobOK, RunningJob, BoundInv
<1>1. IsFiniteSet(DOMAIN batch'.raw)
  <2>1. CASE Land
    <3>1. \/ batch' = batch
          \/ /\ read_objects(Objects, job.spec) # None
             /\ batch' = [batch EXCEPT !.raw = read_objects(Objects, job.spec)]
      BY <2>1, LandEffect
    <3>2. ASSUME read_objects(Objects, job.spec) # None PROVE IsFiniteSet(DOMAIN read_objects(Objects, job.spec))
      <4>1. job.pc = "land" /\ exec.status = "running"  BY <1>0, <2>1 DEF Land, At, JobOK
      <4>2. job.spec \in Elems(scene.specs) /\ scene \in Scenes  BY <1>0, <4>1 DEF BoundInv, Elems
      <4>3. exec.detail \in scene.details /\ PlainNames  BY <1>0, <4>1 DEF ProbedInv
      <4> QED  BY <3>2, <4>2, <4>3, DataAssumption DEF Objects, PlainNames
    <3> QED  BY <1>0, <3>1, <3>2 DEF FiniteInv, BatchFields
  <2>2. CASE ~Land
    <3>1. batch'.raw = batch.raw  BY <1>0, <2>2, StagingWrites DEF BatchWrites
    <3> QED  BY <3>1 DEF FiniteInv
  <2> QED  BY <2>1, <2>2
<1>2. ASSUME job' # None, Past("apply")', NEW t \in DOMAIN job'.spec.fact_types PROVE IsFiniteSet(DOMAIN job'.cands[t])
  <2>1. Past("apply") \/ Apply  BY <1>0, <1>2, PastStaging, Places DEF Ends
  <2>2. job.pc \in Working /\ job'.spec = job.spec
    <3>1. job.pc \notin Starting
      <4>1. CASE Apply  BY <4>1 DEF Apply, At, Starting
      <4>2. CASE Past("apply")
        <5>1. job.pc # "record" \/ job.pc \notin Starting  BY DEF Starting
        <5> QED  BY <1>0, <4>2, <5>1, NotPast
      <4> QED  BY <2>1, <4>1, <4>2
    <3> QED  BY <1>0, <1>2, <3>1, StagingBinds DEF Starting
  <2>3. CASE Apply
    <3>1. job.pc = "apply"  BY <2>3 DEF Apply, At
    <3>2. \/ FailedAs("apply", {"transforms"}, job, job')
          \/ /\ assert_return_shape(job.spec)
             /\ EndedAs("apply", [job EXCEPT !.cands = apply(job.valid, job.spec)], job')
      BY <2>3, <3>1, MidEffect
    <3>3. ~FailedAs("apply", {"transforms"}, job, job')
      <4>1. SUFFICES ASSUME FailedAs("apply", {"transforms"}, job, job') PROVE FALSE  OBVIOUS
      <4>2. job'.pc = "record" /\ job'.pending.stage = "apply" /\ job'.pending.outcome = "failed"  BY <4>1 DEF FailedAs
      <4> QED  BY <1>0, <1>2, <4>2, PassedByEnd
    <3>4. job'.cands = apply(job.valid, job.spec)  BY <1>0, <3>2, <3>3 DEF EndedAs, But, JobFields
    <3>5. t \in job.spec.module.returns  BY <1>2, <2>2, <3>2, <3>3 DEF assert_return_shape
    <3>6. DOMAIN job'.cands[t] = DOMAIN job.valid  BY <3>4, <3>5 DEF apply
    <3>7. Past("pre_check")  BY <1>0, <3>1, Places, PastAt DEF Starting, StageOf
    <3>8. DOMAIN job.valid \subseteq DOMAIN batch.raw  BY <1>0, <3>7 DEF AdmitInv, JobAdmits, Partition
    <3> QED  BY <3>6, <3>8, FS_Subset DEF FiniteInv
  <2>4. CASE ~Apply
    <3>1. job'.cands = job.cands  BY <1>0, <1>2, <2>4, StagingWrites DEF JobWrites
    <3> QED  BY <1>0, <1>2, <2>1, <2>2, <2>4, <3>1 DEF FiniteInv
  <2> QED  BY <2>3, <2>4
<1> QED  BY <1>1, <1>2 DEF FiniteInv

LEMMA FiniteNext ==
  ASSUME GapInv, BoundInv, AdmitInv, ProbedInv, FiniteInv, [Next]_allVars
  PROVE  FiniteInv'
<1>0. JobOK /\ ExecOK  BY DEF GapInv
<1>1. CASE Route \/ Retry \/ GiveUp \/ Rerun
  <2>1. batch' = batch /\ (job' = Fresh \/ job' = None)  BY <1>0, <1>1, ExecSteps
  <2>2. job' # None => ~Past("apply")'
    <3>1. SUFFICES ASSUME job' # None PROVE ~Past("apply")'  OBVIOUS
    <3>2. job' = Fresh  BY <2>1, <3>1
    <3>3. job'.pc = "load" /\ Due(job') = 1  BY <3>2, FreshJob DEF Fresh
    <3> QED  BY <3>3, Places DEF Past
  <2> QED  BY <2>1, <2>2 DEF FiniteInv
<1>2. CASE Staging  BY <1>0, <1>2, FiniteStaging
<1>3. CASE RecordRun
  <2>1. /\ job # None /\ batch' = batch
        /\ job' = None \/ job' = [job EXCEPT !.pc = Following(job.pending.stage), !.pending = None]
    BY <1>3 DEF RecordRun, At
  <2>2. DOMAIN job = JobFields  BY <1>0, <2>1 DEF JobOK, RunningJob
  <2>3. job' # None => (Past("apply")' <=> Past("apply")) /\ job'.spec = job.spec /\ job'.cands = job.cands
    BY <1>0, <1>3, <2>1, <2>2, Places, PastRecord DEF JobFields
  <2> QED  BY <2>1, <2>3 DEF FiniteInv
<1>4. CASE job' = job /\ batch' = batch
  <2>1. Past("apply")' <=> Past("apply")  BY <1>4 DEF Past, Due
  <2> QED  BY <1>4, <2>1 DEF FiniteInv
<1> QED  BY <1>1, <1>2, <1>3, <1>4, StepKinds

-------------------------------------------------------------------------------
\* What a stage gives as the cause of its failure

\* A candidate that the checks passed has a domain id, so that commit finds no
\* fact without one in a table of the expected columns.
LEMMA StructureHolds ==
  ASSUME NEW s, job.spec = s, SteadyJob(s), NoReasonColumn(s), JobOK, AdmitInv, job # None, job.pc = "tables",
         job.left # <<>>, Writable(Current.fact_table, fact_and_state_columns(Current))
  PROVE  structural_fact_check(job.admitted[Head(job.left)], Current, catalog[Current.fact_table])
<1> DEFINE head == Head(job.left)
<1>1. head \in DOMAIN s.fact_types /\ Current = s.fact_types[head]
  <2>1. job.left \in Seq(DOMAIN s.fact_types)  BY DEF AdmitInv, JobAdmits, Starting
  <2>2. head \in DOMAIN s.fact_types  BY <2>1, TailLeft
  <2> QED  BY <2>2 DEF Current
<1>2. Elems(job.admitted[head]) = Passing(s, head)  BY <1>1, AtTables
<1>3. ASSUME NEW r \in Passing(s, head) PROVE r[s.fact_types[head].domain_id_col] # None
  <2>1. BusinessFailures(r, s, head, Kept(s)) = {}  BY <1>3 DEF Passing, PassingOf
  <2>2. 0 \in compile_business_checks(s, head)  BY DEF compile_business_checks
  <2>3. EntryOfCheck(s, 0) = ImplicitCheck /\ ImplicitCheck.kind = "implicit"  BY DEF EntryOfCheck, ImplicitCheck
  <2>4. ~BusinessFails(ImplicitCheck, r, s, head, Kept(s))  BY <2>1, <2>2, <2>3 DEF BusinessFailures
  <2> QED  BY <2>3, <2>4 DEF BusinessFails
<1>4. StampedColumns(Current) = DOMAIN catalog[Current.fact_table].columns
  BY DEF Writable, fact_and_state_columns, StampedColumns
<1> QED  BY <1>1, <1>2, <1>3, <1>4 DEF structural_fact_check

CauseInv ==
  job # None /\ job.pc = "record" =>
    /\ job.pending.cause \notin {"spec", "identity"}
    /\ job.pending.cause = "structure" => Changed \/ ~ReasonsApart

\* What a report may give as a cause, told from how the stage ended.
LEMMA FailedCause ==
  ASSUME NEW stage, NEW causes, NEW j, NEW k, FailedAs(stage, causes, j, k)
  PROVE  k.pending.cause \in causes
  BY DEF FailedAs
LEMMA EndedCause ==
  ASSUME NEW stage, NEW j, NEW k, EndedAs(stage, j, k) \/ \E skip, drift : DoorAs(stage, skip, drift, j, k)
  PROVE  k.pending.cause = None
  BY DEF EndedAs, DoorAs

Blameless == job'.pending.cause \notin {"spec", "identity", "structure"}

LEMMA PreCheckCause ==
  ASSUME JobOK, BoundInv, ProbedInv, FiniteInv, PreCheck
  PROVE  Blameless
<1>1. job # None /\ job.pc = "pre_check"  BY PreCheckEffect
<1>2. PatternsCompile(job.spec) /\ FmtsCompile(job.spec)  BY <1>1 DEF ProbedInv, EngineProbes
<1>3. DOMAIN RawRows(job.spec) = DOMAIN batch.raw  BY DEF RawRows
<1>4. CountIdentity(RawRows(job.spec), zero_failures(RawRows(job.spec), job.spec), violations(RawRows(job.spec), job.spec))
  BY <1>3, PreIdentity DEF FiniteInv
<1>5. \/ FailedAs("pre_check", {"tables"}, job, job')
      \/ \E j : \E skip, drift : DoorAs("pre_check", skip, drift, j, job')
  BY <1>2, <1>4, PreCheckEffect
<1> QED  BY <1>5, FailedCause, EndedCause, CausesAssumption DEF Blameless

LEMMA PostCheckCause ==
  ASSUME JobOK, BoundInv, LifeInv, ProbedInv, FiniteInv, PostCheck
  PROVE  Blameless
<1> DEFINE s == job.spec
<1>1. job # None /\ job.pc = "post_check"  BY PostCheckEffect
<1>2. s \in Elems(scene.specs) /\ Parses(s) /\ scene \in Scenes  BY <1>1 DEF BoundInv, LifeInv, Elems
<1>3. ChecksCompile(s)  BY <1>1, <1>2 DEF ProbedInv, Resolves, Starting
<1>4. JoinsOK(s)  BY <1>2, DataAssumption DEF JoinsOK, Parses, ChecksOK
<1>5. Past("apply")  BY <1>1, Places, PastAt DEF Starting, StageOf
<1>6. ASSUME NEW t \in DOMAIN s.fact_types
      PROVE  CountIdentity(job.cands[t], admitted_candidates(job.cands[t], s, t, job.co),
                           business_violations(job.cands[t], s, t, job.co))
  BY <1>1, <1>4, <1>5, PostIdentity DEF FiniteInv
<1>7. \E j : \E skip, drift : DoorAs("post_check", skip, drift, j, job')
  BY <1>3, <1>6, PostCheckEffect
<1> QED  BY <1>7, EndedCause, CausesAssumption DEF Blameless

LEMMA CommitCause ==
  ASSUME JobOK, BoundInv, AdmitInv, Steady, CommitTable, job' # None, job'.pc = "record"
  PROVE  job'.pending.cause \in {"tables", "structure"}
         /\ (job'.pending.cause = "structure" => Changed \/ ~ReasonsApart)
<1>1. job # None /\ job.pc = "tables" /\ job.left # <<>> /\ DOMAIN job = JobFields
  BY DEF CommitTable, At, JobOK, RunningJob
<1>2. /\ ~structural_fact_check(job.admitted[Head(job.left)], Current, catalog[Current.fact_table])
      /\ FailedAs("commit", IF Writable(Current.fact_table, fact_and_state_columns(Current))
                            THEN {"structure"} ELSE {"tables"}, job, job')
  BY <1>1, LateEffect DEF But, JobFields
<1>3. ASSUME job'.pending.cause = "structure", ReasonsApart, ~Changed PROVE FALSE
  <2>1. PICK s : s = job.spec  OBVIOUS
  <2>2. job.pc \notin Starting /\ RunSpecs = {s}  BY <1>1, <1>3, <2>1, SameSpec DEF Starting
  <2>3. SteadyJob(s) /\ NoReasonColumn(s)  BY <1>1, <1>3, <2>2 DEF Steady, ReasonsApart
  <2>4. Writable(Current.fact_table, fact_and_state_columns(Current))  BY <1>2, <1>3, FailedCause
  <2> QED  BY <1>1, <1>2, <2>1, <2>3, <2>4, StructureHolds
<1>4. job'.pending.cause \in {"tables", "structure"}  BY <1>2, FailedCause
<1> QED  BY <1>3, <1>4

LEMMA CauseStaging ==
  ASSUME JobOK, BoundInv, AdmitInv, LifeInv, Steady, ProbedInv, FiniteInv, Staging, job' # None, job'.pc = "record"
  PROVE  Blameless \/ CommitTable
<1>1. ASSUME Load \/ Describe \/ Bind PROVE FALSE  BY <1>1, StartEffect
<1>2. ASSUME Land PROVE Blameless
  <2>1. FailedAs("land", {"tables", "objects"}, job, job')  BY <1>2, LandEffect
  <2> QED  BY <2>1, FailedCause DEF Blameless
<1>3. ASSUME Announce \/ Pull \/ Apply \/ OpenCommit \/ OpenFold PROVE Blameless
  <2>1. \/ \E stage \in Stages : \E j : EndedAs(stage, j, job')
        \/ \E stage \in Stages : FailedAs(stage, {"tables", "transforms"}, job, job')
    BY <1>3, MidEffect, Places DEF FailedAs
  <2> QED  BY <2>1, FailedCause, EndedCause, CausesAssumption DEF Blameless
<1>4. ASSUME Complete \/ FoldTable \/ EndFold \/ Publish PROVE Blameless
  <2>1. job # None /\ DOMAIN job = JobFields /\ job.pc # "record"
    BY <1>4 DEF Complete, FoldTable, EndFold, Publish, At, JobOK, RunningJob
  <2>2. \/ \E stage : EndedAs(stage, job, job')
        \/ FailedAs("fold", {"tables"}, job, job')
    BY <1>4, <2>1, LateEffect DEF But, JobFields, Complete, FoldTable, EndFold, Publish, At
  <2> QED  BY <2>2, FailedCause, EndedCause, CausesAssumption DEF Blameless
<1>5. ASSUME EffectRaises \/ Die PROVE Blameless
  <2>1. FailedAs(StageOf(job.pc), {"fault"}, job, job')  BY <1>5, FaultEffect
  <2> QED  BY <2>1, FailedCause DEF Blameless
<1> QED  BY <1>1, <1>2, <1>3, <1>4, <1>5, PreCheckCause, PostCheckCause DEF Staging

LEMMA CauseNext ==
  ASSUME GapInv, BoundInv, AdmitInv, LifeInv, ExecTypes, Steady, ProbedInv, FiniteInv, CauseInv, [Next]_allVars
  PROVE  CauseInv'
<1>0. JobOK /\ ExecOK /\ scene' = scene /\ DOMAIN batch = BatchFields  BY WorldSteps DEF GapInv, BoundInv
<1>1. SUFFICES ASSUME job' # None, job'.pc = "record"
               PROVE  /\ job'.pending.cause \notin {"spec", "identity"}
                      /\ job'.pending.cause = "structure" => Changed' \/ ~ReasonsApart'
  BY DEF CauseInv
<1>2. ~Changed' => ~Changed  BY <1>0, ChangedStays
<1>3. CASE Route \/ Retry \/ GiveUp \/ Rerun
  <2>1. job' = Fresh \/ job' = None  BY <1>0, <1>3, ExecSteps
  <2> QED  BY <1>1, <2>1 DEF Fresh
<1>4. CASE Staging
  <2>1. CASE Blameless  BY <2>1 DEF Blameless
  <2>2. CASE CommitTable
    <3>1. job # None /\ job.pc \notin Starting  BY <2>2 DEF CommitTable, At, Starting
    <3>2. batch'.by = batch.by  BY <1>0, <1>1, <1>4, <2>2, <3>1, StagingBinds DEF Starting
    <3>3. RunSpecs' = RunSpecs  BY <1>0, <3>2 DEF RunSpecs
    <3>4. ReasonsApart' = ReasonsApart  BY <3>3 DEF ReasonsApart
    <3> QED  BY <1>0, <1>1, <1>2, <2>2, <3>4, CommitCause
  <2> QED  BY <1>0, <1>1, <1>4, <2>1, <2>2, CauseStaging
<1>5. CASE RecordRun
  <2>1. /\ job # None /\ job.pc = "record" /\ job.pending.outcome # "failed"
        /\ ~(job.pending.stage = "publish" /\ job.pending.outcome = "ok")
        /\ job' = [job EXCEPT !.pc = Following(job.pending.stage), !.pending = None]
    BY <1>1, <1>5 DEF RecordRun, At
  <2>2. DOMAIN job = JobFields /\ job.pending.stage \in Stages /\ PendingOK(job.pending, job.skips) /\ job.skips \subseteq Guarded
    BY <1>0, <2>1 DEF JobOK, RunningJob, PendingOK
  <2>3. job.pending.stage # "publish"  BY <2>1, <2>2 DEF PendingOK, Outcomes, Guarded
  <2>4. Following(job.pending.stage) \in Working  BY <2>2, <2>3, FollowingPlace
  <2> QED  BY <1>1, <2>1, <2>2, <2>4 DEF JobFields, Working
<1>6. CASE job' = job /\ batch' = batch
  <2>1. RunSpecs' = RunSpecs  BY <1>0, <1>6 DEF RunSpecs
  <2>2. ReasonsApart' = ReasonsApart  BY <2>1 DEF ReasonsApart
  <2> QED  BY <1>1, <1>2, <1>6, <2>2 DEF CauseInv
<1> QED  BY <1>3, <1>4, <1>5, <1>6, StepKinds

LEMMA InvCause == Spec => [](TableTypes /\ CauseInv)
<1>1. Init => ProbedInv /\ FiniteInv /\ CauseInv
  <2> SUFFICES ASSUME Init PROVE ProbedInv /\ FiniteInv /\ CauseInv  OBVIOUS
  <2>1. exec.status = "none" /\ job = None /\ DOMAIN batch.raw = {}  BY DEF Init, Idle
  <2> QED  BY <2>1, FS_EmptySet DEF ProbedInv, FiniteInv, CauseInv
<1>2. GapInv /\ BoundInv /\ LifeInv /\ CatalogInv /\ ProbedInv /\ [Next]_allVars => ProbedInv'  BY ProbedNext
<1>3. GapInv /\ BoundInv /\ AdmitInv /\ ProbedInv /\ FiniteInv /\ [Next]_allVars => FiniteInv'  BY FiniteNext
<1>4. GapInv /\ BoundInv /\ AdmitInv /\ LifeInv /\ ExecTypes /\ Steady /\ ProbedInv /\ FiniteInv /\ CauseInv
      /\ [Next]_allVars => CauseInv'
  BY CauseNext
<1> QED  BY <1>1, <1>2, <1>3, <1>4, InvLife, InvCatalog, InvTypes, InvSteady, PTL DEF Spec

\* A misconfiguration never half-starts a batch (design 006.1, P-4): whatever
\* the spec says that could fail a stage is refused before the first one, a
\* stage neither loses nor repeats a row it counts, and commit finds no fact
\* out of form as long as one spec ran, unless a fact column is named like a
\* column of reasons (as in EachRowHasItsPlace).
THEOREM SpecNeverFailsAStage == Spec => []NoSpecFailsAStage
<1>1. ASSUME TableTypes, CauseInv PROVE NoSpecFailsAStage
  <2>1. job # None /\ job.pending # None => job.pc = "record"  BY <1>1 DEF TableTypes
  <2> QED  BY <1>1, <2>1 DEF CauseInv, NoSpecFailsAStage
<1> QED  BY <1>1, InvCause, PTL

-------------------------------------------------------------------------------
\* What the engine makes of an accepted check

\* A fact type gives its columns families.
LEMMA ColumnFamilies == \A ft : SchemaTyped(FamilyMap(ft))
BY DEF SchemaTyped, FamilyMap, family_of_kind, Fams, Families

\* Of every row check that a running spec has, the engine reads only declared
\* columns and coerces nothing between families (the subject of a simple CASE
\* excepted): the walk over the tree finds each column it reads, and where the
\* walk is well, the types that it and the engine assign agree.
THEOREM GrammarIsSound == Spec => []GrammarSound
<1>1. ASSUME BoundInv, LifeInv, TableTypes PROVE GrammarSound
  <2> SUFFICES ASSUME job # None, job.spec # None, NEW c \in Elems(job.spec.checks), c.kind = "row", ~SimpleCase(c.expr)
               PROVE  /\ EngineReads(c.expr) \subseteq Declared(job.spec.fact_types[c.fact_type].columns)
                      /\ EngineCoercesNothing(c.expr, FamilyMap(job.spec.fact_types[c.fact_type]))
    BY DEF GrammarSound
  <2> DEFINE ft == job.spec.fact_types[c.fact_type]
  <2>1. job.pc # "load"  BY <1>1 DEF TableTypes
  <2>2. Parses(job.spec) /\ scene \in Scenes /\ job.spec \in Elems(scene.specs)  BY <1>1, <2>1 DEF BoundInv, LifeInv, Elems
  <2>3. Parsed(c.expr)  BY <2>2, ExpressionsAssumption
  <2>4. RowCheckBindsTo(job.spec, c)  BY <2>2 DEF Parses, ChecksBind
  <2>5. /\ validate_expression(c.expr, "scalar", FamilyMap(ft)).ok
        /\ validate_expression(c.expr, "scalar", FamilyMap(ft)).columns \subseteq Declared(ft.columns)
    BY <2>4 DEF RowCheckBindsTo
  <2>6. SchemaTyped(FamilyMap(ft))  BY ColumnFamilies
  <2> HIDE DEF ft
  <2>7. /\ EngineReads(c.expr) \subseteq validate_expression(c.expr, "scalar", FamilyMap(ft)).columns
        /\ EngineCoercesNothing(c.expr, FamilyMap(ft))
    BY <2>3, <2>5, <2>6, AcceptedIsSound
  <2>8. EngineReads(c.expr) \subseteq Declared(ft.columns)  BY <2>5, <2>7
  <2> QED  BY <2>7, <2>8 DEF ft
<1> QED  BY <1>1, InvTruth, InvTypes, PTL

-------------------------------------------------------------------------------
\* The machine of an execution

\* The machine was found by the slug of the pipeline, of a delivery whose
\* pipeline is of the grammar.
MachineInv ==
  exec.machine # None =>
    LET p == exec.detail.pipeline
    IN exec.machine = slug(p) /\ PipelineOK(p) /\ p \in Seq(Elems(p))

LEMMA MachineNext == ASSUME ExecOK, JobOK, BoundInv, MachineInv, [Next]_allVars PROVE MachineInv'
<1>1. CASE Route
  <2>1. PICK d \in scene.details :
          exec' = IF Routable(d)
                  THEN [status |-> "running", detail |-> d, machine |-> slug(d.pipeline), try |-> 1, rerun |-> 0]
                  ELSE [Idle EXCEPT !.status = "refused", !.detail = d]
    BY <1>1 DEF Route
  <2>2. d.pipeline \in Seq(Elems(d.pipeline))  BY SceneAssumption DEF BoundInv
  <2>3. CASE Routable(d)
    <3>1. exec'.machine = slug(d.pipeline) /\ exec'.detail = d  BY <2>1, <2>3
    <3>2. PipelineOK(d.pipeline)  BY <2>3 DEF Routable
    <3> QED  BY <2>2, <3>1, <3>2 DEF MachineInv
  <2>4. CASE ~Routable(d)
    <3>1. exec'.machine = None  BY <2>1, <2>4 DEF Idle
    <3> QED  BY <3>1 DEF MachineInv
  <2> QED  BY <2>3, <2>4
<1>2. CASE exec'.machine = exec.machine /\ exec'.detail = exec.detail
  BY <1>2 DEF MachineInv
<1>3. CASE Retry \/ GiveUp \/ Rerun
  <2>1. exec'.machine = exec.machine /\ exec'.detail = exec.detail  BY <1>3 DEF Retry, GiveUp, Rerun, ExecOK
  <2> QED  BY <1>2, <2>1
<1>4. CASE Staging
  <2>1. exec' = exec  BY <1>4, StagingStep
  <2> QED  BY <1>2, <2>1
<1>5. CASE RecordRun
  <2>1. exec'.machine = exec.machine /\ exec'.detail = exec.detail  BY <1>5 DEF RecordRun, ExecOK
  <2> QED  BY <1>2, <2>1
<1> QED  BY <1>1, <1>2, <1>3, <1>4, <1>5, StepKinds

\* The slug that names the machine of an execution decodes to the pipeline of
\* its delivery, and so to no other: a pipeline never ends in a slash and holds
\* no two dashes in a row, so that every run of dashes is read in one way.
THEOREM SlugsRoundTrip == Spec => []SlugRoundTrips
<1>1. Init => MachineInv
  BY DEF Init, Idle, MachineInv
<1>2. GapInv /\ BoundInv /\ MachineInv /\ [Next]_allVars => MachineInv'
  BY MachineNext DEF GapInv
<1>3. MachineInv => SlugRoundTrips
  <2> SUFFICES ASSUME MachineInv, exec.machine # None PROVE unslug(exec.machine) = exec.detail.pipeline
    BY DEF SlugRoundTrips
  <2> DEFINE p == exec.detail.pipeline
  <2>1. exec.machine = slug(p) /\ PipelineOK(p) /\ p \in Seq(Elems(p))  BY DEF MachineInv
  <2> HIDE DEF p
  <2>2. unslug(slug(p)) = p  BY <2>1, SlugDecodes
  <2> QED  BY <2>1, <2>2 DEF p
<1> QED  BY <1>1, <1>2, <1>3, InvTruth, PTL DEF Spec


-------------------------------------------------------------------------------
\* What the contract says of a cell

\* A value that was cast is the cell's; text is always cast.
LEMMA TypedCells ==
  ASSUME NEW type, NEW cell
  PROVE  /\ typed_expr(None, type) = None
         /\ typed_expr(cell, type) # None => typed_expr(cell, type) = ValueOf(cell, type.kind)
         /\ type.kind = "string" => typed_expr(cell, type) = cell
<1> DEFINE v == ValueOf(cell, type.kind)
           fits == ~(\/ type.kind = "int" /\ v > IntLimit
                     \/ type.kind = "decimal" /\ v >= 10 ^ (type.precision - type.scale))
<1>1. typed_expr(cell, type) = IF cell = None \/ v = None \/ ~fits THEN None ELSE v
  BY Zenon DEF typed_expr
<1>2. typed_expr(None, type) = None  BY Zenon DEF typed_expr
<1>3. type.kind = "string" => v = cell /\ fits
  BY DEF ValueOf, Temporal, Integral
<1> HIDE DEF v, fits
<1>4. typed_expr(cell, type) # None => typed_expr(cell, type) = v  BY <1>1
<1>5. type.kind = "string" => typed_expr(cell, type) = cell  BY <1>1, <1>3
<1> QED  BY <1>2, <1>4, <1>5 DEF v

\* The values of a column that may have bounds are numbers.
LEMMA BoundedValues ==
  ASSUME NEW c, MinMaxOK(c), c.min # None \/ c.max # None,
         c.type.kind \in Temporal => \A b \in {c.min, c.max} \ {None} : ValueOf(b, c.type.kind) # None
  PROVE  /\ c.type.kind \in Integral \cup {"decimal"} \cup Temporal
         /\ \A b \in {c.min, c.max} \ {None} : ValueOf(b, c.type.kind) # None
         /\ \A cell : ValueOf(cell, c.type.kind) # None => ValueOf(cell, c.type.kind) \in Int
<1> DEFINE numeric == {b \in {c.min, c.max} : b # None}
<1>1. numeric # {} /\ numeric = {c.min, c.max} \ {None}  OBVIOUS
<1>2. c.type.kind \in Integral \cup {"decimal"} \cup Temporal
  <2>1. ASSUME c.type.kind \notin Temporal, c.type.kind \notin Integral \cup {"decimal"} PROVE FALSE
    BY <1>1, <2>1 DEF MinMaxOK
  <2> QED  BY <2>1
<1>3. c.type.kind \in Integral \cup {"decimal"} => \A b \in numeric : ValueOf(b, c.type.kind) # None
  <2> SUFFICES ASSUME c.type.kind \in Integral \cup {"decimal"} PROVE \A b \in numeric : ValueOf(b, c.type.kind) # None
    OBVIOUS
  <2>1. c.type.kind \notin Temporal  BY DEF Integral, Temporal
  <2> QED  BY <1>1, <2>1 DEF MinMaxOK
<1>4. ASSUME NEW cell, ValueOf(cell, c.type.kind) # None PROVE ValueOf(cell, c.type.kind) \in Int
  <2>1. CASE c.type.kind \in Integral \cup {"decimal"}
    <3>1. cell \in DOMAIN IntCells /\ ValueOf(cell, c.type.kind) = IntCells[cell]
      BY <1>4, <2>1 DEF ValueOf, Integral, Temporal
    <3> QED  BY <3>1, CellsAssumption
  <2>2. CASE c.type.kind \in Temporal
    <3>1. cell \in DOMAIN DateCells /\ ValueOf(cell, c.type.kind) = DateCells[cell]
      BY <1>4, <2>2 DEF ValueOf, Integral, Temporal
    <3> QED  BY <3>1, CellsAssumption
  <2> QED  BY <1>2, <2>1, <2>2
<1> QED  BY <1>1, <1>2, <1>3, <1>4

\* The column checks of a cell, as one.
ColumnFails(cell, c) == \E k \in 3..7 : Declares(c, CHECKS[k].id) /\ CellFails(CHECKS[k].id, cell, c)

\* An entry fails for one of five reasons.
LEMMA ColumnReasons ==
  ASSUME NEW cell, NEW c
  PROVE  ColumnFails(cell, c) <=>
           \/ c.type.kind # "string" /\ cell # None /\ typed_expr(cell, c.type) = None
           \/ ~c.nullable /\ cell = None
           \/ c.allowed # None /\ cell # None /\ cell \notin c.allowed
           \/ c.pattern # None /\ cell # None /\ cell \notin Matching[c.pattern]
           \/ (c.min # None \/ c.max # None) /\ OutOfBounds(cell, c)
<1>1. /\ CHECKS[3].id = "cast" /\ CHECKS[4].id = "null" /\ CHECKS[5].id = "allowed"
      /\ CHECKS[6].id = "pattern" /\ CHECKS[7].id = "bounds"
  BY DEF CHECKS, ROW_CHECKS, COLUMN_CHECKS
<1>2. \A k : k \in 3..7 <=> k = 3 \/ k = 4 \/ k = 5 \/ k = 6 \/ k = 7  OBVIOUS
<1>3. /\ Declares(c, "cast") <=> c.type.kind # "string"
      /\ Declares(c, "null") <=> ~c.nullable
      /\ Declares(c, "allowed") <=> c.allowed # None
      /\ Declares(c, "pattern") <=> c.pattern # None
      /\ Declares(c, "bounds") <=> c.min # None \/ c.max # None
  BY DEF Declares
<1>4. /\ CellFails("cast", cell, c) <=> cell # None /\ typed_expr(cell, c.type) = None
      /\ CellFails("null", cell, c) <=> cell = None
      /\ CellFails("allowed", cell, c) <=> cell # None /\ cell \notin c.allowed
      /\ CellFails("pattern", cell, c) <=> cell # None /\ cell \notin Matching[c.pattern]
      /\ CellFails("bounds", cell, c) <=> OutOfBounds(cell, c)
  BY DEF CellFails
<1>5. ColumnFails(cell, c) <=> \E k \in {3, 4, 5, 6, 7} : Declares(c, CHECKS[k].id) /\ CellFails(CHECKS[k].id, cell, c)
  BY <1>2 DEF ColumnFails
<1> QED  BY <1>1, <1>3, <1>4, <1>5

\* An absent cell fails where the column must have one.
LEMMA AbsentCells == ASSUME NEW c PROVE ColumnFails(None, c) <=> ~c.nullable
<1>1. typed_expr(None, c.type) = None  BY TypedCells
<1>2. ~OutOfBounds(None, c)  BY <1>1 DEF OutOfBounds
<1> QED  BY <1>2, ColumnReasons

\* A cell of a line conforms iff no check of its column fails.
LEMMA CellsConform ==
  ASSUME NEW c, MinMaxOK(c), NEW cell, cell # None,
         c.type.kind \in Temporal => \A b \in {c.min, c.max} \ {None} : ValueOf(b, c.type.kind) # None
  PROVE  ConformsTo(cell, c) <=> ~ColumnFails(IF cell = "" THEN None ELSE cell, c)
<1>1. CASE cell = ""
  <2>1. ColumnFails(None, c) <=> ~c.nullable  BY AbsentCells
  <2>2. ConformsTo(cell, c) <=> c.nullable  BY <1>1 DEF ConformsTo
  <2> QED  BY <1>1, <2>1, <2>2
<1>2. CASE cell # ""
  <2> DEFINE v == typed_expr(cell, c.type)
             bound(b) == ValueOf(b, c.type.kind)
             within == /\ c.min # None => v >= bound(c.min)
                       /\ c.max # None => v <= bound(c.max)
  <2>1. ColumnFails(cell, c) <=>
           \/ c.type.kind # "string" /\ v = None
           \/ c.allowed # None /\ cell \notin c.allowed
           \/ c.pattern # None /\ cell \notin Matching[c.pattern]
           \/ (c.min # None \/ c.max # None) /\ OutOfBounds(cell, c)
    BY ColumnReasons
  <2>2. ConformsTo(cell, c) <=>
           /\ v # None
           /\ c.allowed # None => cell \in c.allowed
           /\ c.pattern # None => cell \in Matching[c.pattern]
           /\ within
    BY <1>2 DEF ConformsTo
  <2>3. c.type.kind = "string" => v # None  BY TypedCells
  <2>4. v # None => (within <=> ~((c.min # None \/ c.max # None) /\ OutOfBounds(cell, c)))
    <3> SUFFICES ASSUME v # None PROVE within <=> ~((c.min # None \/ c.max # None) /\ OutOfBounds(cell, c))
      OBVIOUS
    <3>1. CASE c.min = None /\ c.max = None  BY <3>1
    <3>2. CASE c.min # None \/ c.max # None
      <4>1. /\ \A b \in {c.min, c.max} \ {None} : bound(b) # None /\ bound(b) \in Int
            /\ ValueOf(cell, c.type.kind) # None => ValueOf(cell, c.type.kind) \in Int
        BY <3>2, BoundedValues
      <4>2. v = ValueOf(cell, c.type.kind) /\ v \in Int  BY <4>1, TypedCells
      <4>3. OutOfBounds(cell, c) <=>
              /\ v # None
              /\ \/ c.min # None /\ (IF bound(c.min) = None THEN TRUE ELSE v < bound(c.min))
                 \/ c.max # None /\ (IF bound(c.max) = None THEN TRUE ELSE v > bound(c.max))
        BY DEF OutOfBounds
      <4> HIDE DEF v, bound
      <4>4. c.min # None => (bound(c.min) # None /\ bound(c.min) \in Int)  BY <4>1
      <4>5. c.max # None => (bound(c.max) # None /\ bound(c.max) \in Int)  BY <4>1
      <4> QED  BY <3>2, <4>2, <4>3, <4>4, <4>5
    <3> QED  BY <3>1, <3>2
  <2> HIDE DEF v, within
  <2> QED  BY <1>2, <2>1, <2>2, <2>3, <2>4
<1> QED  BY <1>1, <1>2

-------------------------------------------------------------------------------
\* The rows that are made of lines

\* The row of a line.
LineRecord(l) == [tokens |-> parse_line(l), text |-> <<l>>]
Balanced(l) == l.shape \notin {"opens", "junk"}
CellsOK(l) ==
  /\ l.cells \in Seq(Elems(l.cells)) /\ None \notin Elems(l.cells)
  /\ None # l.cells /\ None # <<l>>
Blanked(cell) == IF cell = "" THEN None ELSE cell

\* A binding names the columns at the places of a header.
Binds(b, header, s) ==
  /\ header \in Seq(Elems(header)) /\ NoRepeats(header)
  /\ b.tokens = header
  /\ b.column_at = [i \in DOMAIN header |-> IF header[i] \in Declared(s.columns) THEN header[i] ELSE None]

\* The fields of a row that is as wide as the header.
RowOf(r, l, header, s) ==
  /\ r.malformed_text = None
  /\ DOMAIN r.cells = Declared(s.columns)
  /\ \A n \in Declared(s.columns) \ Elems(header) : r.cells[n] = None
  /\ \A i \in DOMAIN header : header[i] \in Declared(s.columns) => r.cells[header[i]] = Blanked(l.cells[i])
  /\ DOMAIN r.extras = Elems(header) \ Declared(s.columns)
  /\ \A i \in DOMAIN header : header[i] \notin Declared(s.columns) => r.extras[header[i]] = l.cells[i]

LEMMA RowsShaped ==
  ASSUME NEW s, None \notin Declared(s.columns), NEW header, NEW b, Binds(b, header, s), NEW l, CellsOK(l)
  PROVE  LET r == shape_row(LineRecord(l), b, s)
         IN IF Balanced(l) /\ Len(l.cells) = Len(header) THEN RowOf(r, l, header, s) ELSE r.malformed_text # None
<1> DEFINE record == LineRecord(l)
           tokens == record.tokens
           malformed == tokens = None \/ Len(tokens) # Len(b.column_at)
           at(name) == {i \in DOMAIN tokens : b.column_at[i] = name}
           cell(name) == IF at(name) = {} THEN None
                         ELSE LET c == tokens[CHOOSE i \in at(name) : TRUE]
                              IN IF c = "" THEN None ELSE c
           extra == {i \in DOMAIN tokens : b.column_at[i] = None}
           names == {b.tokens[i] : i \in extra}
           r == shape_row(record, b, s)
<1>1. r = [malformed_text |-> IF malformed THEN record.text ELSE None,
           cells |-> [n \in Declared(s.columns) |-> IF malformed THEN None ELSE cell(n)],
           extras |-> IF malformed THEN << >>
                      ELSE [k \in names |-> tokens[CHOOSE i \in extra : b.tokens[i] = k]]]
  BY Zenon DEF shape_row
<1>2. tokens = parse_line(l) /\ record.text = <<l>>  BY DEF LineRecord
<1>3. /\ Len(b.column_at) = Len(header) /\ DOMAIN header = 1..Len(header) /\ b.tokens = header
      /\ \A i \in DOMAIN header : b.column_at[i] = IF header[i] \in Declared(s.columns) THEN header[i] ELSE None
  BY DEF Binds
<1>4. malformed <=> ~(Balanced(l) /\ Len(l.cells) = Len(header))
  BY <1>2, <1>3 DEF parse_line, Balanced, CellsOK
<1> HIDE DEF malformed, names, cell, record
<1>5. CASE malformed
  <2>1. r.malformed_text = record.text  BY <1>1, <1>5
  <2> QED  BY <1>2, <1>4, <1>5, <2>1 DEF CellsOK, record
<1>6. CASE ~malformed
  <2>1. /\ r.malformed_text = None /\ r.cells = [n \in Declared(s.columns) |-> cell(n)]
        /\ r.extras = [k \in names |-> tokens[CHOOSE i \in extra : b.tokens[i] = k]]
    BY <1>1, <1>6
  <2>2. tokens = l.cells /\ Len(l.cells) = Len(header) /\ DOMAIN tokens = DOMAIN header
    BY <1>2, <1>3, <1>4, <1>6 DEF parse_line, Balanced, CellsOK
  <2>3. ASSUME NEW n \in Declared(s.columns) \ Elems(header) PROVE cell(n) = None
    <3>1. at(n) = {}  BY <1>3, <2>2, <2>3 DEF Elems
    <3> QED  BY <3>1 DEF cell
  <2>4. ASSUME NEW i \in DOMAIN header, header[i] \in Declared(s.columns) PROVE cell(header[i]) = Blanked(l.cells[i])
    <3>1. at(header[i]) = {i}
      <4>1. \A j \in DOMAIN header : b.column_at[j] = header[i] <=> header[j] = header[i]  BY <1>3, <2>4
      <4>2. \A j \in DOMAIN header : header[j] = header[i] => j = i  BY <2>4 DEF Binds, NoRepeats
      <4> QED  BY <2>2, <2>4, <4>1, <4>2
    <3>2. (CHOOSE j \in {i} : TRUE) = i  OBVIOUS
    <3>3. (CHOOSE j \in at(header[i]) : TRUE) = i
      <4> HIDE DEF at
      <4> QED  BY <3>1, <3>2
    <3>4. at(header[i]) # {}  BY <3>1
    <3> HIDE DEF at, tokens
    <3> QED  BY <2>2, <3>3, <3>4 DEF cell, Blanked
  <2>5. extra = {i \in DOMAIN header : header[i] \notin Declared(s.columns)}  BY <1>3, <2>2
  <2>6. names = Elems(header) \ Declared(s.columns)
    <3> HIDE DEF extra
    <3> QED  BY <1>3, <2>5 DEF names, Elems
  <2>7. ASSUME NEW i \in DOMAIN header, header[i] \notin Declared(s.columns)
        PROVE  header[i] \in names /\ (CHOOSE j \in extra : b.tokens[j] = header[i]) = i
    <3>1. i \in extra /\ b.tokens[i] = header[i]  BY <1>3, <2>5, <2>7
    <3>2. \A j \in extra : b.tokens[j] = header[i] => j = i  BY <1>3, <2>5, <2>7 DEF Binds, NoRepeats
    <3> HIDE DEF extra
    <3> QED  BY <3>1, <3>2 DEF names
  <2>8. \A i \in DOMAIN header : header[i] \notin Declared(s.columns) => r.extras[header[i]] = l.cells[i]
    <3> SUFFICES ASSUME NEW i \in DOMAIN header, header[i] \notin Declared(s.columns)
                 PROVE  r.extras[header[i]] = l.cells[i]
      OBVIOUS
    <3> DEFINE picked == CHOOSE j \in extra : b.tokens[j] = header[i]
    <3>1. header[i] \in names /\ picked = i  BY <2>7
    <3> HIDE DEF extra, r, tokens
    <3>2. r.extras[header[i]] = tokens[picked]  BY <2>1, <3>1
    <3> HIDE DEF picked
    <3> QED  BY <2>2, <3>1, <3>2
  <2> HIDE DEF r
  <2>9. RowOf(r, l, header, s)  BY <2>1, <2>3, <2>4, <2>6, <2>8 DEF RowOf
  <2> QED  BY <1>4, <1>6, <2>9 DEF r, record
<1> QED  BY <1>5, <1>6

\* A row fails iff it is malformed, garbled where it may not be, or a cell
\* fails the checks of its column.
LEMMA RowsFail ==
  ASSUME NEW r, NEW s, s.columns \in Seq(Elems(s.columns))
  PROVE  evaluate(r, s) = {} <=>
           /\ r.malformed_text = None
           /\ s.forbid_replacement_chars => TextOf(r) \cap Garbled = {}
           /\ \A c \in Elems(s.columns) : ~ColumnFails(r.cells[c.name], c)
<1> DEFINE contract == compile_contract(s)
           Fails(e) == IF e[2] = 0 THEN RowFails(CHECKS[e[1]].id, r)
                       ELSE CellFails(CHECKS[e[1]].id, r.cells[s.columns[e[2]].name], s.columns[e[2]])
<1>1. evaluate(r, s) = {e \in contract : Fails(e)}  BY Zenon DEF evaluate
<1>2. CHECKS[1].id = "malformed" /\ CHECKS[2].id = "encoding"  BY DEF CHECKS, ROW_CHECKS, COLUMN_CHECKS
<1>3. /\ RowFails("malformed", r) <=> r.malformed_text # None
      /\ RowFails("encoding", r) <=> TextOf(r) \cap Garbled # {}
  BY DEF RowFails
<1>4. Fails(<<1, 0>>) <=> r.malformed_text # None
  <2>1. <<1, 0>>[1] = 1 /\ <<1, 0>>[2] = 0  OBVIOUS
  <2> QED  BY <1>2, <1>3, <2>1
<1>5. Fails(<<2, 0>>) <=> TextOf(r) \cap Garbled # {}
  <2>1. <<2, 0>>[1] = 2 /\ <<2, 0>>[2] = 0  OBVIOUS
  <2> QED  BY <1>2, <1>3, <2>1
<1>6. ASSUME NEW k \in 3..7, NEW i \in DOMAIN s.columns
      PROVE  Fails(<<k, i>>) <=> CellFails(CHECKS[k].id, r.cells[s.columns[i].name], s.columns[i])
  <2>1. <<k, i>>[1] = k /\ <<k, i>>[2] = i /\ i # 0  BY <1>6
  <2> QED  BY <2>1
<1> HIDE DEF Fails
<1>7. contract = {<<1, 0>>} \cup (IF s.forbid_replacement_chars THEN {<<2, 0>>} ELSE {})
                 \cup {e \in (3..7) \X DOMAIN s.columns : Declares(s.columns[e[2]], CHECKS[e[1]].id)}
  BY DEF compile_contract
<1>8. <<1, 0>> \in contract /\ (s.forbid_replacement_chars <=> <<2, 0>> \in contract)
  BY <1>7
<1>9. ASSUME NEW k \in 3..7, NEW i \in DOMAIN s.columns
      PROVE  <<k, i>> \in contract <=> Declares(s.columns[i], CHECKS[k].id)
  <2>1. <<k, i>>[1] = k /\ <<k, i>>[2] = i /\ k # 1 /\ k # 2  OBVIOUS
  <2> QED  BY <1>7, <2>1
<1>10. \A e \in contract : e = <<1, 0>> \/ e = <<2, 0>> \/ \E k \in 3..7, i \in DOMAIN s.columns : e = <<k, i>>
  BY <1>7
<1> HIDE DEF contract
<1>11. ASSUME NEW i \in DOMAIN s.columns
       PROVE  (\A k \in 3..7 : ~(<<k, i>> \in contract /\ Fails(<<k, i>>)))
                <=> ~ColumnFails(r.cells[s.columns[i].name], s.columns[i])
  BY <1>6, <1>9, <1>11 DEF ColumnFails
<1>12. evaluate(r, s) = {} <=> \A e \in contract : ~Fails(e)  BY <1>1
<1>13. (\A e \in contract : ~Fails(e)) <=>
          /\ ~Fails(<<1, 0>>) /\ (s.forbid_replacement_chars => ~Fails(<<2, 0>>))
          /\ \A i \in DOMAIN s.columns : \A k \in 3..7 : ~(<<k, i>> \in contract /\ Fails(<<k, i>>))
  BY <1>8, <1>10
<1> QED  BY <1>4, <1>5, <1>11, <1>12, <1>13 DEF Elems

\* What a spec that was probed says of its columns.
ColumnsOK(s) ==
  /\ s.columns \in Seq(Elems(s.columns)) /\ None \notin Declared(s.columns) /\ NoRepeats(NamesOf(s.columns))
  /\ \A c \in Elems(s.columns) :
       /\ MinMaxOK(c)
       /\ c.type.kind \in Temporal => \A b \in {c.min, c.max} \ {None} : ValueOf(b, c.type.kind) # None

LEMMA ProbedColumns ==
  ASSUME NEW s, s.columns \in Seq(Elems(s.columns)), Parses(s), EngineProbes(s)
  PROVE  ColumnsOK(s)
<1>1. RawContractOK(s) /\ BoundsBind(s)  BY DEF Parses, EngineProbes
<1>2. /\ \A c \in Elems(s.columns) : c.name \in Identifiers /\ MinMaxOK(c)
      /\ NoRepeats(NamesOf(s.columns))
  BY <1>1 DEF RawContractOK, ColumnSpecOK
<1>3. \A n \in Declared(s.columns) : \E c \in Elems(s.columns) : n = c.name  BY DEF Declared, NamesOf, Elems
<1>4. None \notin Declared(s.columns)  BY <1>2, <1>3, CellsAssumption
<1>5. \A c \in Elems(s.columns) : c.type.kind \in Temporal =>
         \A b \in {c.min, c.max} \ {None} : ValueOf(b, c.type.kind) # None
  BY <1>1 DEF BoundsBind
<1> QED  BY <1>2, <1>4, <1>5 DEF ColumnsOK

\* A row fails iff the line it was made of does not conform.
LEMMA LinesJudged ==
  ASSUME NEW s, ColumnsOK(s), NEW header, NEW l, CellsOK(l), header \in Seq(Elems(header)), NEW r,
         IF Balanced(l) /\ Len(l.cells) = Len(header) THEN RowOf(r, l, header, s) ELSE r.malformed_text # None
  PROVE  evaluate(r, s) = {} <=> LineConforms(l, header, s)
<1>1. evaluate(r, s) = {} <=>
        /\ r.malformed_text = None
        /\ s.forbid_replacement_chars => TextOf(r) \cap Garbled = {}
        /\ \A c \in Elems(s.columns) : ~ColumnFails(r.cells[c.name], c)
  BY RowsFail DEF ColumnsOK
<1> DEFINE words == Elems(l.cells) \cup (Elems(header) \ Declared(s.columns))
           Fine(c) == IF c.name \in Elems(header) THEN \A i \in DOMAIN header : header[i] = c.name => ConformsTo(l.cells[i], c)
                                                  ELSE c.nullable
<1>2. LineConforms(l, header, s) <=>
        /\ Balanced(l) /\ Len(l.cells) = Len(header)
        /\ s.forbid_replacement_chars => words \cap Garbled = {}
        /\ \A c \in Elems(s.columns) : Fine(c)
  BY DEF LineConforms, Balanced
<1>3. CASE ~(Balanced(l) /\ Len(l.cells) = Len(header))  BY <1>1, <1>2, <1>3
<1>4. CASE Balanced(l) /\ Len(l.cells) = Len(header)
  <2>1. RowOf(r, l, header, s) /\ DOMAIN l.cells = DOMAIN header  BY <1>4 DEF CellsOK
  <2>2. TextOf(r) = {r.cells[n] : n \in Declared(s.columns)} \cup DOMAIN r.extras \cup {r.extras[k] : k \in DOMAIN r.extras}
    BY <2>1 DEF TextOf, RowOf
  <2>3. ASSUME NEW g \in Garbled PROVE g \in TextOf(r) <=> g \in words
    <3>1. g # None /\ g # ""  BY CellsAssumption
    <3>2. ASSUME NEW n \in Declared(s.columns), g = r.cells[n] PROVE g \in Elems(l.cells)
      <4>1. n \in Elems(header)  BY <2>1, <3>1, <3>2 DEF RowOf
      <4>2. PICK i \in DOMAIN header : n = header[i]  BY <4>1 DEF Elems
      <4>3. g = l.cells[i]  BY <2>1, <3>1, <3>2, <4>2 DEF RowOf, Blanked
      <4> QED  BY <2>1, <4>3 DEF Elems
    <3>3. DOMAIN r.extras = Elems(header) \ Declared(s.columns)  BY <2>1 DEF RowOf
    <3>4. ASSUME NEW k \in DOMAIN r.extras, g = r.extras[k] PROVE g \in Elems(l.cells)
      <4>1. PICK i \in DOMAIN header : k = header[i] /\ k \notin Declared(s.columns)  BY <3>3 DEF Elems
      <4>2. g = l.cells[i]  BY <2>1, <3>4, <4>1 DEF RowOf
      <4> QED  BY <2>1, <4>2 DEF Elems
    <3>5. ASSUME g \in Elems(l.cells) PROVE g \in TextOf(r)
      <4>1. PICK i \in DOMAIN header : g = l.cells[i]  BY <2>1, <3>5 DEF Elems
      <4>2. CASE header[i] \in Declared(s.columns)
        <5>1. r.cells[header[i]] = g  BY <2>1, <3>1, <4>1, <4>2 DEF RowOf, Blanked
        <5> QED  BY <2>2, <4>2, <5>1
      <4>3. CASE header[i] \notin Declared(s.columns)
        <5>1. r.extras[header[i]] = g  BY <2>1, <4>1, <4>3 DEF RowOf
        <5>2. header[i] \in DOMAIN r.extras  BY <3>3, <4>3 DEF Elems
        <5> QED  BY <2>2, <5>1, <5>2
      <4> QED  BY <4>2, <4>3
    <3> QED  BY <2>2, <3>2, <3>3, <3>4, <3>5
  <2>4. ASSUME NEW c \in Elems(s.columns) PROVE ~ColumnFails(r.cells[c.name], c) <=> Fine(c)
    <3>1. c.name \in Declared(s.columns)  BY <2>4 DEF Declared, NamesOf, Elems
    <3>2. CASE c.name \notin Elems(header)
      <4>1. r.cells[c.name] = None  BY <2>1, <3>1, <3>2 DEF RowOf
      <4> QED  BY <3>2, <4>1, AbsentCells
    <3>3. CASE c.name \in Elems(header)
      <4>1. ASSUME NEW i \in DOMAIN header, header[i] = c.name
            PROVE  ConformsTo(l.cells[i], c) <=> ~ColumnFails(r.cells[c.name], c)
        <5>1. r.cells[c.name] = IF l.cells[i] = "" THEN None ELSE l.cells[i]
          BY <2>1, <3>1, <4>1 DEF RowOf, Blanked
        <5>2. l.cells[i] # None  BY <2>1, <4>1 DEF CellsOK, Elems
        <5>3. /\ MinMaxOK(c)
              /\ c.type.kind \in Temporal => \A b \in {c.min, c.max} \ {None} : ValueOf(b, c.type.kind) # None
          BY DEF ColumnsOK
        <5> QED  BY <5>1, <5>2, <5>3, CellsConform
      <4>2. \E i \in DOMAIN header : header[i] = c.name  BY <3>3 DEF Elems
      <4> QED  BY <3>3, <4>1, <4>2
    <3> QED  BY <3>2, <3>3
  <2>5. r.malformed_text = None  BY <2>1 DEF RowOf
  <2>6. TextOf(r) \cap Garbled = {} <=> words \cap Garbled = {}
    <3> HIDE DEF words
    <3> QED  BY <2>3
  <2> HIDE DEF words, Fine
  <2> QED  BY <1>1, <1>2, <1>4, <2>4, <2>5, <2>6
<1> QED  BY <1>3, <1>4

-------------------------------------------------------------------------------
\* The lines of the body

\* The places that are kept are among those given.
LEMMA InOrderPlaces ==
  ASSUME NEW places, NEW n \in Nat
  PROVE  InOrder(places, n) \in Seq(places)
<1> DEFINE q == [i \in 1..n |-> IF i \in places THEN <<i>> ELSE <<>>]
<1>1. InOrder(places, n) = FlattenSeq(q)  BY DEF InOrder
<1>2. Len(q) = n  OBVIOUS
<1>3. \A i \in 1..n : q[i] \in Seq(places)  OBVIOUS
<1>4. n = 0 => q \in Seq(places)  OBVIOUS
<1> HIDE DEF q
<1>5. CASE n = 0
  <2>1. FlattenSeq(q) = q  BY <1>2, <1>5, Zenon DEF FlattenSeq
  <2> QED  BY <1>1, <1>4, <1>5, <2>1
<1>6. CASE n # 0
  <2>1. PICK f : FlattenSeq(q) = f[n] /\ \A i \in 1..n : f[i] = FlatAt(q, f, i)  BY <1>2, <1>6, Flattened
  <2> DEFINE T == {k \in Nat : k \in 1..n => f[k] \in Seq(places)}
  <2>2. 0 \in T  OBVIOUS
  <2>3. ASSUME NEW k \in Nat, k \in T PROVE k + 1 \in T
    <3> SUFFICES ASSUME k + 1 \in 1..n PROVE f[k + 1] \in Seq(places)  OBVIOUS
    <3>1. f[k + 1] = FlatAt(q, f, k + 1) /\ q[k + 1] \in Seq(places)  BY <1>3, <2>1
    <3>2. CASE k = 0  BY <3>1, <3>2 DEF FlatAt
    <3>3. CASE k # 0
      <4>1. k \in 1..n /\ k + 1 # 1 /\ (k + 1) - 1 = k  BY <3>3
      <4>2. f[k] \in Seq(places)  BY <2>3, <4>1
      <4>3. f[k + 1] = f[k] \o q[k + 1]  BY <3>1, <4>1 DEF FlatAt
      <4> QED  BY <3>1, <4>2, <4>3, ConcatProperties
    <3> QED  BY <3>2, <3>3
  <2>4. n \in T
    <3> HIDE DEF T
    <3> QED  BY <2>2, <2>3, NatSet
  <2> QED  BY <1>1, <1>6, <2>1, <2>4
<1> QED  BY <1>5, <1>6

\* The lines from a place on, and the records that are made of them.
Suffix(w, q, m) ==
  /\ w \in Seq(Elems(q)) /\ Len(w) = IF m <= Len(q) THEN Len(q) - m + 1 ELSE 0
  /\ \A i \in 1..Len(w) : w[i] = q[m + i - 1]
  /\ line_records(w) = [i \in 1..Len(w) |-> LineRecord(w[i])]

LEMMA LinesFrom ==
  ASSUME NEW q, q \in Seq(Elems(q)), NEW m \in Nat, m # 0
  PROVE  Suffix(SubSeq(q, m, Len(q)), q, m)
<1> DEFINE n == Len(q)
           w == SubSeq(q, m, n)
           S == Elems(q)
<1>1. n \in Nat /\ \A i \in m..n : q[i] \in S
  <2>1. \A i \in 1..Len(q) : q[i] \in S  OBVIOUS
  <2> QED  BY <2>1
<1> HIDE DEF n
<1>2. /\ w \in Seq(S) /\ Len(w) = IF m <= n THEN n - m + 1 ELSE 0
      /\ \A i \in 1..(n - m + 1) : w[i] = q[m + i - 1]
  BY <1>1, SubSeqProperties
<1> HIDE DEF w
<1>3. Len(w) \in Nat /\ DOMAIN w = 1..Len(w)  BY <1>2
<1>4. \A i \in 1..Len(w) : w[i] = q[m + i - 1]  BY <1>1, <1>2, <1>3
<1>5. line_records(w) = [i \in 1..Len(w) |-> LineRecord(w[i])]  BY <1>3, Zenon DEF line_records, LineRecord
<1> QED  BY <1>2, <1>4, <1>5 DEF Suffix, w, n

\* One record for every line of the body that is not blank, in their order.
LEMMA BodyLines ==
  ASSUME NEW o, WellListed(o), NEW s, ~s.read.multiline, s.read.skip \in Nat, s.read.header => Len(o.lines) > s.read.skip
  PROVE  /\ BodyRecords(o, s) = [k \in DOMAIN LinesOf(o, s) |-> LineRecord(LinesOf(o, s)[k])]
         /\ \A k \in DOMAIN LinesOf(o, s) : LinesOf(o, s)[k] \in Elems(o.lines)
<1> DEFINE skip == s.read.skip
           n == Len(o.lines)
           body == SubSeq(o.lines, skip + (IF s.read.header THEN 2 ELSE 1), n)
           rest == SubSeq(o.lines, skip + 1, n)
           records == line_records(rest)
           shown == IF s.read.header THEN Tail(records) ELSE records
           kept == InOrder({i \in DOMAIN body : body[i].cells # <<>>}, Len(body))
<1>1. o.lines \in Seq(Elems(o.lines)) /\ n \in Nat  BY DEF WellListed
<1>2. body \in Seq(Elems(o.lines))
  <2> DEFINE m == skip + (IF s.read.header THEN 2 ELSE 1)
  <2>1. m \in Nat /\ m # 0  OBVIOUS
  <2> HIDE DEF m
  <2>2. Suffix(SubSeq(o.lines, m, Len(o.lines)), o.lines, m)  BY <1>1, <2>1, LinesFrom
  <2> QED  BY <2>2 DEF Suffix, m
<1>3. /\ DOMAIN shown = DOMAIN body /\ Len(shown) = Len(body)
      /\ \A i \in DOMAIN body : shown[i] = LineRecord(body[i])
  <2> DEFINE a == SubSeq(o.lines, skip + 1, n)
             b == SubSeq(o.lines, skip + 2, n)
  <2>1. /\ a \in Seq(Elems(o.lines)) /\ Len(a) = IF skip + 1 <= n THEN n - (skip + 1) + 1 ELSE 0
        /\ \A i \in 1..Len(a) : a[i] = o.lines[skip + 1 + i - 1]
        /\ line_records(a) = [i \in 1..Len(a) |-> LineRecord(a[i])]
    <3> DEFINE m == skip + 1
    <3>1. m \in Nat /\ m # 0  OBVIOUS
    <3> HIDE DEF m
    <3>2. Suffix(SubSeq(o.lines, m, Len(o.lines)), o.lines, m)  BY <1>1, <3>1, LinesFrom
    <3>3. Suffix(a, o.lines, skip + 1)  BY <3>2 DEF m
    <3> HIDE DEF a, n, skip
    <3> QED  BY <3>3 DEF Suffix, n
  <2>2. CASE ~s.read.header
    <3>1. shown = line_records(a) /\ body = a  BY <2>2
    <3> HIDE DEF shown, body, a
    <3>2. Len(a) \in Nat /\ DOMAIN a = 1..Len(a)  BY <2>1
    <3> QED  BY <2>1, <3>1, <3>2
  <2>3. CASE s.read.header
    <3>1. /\ b \in Seq(Elems(o.lines)) /\ Len(b) = IF skip + 2 <= n THEN n - (skip + 2) + 1 ELSE 0
          /\ \A i \in 1..Len(b) : b[i] = o.lines[skip + 2 + i - 1]
      <4> DEFINE m == skip + 2
      <4>1. m \in Nat /\ m # 0  OBVIOUS
      <4> HIDE DEF m
      <4>2. Suffix(SubSeq(o.lines, m, Len(o.lines)), o.lines, m)  BY <1>1, <4>1, LinesFrom
      <4>3. Suffix(b, o.lines, skip + 2)  BY <4>2 DEF m
      <4> HIDE DEF b, n, skip
      <4> QED  BY <4>3 DEF Suffix, n
    <3>2. shown = Tail(line_records(a)) /\ body = b  BY <2>3
    <3>3. n > skip  BY <2>3
    <3> DEFINE w == line_records(a)
    <3> HIDE DEF shown, body, a, b, n, skip
    <3>4. skip \in Nat  BY DEF skip
    <3>5. Len(a) = n - skip /\ Len(b) = Len(a) - 1 /\ Len(a) \in Nat /\ Len(a) >= 1
      BY <1>1, <2>1, <3>1, <3>3, <3>4
    <3>6. w \in Seq({LineRecord(a[i]) : i \in 1..Len(a)}) /\ Len(w) = Len(a) /\ w # <<>>
      <4> DEFINE C == {LineRecord(a[i]) : i \in 1..Len(a)}
      <4>1. \A i \in 1..Len(a) : LineRecord(a[i]) \in C  OBVIOUS
      <4> HIDE DEF w, C
      <4>2. w = [i \in 1..Len(a) |-> LineRecord(a[i])]  BY <2>1 DEF w
      <4>3. w \in Seq(C) /\ Len(w) = Len(a)  BY <3>5, <4>1, <4>2
      <4>4. w # <<>>  BY <3>5, <4>3
      <4> QED  BY <4>3, <4>4 DEF C
    <3>7. Len(Tail(w)) = Len(a) - 1 /\ DOMAIN Tail(w) = 1..(Len(a) - 1) /\ \A i \in 1..(Len(a) - 1) : Tail(w)[i] = w[i + 1]
      <4> DEFINE C == {LineRecord(a[i]) : i \in 1..Len(a)}
      <4> HIDE DEF w, C
      <4>1. Tail(w) \in Seq(C) /\ Len(Tail(w)) = Len(w) - 1 /\ \A i \in 1..Len(Tail(w)) : Tail(w)[i] = w[i + 1]
        BY <3>6, HeadTailProperties DEF C
      <4> QED  BY <3>6, <4>1
    <3>8. ASSUME NEW i \in 1..(Len(a) - 1) PROVE Tail(w)[i] = LineRecord(b[i])
      <4>1. i + 1 \in 1..Len(a) /\ i \in 1..Len(b) /\ skip + 1 + (i + 1) - 1 = skip + 2 + i - 1  BY <3>4, <3>5
      <4>2. a[i + 1] = b[i]  BY <2>1, <3>1, <4>1
      <4>3. w[i + 1] = LineRecord(a[i + 1])  BY <2>1, <4>1
      <4> QED  BY <3>7, <4>2, <4>3
    <3>9. DOMAIN b = 1..(Len(a) - 1)  BY <3>1, <3>5
    <3> QED  BY <3>2, <3>5, <3>7, <3>8, <3>9
  <2> QED  BY <2>2, <2>3
<1>6. BodyRecords(o, s) = NonBlank(shown)
  <2>1. BodyRecords(o, s) =
          LET r == IF s.read.multiline THEN multiline_records(rest) ELSE line_records(rest)
          IN NonBlank(IF s.read.header THEN Tail(r) ELSE r)
    BY Zenon DEF BodyRecords
  <2> HIDE DEF rest
  <2> QED  BY <2>1
<1>7. LinesOf(o, s) = [k \in DOMAIN kept |-> body[kept[k]]]  BY Zenon DEF LinesOf
<1>8. \A i \in DOMAIN body : body[i] \in Elems(o.lines)
  <2> HIDE DEF body
  <2> QED  BY <1>2
<1> HIDE DEF body, shown
<1>9. ASSUME NEW i \in DOMAIN body PROVE shown[i].tokens # <<>> <=> body[i].cells # <<>>
  <2>1. shown[i].tokens = parse_line(body[i])  BY <1>3, <1>9 DEF LineRecord
  <2>2. body[i].cells = <<>> => Balanced(body[i])  BY <1>8, <1>9 DEF WellListed, Balanced
  <2> QED  BY <2>1, <2>2, CellsAssumption DEF parse_line, Balanced
<1>10. {i \in DOMAIN shown : shown[i].tokens # <<>>} = {i \in DOMAIN body : body[i].cells # <<>>}
  BY <1>3, <1>9
<1>11. NonBlank(shown) = [k \in DOMAIN kept |-> shown[kept[k]]]  BY <1>3, <1>10 DEF NonBlank
<1>12. kept \in Seq({i \in DOMAIN body : body[i].cells # <<>>})
  <2>1. Len(body) \in Nat  BY <1>2
  <2> QED  BY <2>1, InOrderPlaces
<1> HIDE DEF kept
<1>13. \A k \in DOMAIN kept : kept[k] \in DOMAIN body  BY <1>12
<1> QED  BY <1>3, <1>6, <1>7, <1>8, <1>11, <1>13

-------------------------------------------------------------------------------
\* What is read of the objects

\* The place of a row and the row at it, of objects in their order.
Body(objects, s, i) == BodyRecords(Sorted(objects)[i], s)
RowPlaces(objects, s) == UNION {{i} \X DOMAIN Body(objects, s, i) : i \in DOMAIN Sorted(objects)}
RowAt(objects, s, l) == shape_row(Body(objects, s, l[1])[l[2]], probe_header(Sorted(objects)[l[1]], s), s)

\* Objects that were read passed their probes, and each record is a row.
LEMMA ReadsRows ==
  ASSUME NEW objects, NEW s, read_objects(objects, s) # None
  PROVE  /\ \A i \in DOMAIN Sorted(objects) : probe_header(Sorted(objects)[i], s) # None
         /\ read_objects(objects, s) = [l \in RowPlaces(objects, s) |-> RowAt(objects, s, l)]
<1> DEFINE sorted == Sorted(objects)
           probes == [i \in DOMAIN sorted |-> probe_header(sorted[i], s)]
           bodies == [i \in DOMAIN sorted |-> BodyRecords(sorted[i], s)]
           locators == UNION {{i} \X DOMAIN bodies[i] : i \in DOMAIN sorted}
           bad == \E i \in DOMAIN sorted : ~check_compression_extension(sorted[i], s) \/ probes[i] = None
<1>1. read_objects(objects, s) = IF bad THEN None ELSE [l \in locators |-> shape_row(bodies[l[1]][l[2]], probes[l[1]], s)]
  BY Zenon DEF read_objects
<1>2. ~bad
  <2> HIDE DEF bad
  <2> QED  BY <1>1
<1>3. \A i \in DOMAIN sorted : probes[i] = probe_header(sorted[i], s) /\ bodies[i] = Body(objects, s, i)  BY DEF Body
<1>4. \A i \in DOMAIN sorted : probe_header(sorted[i], s) # None  BY <1>2, <1>3
<1>5. \A i \in DOMAIN sorted : DOMAIN bodies[i] = DOMAIN Body(objects, s, i)  BY <1>3
<1>6. locators = RowPlaces(objects, s)
  <2> HIDE DEF bodies
  <2> QED  BY <1>5 DEF RowPlaces
<1>7. ASSUME NEW l \in locators PROVE shape_row(bodies[l[1]][l[2]], probes[l[1]], s) = RowAt(objects, s, l)
  <2>1. PICK i \in DOMAIN sorted : l \in {i} \X DOMAIN bodies[i]  BY <1>7
  <2>2. l[1] = i  BY <2>1
  <2>3. bodies[l[1]] = Body(objects, s, l[1]) /\ probes[l[1]] = probe_header(sorted[l[1]], s)  BY <1>3, <2>2
  <2> HIDE DEF bodies, probes
  <2> QED  BY <2>3, Zenon DEF RowAt
<1>8. read_objects(objects, s) = [l \in locators |-> shape_row(bodies[l[1]][l[2]], probes[l[1]], s)]
  <2> HIDE DEF bad, locators, bodies, probes
  <2> QED  BY <1>1, <1>2
<1>9. [l \in locators |-> shape_row(bodies[l[1]][l[2]], probes[l[1]], s)] = [l \in RowPlaces(objects, s) |-> RowAt(objects, s, l)]
  <2> HIDE DEF locators, bodies, probes
  <2> QED  BY <1>6, <1>7
<1> QED  BY <1>4, <1>8, <1>9

\* Two specs that read objects alike.
SameReading(r, s) == r.read = s.read /\ NamesOf(r.columns) = NamesOf(s.columns)

\* A probe that passed binds the columns at the places of the header, for each
\* spec that reads alike.
LEMMA ProbeBinds ==
  ASSUME NEW o, WellListed(o), NEW x, NEW s, SameReading(x, s), ColumnsOK(s), s.read.skip \in Nat,
         probe_header(o, x) # None
  PROVE  /\ Binds(probe_header(o, x), HeaderOf(o, s), s)
         /\ s.read.header => Len(o.lines) > s.read.skip
<1> DEFINE header == o.lines[x.read.skip + 1].cells
           bad == \/ ~o.readable
                  \/ x.read.header /\ \/ Len(o.lines) <= x.read.skip
                                      \/ parse_line(o.lines[x.read.skip + 1]) = None
                                      \/ ~NoRepeats(header)
                                      \/ \E c \in Elems(x.columns) : c.required /\ c.name \notin Elems(header)
<1>1. probe_header(o, x) = IF bad THEN None ELSE bind_header(IF x.read.header THEN header ELSE <<>>, x)
  BY Zenon DEF probe_header
<1>2. ~bad /\ probe_header(o, x) = bind_header(IF x.read.header THEN header ELSE <<>>, x)
  <2> HIDE DEF bad, header
  <2> QED  BY <1>1
<1>3. x.read = s.read /\ NamesOf(x.columns) = NamesOf(s.columns) /\ Declared(x.columns) = Declared(s.columns)
  BY DEF SameReading, Declared
<1>4. Len(o.lines) \in Nat /\ o.lines \in Seq(Elems(o.lines))  BY DEF WellListed
<1>5. s.read.header => Len(o.lines) > s.read.skip /\ NoRepeats(header)  BY <1>2, <1>3, <1>4
<1>6. CASE s.read.header
  <2>1. o.lines[s.read.skip + 1] \in Elems(o.lines)  BY <1>4, <1>5, <1>6 DEF Elems
  <2>2. HeaderOf(o, s) = header /\ header \in Seq(Elems(header))
    BY <1>3, <1>6, <2>1 DEF WellListed, HeaderOf
  <2>3. bind_header(header, x) =
          [column_at |-> [i \in DOMAIN header |-> IF header[i] \in Declared(s.columns) THEN header[i] ELSE None],
           tokens |-> header]
    <3> HIDE DEF header
    <3> QED  BY <1>3, <1>6 DEF bind_header
  <2> HIDE DEF header
  <2>4. Binds(bind_header(header, x), header, s)  BY <1>5, <1>6, <2>2, <2>3 DEF Binds
  <2> QED  BY <1>2, <1>3, <1>5, <1>6, <2>2, <2>4
<1>7. CASE ~s.read.header
  <2> DEFINE names == NamesOf(s.columns)
  <2>1. HeaderOf(o, s) = names  BY <1>7 DEF HeaderOf
  <2>2. names \in Seq(Elems(names)) /\ NoRepeats(names)
    <3>1. names \in [1..Len(s.columns) -> Elems(names)] /\ Len(s.columns) \in Nat
      BY DEF NamesOf, ColumnsOK, Elems
    <3> HIDE DEF names
    <3>2. names \in Seq(Elems(names))  BY <3>1
    <3> QED  BY <3>2 DEF ColumnsOK, names
  <2>3. \A i \in DOMAIN names : names[i] \in Declared(s.columns)  BY DEF Declared, Elems
  <2> HIDE DEF names
  <2>4. bind_header(<<>>, x) = [column_at |-> names, tokens |-> names]  BY <1>3, <1>7 DEF bind_header, names
  <2>5. names = [i \in DOMAIN names |-> IF names[i] \in Declared(s.columns) THEN names[i] ELSE None]
    BY <2>2, <2>3
  <2>6. Binds(bind_header(<<>>, x), names, s)  BY <2>2, <2>4, <2>5 DEF Binds
  <2> QED  BY <1>2, <1>3, <1>7, <2>1, <2>6
<1> QED  BY <1>6, <1>7

\* Rows as the columns of a spec show them.
ShownAs(raw, s) ==
  [l \in DOMAIN raw |->
     [raw[l] EXCEPT !.cells = [n \in Declared(s.columns) |-> IF n \in DOMAIN @ THEN @[n] ELSE None]]]

\* A row shaped for a spec is shown by it as it is.
LEMMA RowsShown ==
  ASSUME NEW record, NEW b, NEW x, NEW s, SameReading(x, s)
  PROVE  LET r == shape_row(record, b, x)
         IN /\ r = shape_row(record, b, s)
            /\ [r EXCEPT !.cells = [n \in Declared(s.columns) |-> IF n \in DOMAIN @ THEN @[n] ELSE None]] = r
<1> DEFINE r == shape_row(record, b, x)
<1>1. Declared(x.columns) = Declared(s.columns)  BY DEF SameReading, Declared
<1>2. r = shape_row(record, b, s)  BY <1>1, Zenon DEF shape_row
<1>3. \E m, e, f : r = [malformed_text |-> m, cells |-> [n \in Declared(x.columns) |-> f[n]], extras |-> e]
  <2> DEFINE tokens == record.tokens
             malformed == tokens = None \/ Len(tokens) # Len(b.column_at)
             at(name) == {i \in DOMAIN tokens : b.column_at[i] = name}
             cell(name) == IF at(name) = {} THEN None
                           ELSE LET c == tokens[CHOOSE i \in at(name) : TRUE]
                                IN IF c = "" THEN None ELSE c
             extra == {i \in DOMAIN tokens : b.column_at[i] = None}
             names == {b.tokens[i] : i \in extra}
             f == [n \in Declared(x.columns) |-> IF malformed THEN None ELSE cell(n)]
  <2>1. r = [malformed_text |-> IF malformed THEN record.text ELSE None,
             cells |-> f,
             extras |-> IF malformed THEN << >>
                        ELSE [k \in names |-> tokens[CHOOSE i \in extra : b.tokens[i] = k]]]
    BY Zenon DEF shape_row
  <2>2. f = [n \in Declared(x.columns) |-> f[n]]  OBVIOUS
  <2> DEFINE m == IF malformed THEN record.text ELSE None
             e == IF malformed THEN << >> ELSE [k \in names |-> tokens[CHOOSE i \in extra : b.tokens[i] = k]]
  <2>3. r = [malformed_text |-> m, cells |-> f, extras |-> e]  BY <2>1
  <2> HIDE DEF f, m, e, r
  <2> QED  BY <2>2, <2>3
<1>4. PICK m, e, f : r = [malformed_text |-> m, cells |-> [n \in Declared(x.columns) |-> f[n]], extras |-> e]  BY <1>3
<1> DEFINE g == [n \in Declared(s.columns) |-> IF n \in DOMAIN r.cells THEN r.cells[n] ELSE None]
<1> HIDE DEF r
<1>5. r.cells = g  BY <1>1, <1>4
<1>6. [r EXCEPT !.cells = g] = r
  <2> HIDE DEF g
  <2> QED  BY <1>4, <1>5
<1>7. [r EXCEPT !.cells = [n \in Declared(s.columns) |-> IF n \in DOMAIN @ THEN @[n] ELSE None]] = [r EXCEPT !.cells = g]
  OBVIOUS
<1> QED  BY <1>2, <1>6, <1>7 DEF r

\* The places of the broken lines of all objects.
BrokenPlaces(objects, s) == UNION {{i} \X BrokenLines(Sorted(objects)[i], s) : i \in DOMAIN Sorted(objects)}

\* The lines that the contract of a spec refuses are the broken ones, whichever
\* spec that reads alike read them.
LEMMA LinesRefused ==
  ASSUME NEW objects, NEW x, NEW s, SameReading(x, s), ColumnsOK(s), s.read.skip \in Nat, ~s.read.multiline,
         \A o \in Elems(Sorted(objects)) : WellListed(o), read_objects(objects, x) # None
  PROVE  DOMAIN violations(ShownAs(read_objects(objects, x), s), s) = BrokenPlaces(objects, s)
<1> DEFINE sorted == Sorted(objects)
           rows == read_objects(objects, x)
           shown == ShownAs(rows, s)
<1>1. /\ \A i \in DOMAIN sorted : probe_header(sorted[i], x) # None
      /\ rows = [l \in RowPlaces(objects, x) |-> RowAt(objects, x, l)]
  BY ReadsRows
<1>2. ASSUME NEW i \in DOMAIN sorted
      PROVE  /\ DOMAIN Body(objects, x, i) = DOMAIN LinesOf(sorted[i], s)
             /\ \A k \in DOMAIN LinesOf(sorted[i], s) :
                  LET r == RowAt(objects, x, <<i, k>>)
                  IN /\ [r EXCEPT !.cells = [n \in Declared(s.columns) |-> IF n \in DOMAIN @ THEN @[n] ELSE None]] = r
                     /\ evaluate(r, s) = {} <=> LineConforms(LinesOf(sorted[i], s)[k], HeaderOf(sorted[i], s), s)
  <2> DEFINE o == sorted[i]
             b == probe_header(o, x)
             header == HeaderOf(o, s)
  <2>1. WellListed(o) /\ b # None  BY <1>1 DEF Elems
  <2> HIDE DEF sorted, o
  <2>2. Binds(b, header, s) /\ (s.read.header => Len(o.lines) > s.read.skip)  BY <2>1, ProbeBinds
  <2>3. /\ BodyRecords(o, s) = [k \in DOMAIN LinesOf(o, s) |-> LineRecord(LinesOf(o, s)[k])]
        /\ \A k \in DOMAIN LinesOf(o, s) : LinesOf(o, s)[k] \in Elems(o.lines)
    BY <2>1, <2>2, BodyLines
  <2>4. BodyRecords(o, x) = BodyRecords(o, s)  BY Zenon DEF BodyRecords, SameReading
  <2>5. Body(objects, x, i) = BodyRecords(o, x)  BY DEF Body, sorted, o
  <2>6. ASSUME NEW k \in DOMAIN LinesOf(o, s)
        PROVE  LET r == RowAt(objects, x, <<i, k>>)
               IN /\ [r EXCEPT !.cells = [n \in Declared(s.columns) |-> IF n \in DOMAIN @ THEN @[n] ELSE None]] = r
                  /\ evaluate(r, s) = {} <=> LineConforms(LinesOf(o, s)[k], header, s)
    <3> DEFINE l == LinesOf(o, s)[k]
               r == RowAt(objects, x, <<i, k>>)
               q == shape_row(LineRecord(l), b, s)
    <3>1. l \in Elems(o.lines) /\ Body(objects, x, i)[k] = LineRecord(l)  BY <2>3, <2>4, <2>5, <2>6
    <3>2. CellsOK(l)  BY <2>1, <3>1 DEF WellListed, CellsOK
    <3>3. r = shape_row(Body(objects, x, i)[k], b, x)
      <4>1. <<i, k>>[1] = i /\ <<i, k>>[2] = k  OBVIOUS
      <4>2. r = shape_row(Body(objects, x, <<i, k>>[1])[<<i, k>>[2]], probe_header(Sorted(objects)[<<i, k>>[1]], x), x)
        BY Zenon DEF RowAt
      <4> QED  BY <4>1, <4>2 DEF b, o, sorted
    <3> HIDE DEF l, r, q, b, header
    <3>4. r = shape_row(LineRecord(l), b, x)  BY <3>1, <3>3
    <3>5. /\ r = shape_row(LineRecord(l), b, s)
          /\ [r EXCEPT !.cells = [n \in Declared(s.columns) |-> IF n \in DOMAIN @ THEN @[n] ELSE None]] = r
      BY <3>4, RowsShown
    <3>6. IF Balanced(l) /\ Len(l.cells) = Len(header) THEN RowOf(r, l, header, s) ELSE r.malformed_text # None
      <4>1. None \notin Declared(s.columns)  BY DEF ColumnsOK
      <4> QED  BY <2>2, <3>2, <3>5, <4>1, RowsShaped
    <3>7. header \in Seq(Elems(header))  BY <2>2 DEF Binds
    <3>8. evaluate(r, s) = {} <=> LineConforms(l, header, s)  BY <3>2, <3>6, <3>7, LinesJudged
    <3> QED  BY <3>5, <3>8 DEF l, r
  <2> HIDE DEF header
  <2>7. DOMAIN Body(objects, x, i) = DOMAIN LinesOf(o, s)  BY <2>3, <2>4, <2>5
  <2> QED  BY <2>6, <2>7 DEF o, header
<1> HIDE DEF sorted
<1>3. DOMAIN violations(shown, s) = {l \in DOMAIN shown : evaluate(shown[l], s) # {}}
  BY DEF violations, Restrict
<1>4. ASSUME NEW i \in DOMAIN sorted, NEW k
      PROVE  <<i, k>> \in RowPlaces(objects, x) <=> k \in DOMAIN LinesOf(sorted[i], s)
  <2>1. DOMAIN Body(objects, x, i) = DOMAIN LinesOf(sorted[i], s)  BY <1>2
  <2> QED  BY <2>1 DEF RowPlaces, sorted
<1>5. \A l \in RowPlaces(objects, x) : \E i \in DOMAIN sorted : \E k : l = <<i, k>>
  BY DEF RowPlaces, sorted
<1>6. DOMAIN shown = RowPlaces(objects, x)
  <2> HIDE DEF rows
  <2> QED  BY <1>1 DEF ShownAs
<1>7. ASSUME NEW i \in DOMAIN sorted, NEW k \in DOMAIN LinesOf(sorted[i], s)
      PROVE  evaluate(shown[<<i, k>>], s) = {} <=> LineConforms(LinesOf(sorted[i], s)[k], HeaderOf(sorted[i], s), s)
  <2> DEFINE l == <<i, k>>
             r == RowAt(objects, x, l)
  <2>1. l \in RowPlaces(objects, x)  BY <1>4
  <2>2. /\ [r EXCEPT !.cells = [n \in Declared(s.columns) |-> IF n \in DOMAIN @ THEN @[n] ELSE None]] = r
        /\ evaluate(r, s) = {} <=> LineConforms(LinesOf(sorted[i], s)[k], HeaderOf(sorted[i], s), s)
    BY <1>2
  <2> HIDE DEF l, rows, r
  <2>3. l \in DOMAIN rows /\ rows[l] = r  BY <1>1, <2>1 DEF r
  <2>4. shown[l] = [rows[l] EXCEPT !.cells = [n \in Declared(s.columns) |-> IF n \in DOMAIN @ THEN @[n] ELSE None]]
    BY <2>3 DEF ShownAs
  <2>5. shown[l] = r  BY <2>2, <2>3, <2>4
  <2> HIDE DEF shown
  <2> QED  BY <2>2, <2>5 DEF l
<1> DEFINE broken == UNION {{i} \X BrokenLines(sorted[i], s) : i \in DOMAIN sorted}
<1>8. ASSUME NEW i \in DOMAIN sorted, NEW k
      PROVE  <<i, k>> \in broken <=>
               k \in DOMAIN LinesOf(sorted[i], s) /\ ~LineConforms(LinesOf(sorted[i], s)[k], HeaderOf(sorted[i], s), s)
  BY DEF BrokenLines
<1>9. \A l \in broken : \E i \in DOMAIN sorted : \E k : l = <<i, k>>
  OBVIOUS
<1> HIDE DEF broken, shown
<1>10. DOMAIN violations(shown, s) = broken
  BY <1>3, <1>4, <1>5, <1>6, <1>7, <1>8, <1>9
<1> QED  BY <1>10 DEF broken, shown, sorted, BrokenPlaces

-------------------------------------------------------------------------------
\* Which reading of the objects was landed and judged

\* The rows that are landed, and those a judgment was made of, are what a spec
\* that ran read of the objects.
HasRead == (job # None /\ (job.pc = "announce" \/ Past("land"))) \/ Landed
ReadBy(raw) == \E x \in RunSpecs : read_objects(Objects, x) # None /\ raw = read_objects(Objects, x)
JudgedBy(v) ==
  \E raw : ReadBy(raw) /\ LET s == scene.specs[v]
                          IN batch.preq = shape_pre_quarantine(violations(ShownAs(raw, s), s), s)
JudgeInv ==
  /\ HasRead => ReadBy(batch.raw)
  /\ batch.judge # 0 => batch.judge \in batch.by /\ JudgedBy(batch.judge)
  /\ \A s \in RunSpecs : Parses(s) /\ EngineProbes(s) /\ s \in Elems(scene.specs)
  /\ batch.by # {} => PlainNames /\ exec.status # "none" /\ exec.detail \in scene.details

\* Only the landing leaves a job that is about to announce.
LEMMA AnnounceFrom ==
  ASSUME JobOK, Staging, job' # None, job'.pc = "announce"
  PROVE  Land
<1>1. job # None /\ Due(job') = Due(job) /\ DOMAIN job = JobFields  BY StagingStep DEF JobOK, RunningJob
<1>2. Due(job) = 1  BY <1>1, Places DEF Due, Starting, StageOf
<1>3. ~(Load \/ Describe \/ Bind)  BY StartEffect
<1>4. ~(EffectRaises \/ Die)  BY FaultEffect DEF FailedAs
<1>5. ~Announce  BY <1>1 DEF Announce, Ended, Report, JobFields
<1>6. ~(PreCheck \/ Pull \/ Apply \/ PostCheck \/ OpenCommit \/ CommitTable \/ Complete \/ OpenFold \/ FoldTable \/ EndFold \/ Publish)
  <2>1. ASSUME job.pc \in {"pre_check", "pull", "apply", "post_check", "commit", "tables", "fold", "states", "publish"}
        PROVE  FALSE
    BY <1>2, <2>1, Places DEF Due, Starting, StageOf
  <2> QED  BY <2>1 DEF PreCheck, Pull, Apply, PostCheck, OpenCommit, CommitTable, Complete, OpenFold, FoldTable, EndFold, Publish, At
<1> QED  BY <1>3, <1>4, <1>5, <1>6 DEF Staging

\* A step that leaves the batch and its objects alone.
LEMMA JudgeKept ==
  ASSUME JudgeInv, scene' = scene, batch' = batch, HasRead' => HasRead,
         batch.by # {} => exec'.detail = exec.detail /\ exec'.status # "none"
  PROVE  JudgeInv'
<1>1. CASE batch.by = {}
  <2>1. RunSpecs = {} /\ RunSpecs' = {}  BY <1>1 DEF RunSpecs
  <2>2. ~HasRead /\ batch.judge = 0  BY <1>1, <2>1 DEF JudgeInv, ReadBy
  <2>3. ~HasRead' /\ batch'.judge = 0 /\ batch'.by = {}  BY <1>1, <2>2
  <2> QED  BY <2>1, <2>3 DEF JudgeInv
<1>2. CASE batch.by # {}
  <2>1. Objects' = Objects /\ RunSpecs' = RunSpecs /\ (PlainNames' <=> PlainNames)
    BY <1>2 DEF Objects, RunSpecs, PlainNames
  <2>2. \A raw : ReadBy(raw)' <=> ReadBy(raw)  BY <2>1 DEF ReadBy
  <2>3. ReadBy(batch.raw) => ReadBy(batch.raw)'  BY <2>1 DEF ReadBy
  <2>4. JudgedBy(batch.judge) => JudgedBy(batch.judge)'  BY <2>2 DEF JudgedBy
  <2> QED  BY <1>2, <2>1, <2>3, <2>4 DEF JudgeInv
<1> QED  BY <1>1, <1>2

LEMMA JudgeStaging ==
  ASSUME JudgeInv, ProbedInv, LifeInv, JobOK, BoundInv, Staging
  PROVE  JudgeInv'
<1>0. /\ job # None /\ DOMAIN job = JobFields /\ DOMAIN batch = BatchFields /\ exec' = exec /\ scene' = scene
      /\ exec.status = "running" /\ "land" \in Stages
  BY StagingStep, StagingBinds, Places DEF JobOK, RunningJob, BoundInv
<1>1. Objects' = Objects /\ (PlainNames' <=> PlainNames)  BY <1>0 DEF Objects, PlainNames
<1>2. \/ batch'.by = batch.by
      \/ job.pc = "bind" /\ batch' = [batch EXCEPT !.by = @ \cup {job.version}]
  BY <1>0, StagingBinds
<1>3. RunSpecs \subseteq RunSpecs' /\ batch.by \subseteq batch'.by  BY <1>0, <1>2 DEF RunSpecs, BatchFields
<1>4. \A raw : ReadBy(raw) => ReadBy(raw)'  BY <1>1, <1>3 DEF ReadBy
<1>5. /\ \A s \in RunSpecs' : Parses(s) /\ EngineProbes(s) /\ s \in Elems(scene'.specs)
      /\ batch'.by # {} => PlainNames' /\ exec'.status # "none" /\ exec'.detail \in scene'.details
  <2>1. CASE batch'.by = batch.by
    <3>1. RunSpecs' = RunSpecs  BY <1>0, <2>1 DEF RunSpecs
    <3> QED  BY <1>0, <1>1, <2>1, <3>1 DEF JudgeInv
  <2>2. CASE job.pc = "bind" /\ batch' = [batch EXCEPT !.by = @ \cup {job.version}]
    <3>1. RunSpecs' = RunSpecs \cup {job.spec} /\ job.spec \in Elems(scene.specs)
      <4>1. job.version \in DOMAIN scene.specs /\ job.spec = scene.specs[job.version]  BY <1>0, <2>2 DEF BoundInv
      <4>2. batch'.by = batch.by \cup {job.version}  BY <1>0, <2>2 DEF BatchFields
      <4> QED  BY <1>0, <4>1, <4>2 DEF RunSpecs, Elems
    <3>2. Parses(job.spec) /\ EngineProbes(job.spec) /\ PlainNames /\ exec.detail \in scene.details
      BY <1>0, <2>2 DEF LifeInv, ProbedInv
    <3> QED  BY <1>0, <1>1, <3>1, <3>2 DEF JudgeInv
  <2> QED  BY <1>2, <2>1, <2>2
<1>6. HasRead' => ReadBy(batch.raw)'
  <2> SUFFICES ASSUME HasRead' PROVE ReadBy(batch.raw)'  OBVIOUS
  <2> DEFINE Lands == /\ Land /\ ~Landed /\ read_objects(Objects, job.spec) # None
                      /\ batch' = [batch EXCEPT !.raw = read_objects(Objects, job.spec)]
  <2>1. CASE Lands
    <3>1. job.version \in batch.by /\ job.spec = scene.specs[job.version]
      BY <1>0, <2>1 DEF Land, At, BoundInv, Starting
    <3>2. job.spec \in RunSpecs  BY <3>1 DEF RunSpecs
    <3>3. ReadBy(read_objects(Objects, job.spec))  BY <2>1, <3>2 DEF ReadBy
    <3>4. batch'.raw = read_objects(Objects, job.spec)  BY <1>0, <2>1 DEF BatchFields
    <3>5. \E x \in RunSpecs' : read_objects(Objects', x) # None /\ batch'.raw = read_objects(Objects', x)
      BY <1>1, <1>3, <3>2, <3>4, <2>1
    <3> QED  BY <3>5 DEF ReadBy
  <2>2. CASE ~Lands /\ batch'.raw = batch.raw
    <3>1. HasRead
      <4>1. Landed' => Landed  BY <2>2 DEF Landed
      <4>2. SUFFICES ASSUME ~Landed, job' # None, job'.pc = "announce" \/ Past("land")' PROVE HasRead
        BY <4>1 DEF HasRead
      <4>3. CASE job'.pc = "announce"
        <5>1. Land  BY <4>2, <4>3, AnnounceFrom
        <5>2. /\ ~Landed /\ read_objects(Objects, job.spec) # None
              /\ batch' = [batch EXCEPT !.raw = read_objects(Objects, job.spec)]
          BY <4>2, <4>3, <5>1, LandEffect DEF FailedAs
        <5> QED  BY <2>2, <5>1, <5>2
      <4>4. CASE Past("land")'
        <5>1. Past("land") \/ Announce  BY <1>0, <4>2, <4>4, PastStaging DEF Ends
        <5> QED  BY <1>0, <5>1 DEF HasRead, Announce, At
      <4> QED  BY <4>2, <4>3, <4>4
    <3>2. ReadBy(batch.raw)  BY <3>1 DEF JudgeInv
    <3> QED  BY <1>1, <1>3, <2>2, <3>2 DEF ReadBy
  <2> QED  BY <1>0, <2>1, <2>2, StagingWrites, LandEffect DEF BatchWrites
<1>7. batch'.judge # 0 => batch'.judge \in batch'.by /\ JudgedBy(batch.judge)'
  <2>1. CASE batch'.preq = batch.preq /\ batch'.judge = batch.judge
    <3>1. JudgedBy(batch.judge) => JudgedBy(batch.judge)'  BY <1>0, <1>4, <2>1 DEF JudgedBy
    <3> QED  BY <1>3, <2>1, <3>1 DEF JudgeInv
  <2>2. CASE PreCheck /\ batch' # batch
    <3> DEFINE s == job.spec
    <3>1. /\ job.pc = "pre_check"
          /\ batch' = [batch EXCEPT !.preq = shape_pre_quarantine(violations(RawRows(s), s), s), !.judge = job.version]
      BY <2>2, PreCheckEffect
    <3>2. /\ batch'.preq = shape_pre_quarantine(violations(RawRows(s), s), s)
          /\ batch'.judge = job.version /\ batch'.by = batch.by
      BY <1>0, <3>1 DEF BatchFields
    <3>3. job.version \in batch.by /\ s = scene.specs[job.version]
      BY <1>0, <3>1 DEF BoundInv, Starting
    <3>4. Past("land")  BY <1>0, <3>1, Places, PastAt DEF Starting, StageOf
    <3>5. ReadBy(batch.raw)  BY <1>0, <3>4 DEF JudgeInv, HasRead
    <3>6. RawRows(s) = ShownAs(batch.raw, s)  BY DEF RawRows, ShownAs
    <3>7. PICK raw : raw = batch.raw  OBVIOUS
    <3>8. ReadBy(raw)
      <4>1. ReadBy(batch.raw) <=> ReadBy(raw)  BY <3>7 DEF ReadBy
      <4> QED  BY <3>5, <4>1
    <3>9. ReadBy(raw)'  BY <1>4, <3>8
    <3>10. scene'.specs[batch'.judge] = s  BY <1>0, <3>2, <3>3
    <3>11. batch'.preq = shape_pre_quarantine(violations(ShownAs(raw, s), s), s)  BY <3>2, <3>6, <3>7
    <3> HIDE DEF s
    <3>12. JudgedBy(batch.judge)'  BY <3>9, <3>10, <3>11 DEF JudgedBy
    <3> QED  BY <3>2, <3>3, <3>12
  <2>3. CASE batch' = batch  BY <2>1, <2>3
  <2> QED  BY <1>0, <2>1, <2>2, <2>3, StagingWrites DEF BatchWrites
<1> QED  BY <1>5, <1>6, <1>7 DEF JudgeInv
LEMMA JudgeNext ==
  ASSUME GapInv, BoundInv, LifeInv, ProbedInv, JudgeInv, [Next]_allVars
  PROVE  JudgeInv'
<1>0. JobOK /\ ExecOK /\ scene' = scene  BY WorldSteps DEF GapInv
<1>1. CASE Route \/ Retry \/ GiveUp \/ Rerun
  <2>1. batch' = batch /\ (job' = Fresh \/ job' = None)  BY <1>0, <1>1, ExecSteps
  <2>2. HasRead' => HasRead
    <3>1. job' # None => ~Past("land")' /\ job'.pc # "announce"
      <4>1. SUFFICES ASSUME job' # None PROVE ~Past("land")' /\ job'.pc # "announce"  OBVIOUS
      <4>2. job' = Fresh  BY <2>1, <4>1
      <4>3. job'.pc = "load" /\ Due(job') = 1  BY <4>2, FreshJob DEF Fresh
      <4> QED  BY <4>3, Places DEF Past
    <3>2. Landed' <=> Landed  BY <2>1 DEF Landed
    <3> QED  BY <3>1, <3>2 DEF HasRead
  <2>3. batch.by # {} => exec.status # "none"  BY DEF JudgeInv
  <2>4. batch.by # {} => exec'.detail = exec.detail /\ exec'.status # "none"
    BY <1>0, <1>1, <2>3, ExecSteps DEF Route, Retry, GiveUp, Rerun, ExecOK
  <2> QED  BY <1>0, <2>1, <2>2, <2>4, JudgeKept
<1>2. CASE Staging  BY <1>0, <1>2, JudgeStaging
<1>3. CASE RecordRun
  <2>1. /\ job # None /\ batch' = batch
        /\ job' = None \/ job' = [job EXCEPT !.pc = Following(job.pending.stage), !.pending = None]
        /\ exec' = exec \/ exec' = [exec EXCEPT !.status = "succeeded"]
    BY <1>3 DEF RecordRun, At
  <2>2. DOMAIN job = JobFields  BY <1>0, <2>1 DEF JobOK, RunningJob
  <2>3. job' # None => (Past("land")' <=> Past("land")) /\ job'.pc # "announce"
    <3>1. ASSUME job' # None PROVE (Past("land")' <=> Past("land")) /\ job'.pc # "announce"
      <4>1. Past("land")' <=> Past("land")  BY <1>0, <1>3, <3>1, Places, PastRecord
      <4>2. job.pending.outcome # "failed" /\ ~(job.pending.stage = "publish" /\ job.pending.outcome = "ok")
        BY <1>3, <3>1 DEF RecordRun
      <4>3. job.pc = "record" /\ job.pending.stage \in Stages /\ PendingOK(job.pending, job.skips) /\ job.skips \subseteq Guarded
        BY <1>0, <1>3, <2>1 DEF JobOK, RunningJob, PendingOK, RecordRun, At
      <4>4. job.pending.stage # "publish"  BY <4>2, <4>3 DEF PendingOK, Outcomes, Guarded
      <4>5. Following(job.pending.stage) \in Stages  BY <4>3, <4>4, FollowingPlace
      <4>6. job'.pc = Following(job.pending.stage)  BY <2>1, <2>2, <3>1 DEF JobFields
      <4>7. "announce" \notin Stages  BY Places
      <4> QED  BY <4>1, <4>5, <4>6, <4>7
    <3> QED  BY <3>1
  <2>4. HasRead' => HasRead  BY <2>1, <2>3 DEF HasRead, Landed
  <2>5. exec'.detail = exec.detail /\ exec'.status # "none"  BY <1>0, <2>1 DEF JobOK, ExecOK
  <2> QED  BY <1>0, <2>1, <2>4, <2>5, JudgeKept
<1>4. CASE job' = job /\ batch' = batch /\ exec' = exec
  <2>1. HasRead' <=> HasRead  BY <1>4 DEF HasRead, Landed, Past, Due
  <2>2. batch.by # {} => exec'.detail = exec.detail /\ exec'.status # "none"  BY <1>4 DEF JudgeInv
  <2> QED  BY <1>0, <1>4, <2>1, <2>2, JudgeKept
<1> QED  BY <1>1, <1>2, <1>3, <1>4, StepKinds

LEMMA InvJudge == Spec => [](BoundInv /\ JudgeInv)
<1>1. Init => ProbedInv /\ JudgeInv
  <2> SUFFICES ASSUME Init PROVE ProbedInv /\ JudgeInv  OBVIOUS
  <2>1. exec.status = "none" /\ job = None /\ DOMAIN batch.raw = {} /\ batch.by = {} /\ batch.judge = 0  BY DEF Init, Idle
  <2>2. RunSpecs = {}  BY <2>1 DEF RunSpecs
  <2> QED  BY <2>1, <2>2 DEF ProbedInv, JudgeInv, HasRead, Landed
<1>2. GapInv /\ BoundInv /\ LifeInv /\ CatalogInv /\ ProbedInv /\ [Next]_allVars => ProbedInv'  BY ProbedNext
<1>3. GapInv /\ BoundInv /\ LifeInv /\ ProbedInv /\ JudgeInv /\ [Next]_allVars => JudgeInv'  BY JudgeNext
<1> QED  BY <1>1, <1>2, <1>3, InvLife, InvCatalog, PTL DEF Spec

\* From the bytes to the judgment: a line is refused before the transforms iff
\* it is broken (LineConforms), if the specs that ran on the batch name the
\* same columns and read objects alike.
THEOREM LinesRefusedIffBroken ==
  Spec => []((\A x, s \in RunSpecs : SameReading(x, s)) => RefusedIffBroken)
<1>1. ASSUME BoundInv, JudgeInv, \A x, s \in RunSpecs : SameReading(x, s), batch.judge # 0,
             NEW s, s = scene.specs[batch.judge], ~s.read.multiline
      PROVE  Locators(batch.preq) = UNION {{i} \X BrokenLines(Sorted(Objects)[i], s) : i \in DOMAIN Sorted(Objects)}
  <2>1. s \in RunSpecs /\ JudgedBy(batch.judge)  BY <1>1 DEF JudgeInv, RunSpecs
  <2>2. PICK raw : ReadBy(raw) /\ batch.preq = shape_pre_quarantine(violations(ShownAs(raw, s), s), s)
    BY <1>1, <2>1 DEF JudgedBy
  <2>3. PICK x \in RunSpecs : read_objects(Objects, x) # None /\ raw = read_objects(Objects, x)
    BY <2>2 DEF ReadBy
  <2>4. SameReading(x, s)  BY <1>1, <2>1, <2>3
  <2>5. Parses(s) /\ EngineProbes(s) /\ s \in Elems(scene.specs) /\ scene \in Scenes
    BY <1>1, <2>1 DEF JudgeInv, BoundInv
  <2>6. s.columns \in Seq(Elems(s.columns))  BY <2>5, SceneAssumption
  <2>7. ColumnsOK(s)  BY <2>5, <2>6, ProbedColumns
  <2>8. s.read.skip \in Nat
    <3>1. ReadSpecOK(s.read)  BY <2>5 DEF Parses
    <3>2. MaxSkip \in Nat  BY DEF MaxSkip
    <3> QED  BY <3>1, <3>2 DEF ReadSpecOK
  <2>9. \A o \in Elems(Sorted(Objects)) : WellListed(o)
    <3>1. PlainNames /\ exec.detail \in scene.details  BY <1>1, <2>1 DEF JudgeInv, RunSpecs
    <3>2. \A u \in Elems(exec.detail.object_uris) : u.name \notin BadObjectNames  BY <3>1 DEF PlainNames
    <3>3. \A o \in Elems(Sorted(ObjectsOf(scene, exec.detail))) : WellListed(o)
      BY <2>5, <3>1, <3>2, DataAssumption
    <3> QED  BY <3>3 DEF Objects
  <2>10. DOMAIN violations(ShownAs(raw, s), s) = BrokenPlaces(Objects, s)
    BY <1>1, <2>3, <2>4, <2>7, <2>8, <2>9, LinesRefused
  <2>11. Locators(batch.preq) = DOMAIN violations(ShownAs(raw, s), s)  BY <2>2, ShapedLocators
  <2> QED  BY <2>10, <2>11 DEF BrokenPlaces
<1>2. ASSUME BoundInv, JudgeInv, \A x, s \in RunSpecs : SameReading(x, s) PROVE RefusedIffBroken
  BY <1>1, <1>2 DEF RefusedIffBroken
<1> QED  BY <1>2, InvJudge, PTL
=============================================================================
