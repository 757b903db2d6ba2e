---------------------------- MODULE SpineJobProofs ----------------------------
(***************************************************************************)
(* What is proved of SpineJob for every value of its constants: the        *)
(* reports of its stages, and what later proofs cite of numbers and        *)
(* sequences, trees, the check grammar and the names.                      *)
(***************************************************************************)
EXTENDS SpineJob, SequenceTheorems, WellFoundedInduction, TLAPS

-------------------------------------------------------------------------------
\* The job and the run ledger

JobFields == {"pc", "version", "spec", "facts", "skips", "drift", "valid", "co", "cands", "admitted", "left", "pending"}
Starting == {"load", "describe", "bind"}
Working == {"land", "announce", "pre_check", "pull", "apply", "post_check", "commit", "tables", "fold", "states", "publish"}
Guarded == {"land", "pre_check", "post_check", "commit"}
Told == DOMAIN ledger.rows \cup ledger.losses

PendingOK(p, skips) ==
  /\ p.attempt = Attempt /\ p.stage \in Stages /\ p.outcome \in Outcomes
  /\ p.outcome = "skipped-guard" => p.stage \in skips

RunningJob(j) ==
  /\ DOMAIN j = JobFields
  /\ j.pc \in Starting \cup Working \cup {"record"}
  /\ j.skips \subseteq Guarded
  /\ j.pc = "record" => PendingOK(j.pending, j.skips)

JobOK == job # None => RunningJob(job) /\ exec.status = "running"

\* The place of the stage a job is in, or reports.
Due(j) ==
  IF j.pc = "record" THEN Place(j.pending.stage)
  ELSE IF j.pc \in Starting THEN 1 ELSE Place(StageOf(j.pc))

ExecOK ==
  /\ DOMAIN exec = {"status", "detail", "machine", "try", "rerun"}
  /\ exec.try \in Nat /\ exec.rerun \in Nat

-------------------------------------------------------------------------------
\* The stages are in eight different places.
LEMMA Places ==
  /\ DOMAIN SEQUENCE = 1..8
  /\ Place("land") = 1 /\ Place("pre_check") = 2 /\ Place("pull") = 3 /\ Place("apply") = 4
  /\ Place("post_check") = 5 /\ Place("commit") = 6 /\ Place("fold") = 7 /\ Place("publish") = 8
  /\ Stages = {"land", "pre_check", "pull", "apply", "post_check", "commit", "fold", "publish"}
<1>1. DOMAIN SEQUENCE = 1..8  BY DEF SEQUENCE
<1>2. \A i \in 1..8 : Place(SEQUENCE[i]) = i
  <2>1. \A i, j \in 1..8 : SEQUENCE[i] = SEQUENCE[j] => i = j  BY DEF SEQUENCE
  <2> QED  BY <1>1, <2>1 DEF Place
<1>3. /\ SEQUENCE[1] = "land" /\ SEQUENCE[2] = "pre_check" /\ SEQUENCE[3] = "pull" /\ SEQUENCE[4] = "apply"
      /\ SEQUENCE[5] = "post_check" /\ SEQUENCE[6] = "commit" /\ SEQUENCE[7] = "fold" /\ SEQUENCE[8] = "publish"
  BY DEF SEQUENCE
<1>4. Stages = {"land", "pre_check", "pull", "apply", "post_check", "commit", "fold", "publish"}
  <2>1. Stages = {SEQUENCE[i] : i \in 1..8}  BY <1>1 DEF Stages
  <2> QED  BY <2>1, <1>3
<1> QED  BY <1>1, <1>2, <1>3, <1>4

\* The stage after another is the one in the next place.
LEMMA FollowingPlace ==
  ASSUME NEW s \in Stages, s # "publish"
  PROVE  /\ Place(s) \in 1..7 /\ Following(s) \in Stages \cap Working
         /\ Place(Following(s)) = Place(s) + 1 /\ StageOf(Following(s)) = Following(s)
  BY Places DEF Following, SEQUENCE, Working, StageOf

\* A report of a stage by its end, or by a failure, is as it should be.
LEMMA EndedOK ==
  ASSUME NEW j, DOMAIN j = JobFields, j.skips \subseteq Guarded, NEW stage \in Stages,
         NEW k, k = Ended(stage, j)
  PROVE  RunningJob(k) /\ Due(k) = Place(stage) /\ k.skips = j.skips
<1> DEFINE o == IF stage \in j.skips THEN "skipped-guard" ELSE "ok"
<1>1. k = Report(stage, o, None, j)  BY DEF Ended
<1>2. DOMAIN k = JobFields /\ k.pc = "record" /\ k.skips = j.skips
      /\ k.pending.stage = stage /\ k.pending.outcome = o /\ k.pending.attempt = Attempt
  BY <1>1 DEF Report, JobFields
<1> QED  BY <1>2 DEF RunningJob, PendingOK, Due, Outcomes

LEMMA RaisedOK ==
  ASSUME job # None, JobOK, NEW stage \in Stages, NEW cause, NEW k, k = Raised(stage, cause)
  PROVE  RunningJob(k) /\ Due(k) = Place(stage) /\ k.skips = job.skips
<1>1. k = Report(stage, "failed", cause, job)  BY DEF Raised
<1>2. DOMAIN job = JobFields /\ job.skips \subseteq Guarded  BY DEF JobOK, RunningJob
<1>3. DOMAIN k = JobFields /\ k.pc = "record" /\ k.skips = job.skips
      /\ k.pending.stage = stage /\ k.pending.outcome = "failed" /\ k.pending.attempt = Attempt
  BY <1>1, <1>2 DEF Report, JobFields
<1> QED  BY <1>2, <1>3 DEF RunningJob, PendingOK, Due, Outcomes

\* The actions of the running job, reports to the ledger excepted.
Staging ==
  \/ Load \/ Describe \/ Bind \/ Land \/ Announce \/ PreCheck \/ Pull \/ Apply \/ PostCheck
  \/ OpenCommit \/ CommitTable \/ Complete \/ OpenFold \/ FoldTable \/ EndFold \/ Publish
  \/ EffectRaises \/ Die


LEMMA StagingStep ==
  ASSUME JobOK, Staging
  PROVE  /\ job # None /\ exec' = exec /\ ledger' = ledger
         /\ job' # None => RunningJob(job') /\ Due(job') = Due(job)
<1> DEFINE Goal == /\ job # None /\ exec' = exec /\ ledger' = ledger
                   /\ job' # None => RunningJob(job') /\ Due(job') = Due(job)
<1>0. job # None => /\ DOMAIN job = JobFields /\ job.skips \subseteq Guarded
                    /\ job.pc \in Starting \cup Working \cup {"record"}
  BY DEF JobOK, RunningJob
<1>stages. Working \cap Starting = {} /\ "record" \notin Starting \cup Working
  BY DEF Working, Starting
<1>1. ASSUME Load PROVE Goal
  <2> USE <1>1 DEF Load
  <2>1. job.pc = "load" /\ job # None /\ exec' = exec /\ ledger' = ledger  OBVIOUS
  <2>2. job' # None => DOMAIN job' = JobFields /\ job'.pc = "describe" /\ job'.skips = job.skips
    BY <1>0 DEF JobFields
  <2> QED  BY <1>0, <2>1, <2>2 DEF RunningJob, Due, Starting, Working
<1>2. ASSUME Describe PROVE Goal
  <2> USE <1>2 DEF Describe
  <2>1. job.pc = "describe" /\ job # None /\ exec' = exec /\ ledger' = ledger  OBVIOUS
  <2>2. job' # None => DOMAIN job' = JobFields /\ job'.pc = "bind" /\ job'.skips = job.skips
    BY <1>0 DEF JobFields
  <2> QED  BY <1>0, <2>1, <2>2 DEF RunningJob, Due, Starting, Working
<1>3. ASSUME Bind PROVE Goal
  <2> USE <1>3 DEF Bind
  <2>1. job.pc = "bind" /\ job # None /\ exec' = exec /\ ledger' = ledger  OBVIOUS
  <2>2. job' # None => DOMAIN job' = JobFields /\ job'.pc = "land" /\ job'.skips = job.skips
    BY <1>0 DEF JobFields
  <2> QED  BY <1>0, <2>1, <2>2, Places DEF RunningJob, Due, Starting, Working, StageOf
<1>4. ASSUME Land PROVE Goal
  <2>1. job.pc = "land" /\ job # None /\ exec' = exec /\ ledger' = ledger
    BY <1>4 DEF Land, At, StageFrame
  <2>2. \/ \E cause : job' = Raised("land", cause)
        \/ job' = Skipped("land", [job EXCEPT !.pc = "announce"])
        \/ job' = [job EXCEPT !.pc = "announce"]
    BY <1>4 DEF Land, Raise
  <2>3. ASSUME NEW cause, job' = Raised("land", cause) PROVE Goal
    BY <2>1, <2>3, RaisedOK, Places DEF Due, Starting, StageOf
  <2>4. ASSUME job' = [job EXCEPT !.pc = "announce"] \/ job' = Skipped("land", [job EXCEPT !.pc = "announce"]) PROVE Goal
    <3> DEFINE j == [job EXCEPT !.pc = "announce"]
    <3>1. DOMAIN j = JobFields /\ j.pc = "announce" /\ j.skips \subseteq Guarded
      BY <2>1, <1>0 DEF JobFields
    <3>2. job' = j \/ job' = Skipped("land", j)  BY <2>4
    <3> HIDE DEF j
    <3>3. DOMAIN job' = JobFields /\ job'.pc = "announce" /\ job'.skips \subseteq Guarded
      BY <3>1, <3>2 DEF JobFields, Skipped, Guarded
    <3> QED  BY <2>1, <3>3 DEF RunningJob, Due, Starting, Working, StageOf
  <2> QED  BY <2>2, <2>3, <2>4
<1>5. ASSUME Announce PROVE Goal
  <2>1. job.pc = "announce" /\ job # None /\ exec' = exec /\ ledger' = ledger /\ job' = Ended("land", job)
    BY <1>5 DEF Announce, At, StageFrame
  <2> QED  BY <2>1, <1>0, EndedOK, Places DEF Due, Starting, StageOf
<1>6. ASSUME PreCheck PROVE Goal
  <2>1. job.pc = "pre_check" /\ job # None /\ exec' = exec /\ ledger' = ledger
    BY <1>6 DEF PreCheck, At, StageFrame
  <2>2. \/ \E cause : job' = Raised("pre_check", cause)
        \/ \E v, d : job' = Ended("pre_check", Skipped("pre_check", Drifted("pre_check", d, PreChecked(v, job.spec))))
        \/ \E v, d : job' = Ended("pre_check", Drifted("pre_check", d, PreChecked(v, job.spec)))
        \/ \E v : job' = Ended("pre_check", PreChecked(v, job.spec))
    BY <1>6 DEF PreCheck, Raise
  <2>3. ASSUME NEW cause, job' = Raised("pre_check", cause) PROVE Goal
    BY <2>1, <2>3, RaisedOK, Places DEF Due, Starting, StageOf
  <2>4. ASSUME NEW j, job' = Ended("pre_check", j), DOMAIN j = JobFields, j.skips \subseteq Guarded PROVE Goal
    BY <2>1, <2>4, EndedOK, Places DEF Due, Starting, StageOf
  <2>5. \A v, d : LET j == Skipped("pre_check", Drifted("pre_check", d, PreChecked(v, job.spec)))
                  IN DOMAIN j = JobFields /\ j.skips \subseteq Guarded
    BY <2>1, <1>0 DEF Skipped, Drifted, PreChecked, JobFields, Guarded
  <2>6. \A v, d : LET j == Drifted("pre_check", d, PreChecked(v, job.spec))
                  IN DOMAIN j = JobFields /\ j.skips \subseteq Guarded
    BY <2>1, <1>0 DEF Drifted, PreChecked, JobFields, Guarded
  <2>7. \A v : LET j == PreChecked(v, job.spec) IN DOMAIN j = JobFields /\ j.skips \subseteq Guarded
    BY <2>1, <1>0 DEF PreChecked, JobFields, Guarded
  <2> QED  BY <2>2, <2>3, <2>4, <2>5, <2>6, <2>7
<1>7. ASSUME Pull PROVE Goal
  <2>1. job.pc = "pull" /\ job # None /\ exec' = exec /\ ledger' = ledger  BY <1>7 DEF Pull, At, StageFrame
  <2>2. (\E c : job' = Ended("pull", [job EXCEPT !.co = c])) \/ job' = Raised("pull", "tables")  BY <1>7 DEF Pull
  <2>3. \A c : DOMAIN [job EXCEPT !.co = c] = JobFields /\ [job EXCEPT !.co = c].skips \subseteq Guarded
    BY <2>1, <1>0 DEF JobFields
  <2>4. ASSUME NEW c, job' = Ended("pull", [job EXCEPT !.co = c]) PROVE RunningJob(job') /\ Due(job') = Place("pull")
    BY <2>3, <2>4, EndedOK, Places
  <2>5. job' = Raised("pull", "tables") => RunningJob(job') /\ Due(job') = Place("pull")
    BY <2>1, RaisedOK, Places
  <2> QED  BY <2>1, <2>2, <2>4, <2>5 DEF Due, Starting, StageOf
<1>8. ASSUME Apply PROVE Goal
  <2>1. job.pc = "apply" /\ job # None /\ exec' = exec /\ ledger' = ledger  BY <1>8 DEF Apply, At, StageFrame
  <2>2. (\E c : job' = Ended("apply", [job EXCEPT !.cands = c])) \/ job' = Raised("apply", "transforms")  BY <1>8 DEF Apply
  <2>3. \A c : DOMAIN [job EXCEPT !.cands = c] = JobFields /\ [job EXCEPT !.cands = c].skips \subseteq Guarded
    BY <2>1, <1>0 DEF JobFields
  <2>4. ASSUME NEW c, job' = Ended("apply", [job EXCEPT !.cands = c]) PROVE RunningJob(job') /\ Due(job') = Place("apply")
    BY <2>3, <2>4, EndedOK, Places
  <2>5. job' = Raised("apply", "transforms") => RunningJob(job') /\ Due(job') = Place("apply")
    BY <2>1, RaisedOK, Places
  <2> QED  BY <2>1, <2>2, <2>4, <2>5 DEF Due, Starting, StageOf
<1>9. ASSUME PostCheck PROVE Goal
  <2>1. job.pc = "post_check" /\ job # None /\ exec' = exec /\ ledger' = ledger
    BY <1>9 DEF PostCheck, At, StageFrame
  <2>2. \/ \E cause : job' = Raised("post_check", cause)
        \/ \E a, d : job' = Ended("post_check", Skipped("post_check", Drifted("post_check", d, [job EXCEPT !.admitted = a])))
        \/ \E a, d : job' = Ended("post_check", Drifted("post_check", d, [job EXCEPT !.admitted = a]))
        \/ \E a : job' = Ended("post_check", [job EXCEPT !.admitted = a])
    BY <1>9 DEF PostCheck, Raise
  <2>3. \A a : LET j == [job EXCEPT !.admitted = a] IN DOMAIN j = JobFields /\ j.skips \subseteq Guarded
    BY <2>1, <1>0 DEF JobFields
  <2>4. \A j, d : DOMAIN j = JobFields /\ j.skips \subseteq Guarded
                    => DOMAIN Drifted("post_check", d, j) = JobFields /\ Drifted("post_check", d, j).skips \subseteq Guarded
    BY DEF Drifted, JobFields
  <2>5. \A j : DOMAIN j = JobFields /\ j.skips \subseteq Guarded
                 => DOMAIN Skipped("post_check", j) = JobFields /\ Skipped("post_check", j).skips \subseteq Guarded
    BY DEF Skipped, JobFields, Guarded
  <2>6. (\E cause : job' = Raised("post_check", cause))
          \/ \E j : job' = Ended("post_check", j) /\ DOMAIN j = JobFields /\ j.skips \subseteq Guarded
    BY <2>2, <2>3, <2>4, <2>5
  <2>7. job' # None => RunningJob(job') /\ Due(job') = Place("post_check")
    BY <2>1, <2>6, EndedOK, RaisedOK, Places
  <2> QED  BY <2>1, <2>7 DEF Due, Starting, StageOf
<1>10. ASSUME OpenCommit PROVE Goal
  <2>1. job.pc = "commit" /\ job # None /\ exec' = exec /\ ledger' = ledger  BY <1>10 DEF OpenCommit, At, StageFrame
  <2>2. job' = [job EXCEPT !.pc = "tables", !.left = Types(job.spec)] \/ job' = Raised("commit", "tables")
    BY <1>10 DEF OpenCommit
  <2>3. CASE job' = Raised("commit", "tables")
    BY <2>1, <2>3, RaisedOK, Places DEF Due, Starting, StageOf
  <2>4. CASE job' = [job EXCEPT !.pc = "tables", !.left = Types(job.spec)]
    <3>1. DOMAIN job' = JobFields /\ job'.pc = "tables" /\ job'.skips = job.skips  BY <2>1, <2>4, <1>0 DEF JobFields
    <3> QED  BY <1>0, <2>1, <3>1 DEF RunningJob, Due, Starting, Working, StageOf
  <2> QED  BY <2>2, <2>3, <2>4
<1>11. ASSUME CommitTable PROVE Goal
  <2>1. job.pc = "tables" /\ job # None /\ exec' = exec /\ ledger' = ledger  BY <1>11 DEF CommitTable, At, StageFrame
  <2>2. (\E cause : job' = Raised("commit", cause)) \/ job' = Pass(Skipped("commit", job)) \/ job' = Pass(job) \/ job' = job
    BY <1>11 DEF CommitTable, Raise
  <2>3. CASE \E cause : job' = Raised("commit", cause)
    BY <2>1, <2>3, RaisedOK, Places DEF Due, Starting, StageOf
  <2>4. CASE job' = Pass(Skipped("commit", job)) \/ job' = Pass(job) \/ job' = job
    <3>1. \A j : j = Skipped("commit", job) => DOMAIN j = JobFields /\ j.pc = "tables" /\ j.skips \subseteq Guarded
      BY <2>1, <1>0 DEF JobFields, Skipped, Guarded
    <3>2. DOMAIN job' = JobFields /\ job'.pc = "tables" /\ job'.skips \subseteq Guarded
      BY <2>1, <2>4, <3>1, <1>0 DEF JobFields, Pass
    <3> QED  BY <2>1, <3>2 DEF RunningJob, Due, Starting, Working, StageOf
  <2> QED  BY <2>2, <2>3, <2>4
<1>12. ASSUME Complete \/ OpenFold \/ FoldTable \/ EndFold \/ Publish PROVE Goal
  <2>1. /\ job # None /\ exec' = exec /\ ledger' = ledger
        /\ \/ job.pc = "tables" /\ job' = Ended("commit", job)
           \/ job.pc = "fold" /\ job' = [job EXCEPT !.pc = "states", !.left = Types(job.spec)]
           \/ job.pc = "states" /\ (job' = Pass(job) \/ job' = Raised("fold", "tables") \/ job' = Ended("fold", job))
           \/ job.pc = "publish" /\ job' = Ended("publish", job)
    BY <1>12 DEF Complete, OpenFold, FoldTable, EndFold, Publish, At, StageFrame, Raise
  <2>2. CASE job.pc = "tables" /\ job' = Ended("commit", job)
    BY <2>1, <2>2, <1>0, EndedOK, Places DEF Due, Starting, StageOf
  <2>3. CASE job.pc = "fold" /\ job' = [job EXCEPT !.pc = "states", !.left = Types(job.spec)]
    <3>1. DOMAIN job' = JobFields /\ job'.pc = "states" /\ job'.skips = job.skips  BY <2>1, <2>3, <1>0 DEF JobFields
    <3> QED  BY <1>0, <2>1, <2>3, <3>1 DEF RunningJob, Due, Starting, Working, StageOf
  <2>4. CASE job.pc = "states" /\ (job' = Raised("fold", "tables") \/ job' = Ended("fold", job))
    BY <2>1, <2>4, <1>0, EndedOK, RaisedOK, Places DEF Due, Starting, StageOf
  <2>5. CASE job.pc = "states" /\ job' = Pass(job)
    <3>1. DOMAIN job' = JobFields /\ job'.pc = "states" /\ job'.skips = job.skips  BY <2>1, <2>5, <1>0 DEF JobFields, Pass
    <3> QED  BY <1>0, <2>1, <2>5, <3>1 DEF RunningJob, Due, Starting, Working, StageOf
  <2>6. CASE job.pc = "publish" /\ job' = Ended("publish", job)
    BY <2>1, <2>6, <1>0, EndedOK, Places DEF Due, Starting, StageOf
  <2> QED  BY <2>1, <2>2, <2>3, <2>4, <2>5, <2>6
<1>13. ASSUME EffectRaises PROVE Goal
  <2>1. job # None /\ exec' = exec /\ ledger' = ledger /\ StageOf(job.pc) \in Elems(SEQUENCE)
        /\ job' = Raised(StageOf(job.pc), "fault")
    BY <1>13 DEF EffectRaises
  <2>2. StageOf(job.pc) \in Stages  BY <2>1 DEF Stages, Elems
  <2>3. job.pc \notin Starting \cup {"record"}  BY <2>2, Places DEF Starting, StageOf
  <2> QED  BY <2>1, <2>2, <2>3, RaisedOK DEF Due
<1>14. ASSUME Die PROVE Goal
  BY <1>14 DEF Die
<1> QED  BY <1>1, <1>2, <1>3, <1>4, <1>5, <1>6, <1>7, <1>8, <1>9, <1>10, <1>11, <1>12, <1>13, <1>14 DEF Staging

\* A report to the ledger adds what is reported, whatever happens to the row.
LEMMA Reporting ==
  ASSUME RecordRun
  PROVE  Told' = Told \cup {job.pending}
<1>1. \A n, f : DOMAIN Put(f, job.pending, n) = DOMAIN f \cup {job.pending}
  BY DEF Put
<1>2. PICK n \in 0..2, lost \in BOOLEAN : (n = 0 => lost) /\ ledger' = Recorded(job.pending, n, lost)
  <2>1. \/ ledger' = Recorded(job.pending, 1, FALSE)
        \/ \E n \in 0..2, lost \in BOOLEAN : (n < 2 => lost) /\ ledger' = Recorded(job.pending, n, lost)
    BY DEF RecordRun, try_append
  <2>2. CASE ledger' = Recorded(job.pending, 1, FALSE)
    <3>1. 1 \in 0..2 /\ FALSE \in BOOLEAN /\ (1 = 0 => FALSE)  OBVIOUS
    <3> QED  BY <2>2, <3>1
  <2>3. CASE \E n \in 0..2, lost \in BOOLEAN : (n < 2 => lost) /\ ledger' = Recorded(job.pending, n, lost)
    <3>1. PICK n \in 0..2, lost \in BOOLEAN : (n < 2 => lost) /\ ledger' = Recorded(job.pending, n, lost)  BY <2>3
    <3>2. n = 0 => lost  BY <3>1
    <3> QED  BY <3>1, <3>2
  <2> QED  BY <2>1, <2>2, <2>3
<1>3. /\ ledger'.rows = IF n = 0 THEN ledger.rows ELSE Put(ledger.rows, job.pending, n)
      /\ ledger'.losses = IF lost THEN ledger.losses \cup {job.pending} ELSE ledger.losses
  BY <1>2 DEF Recorded
<1>4. CASE n = 0
  BY <1>2, <1>3, <1>4 DEF Told
<1>5. CASE n # 0
  BY <1>1, <1>3, <1>5 DEF Told
<1> QED  BY <1>4, <1>5

-------------------------------------------------------------------------------
\* The ledger has no gap

NoLater(a) == a \in Nat \X Nat /\ (a[1] < exec.rerun \/ (a[1] = exec.rerun /\ a[2] <= exec.try))

\* An attempt told of the stage in place i, and that it worked.
ToldOf(a, i) == \E x \in Told : x.attempt = a /\ Place(x.stage) = i /\ x.outcome # "failed"

\* The rows are of this attempt or an earlier one, one for a stage, and there
\* is none without those of the stages before; the running attempt has told of
\* the stages before the one it is in, and of no other.
GapInv ==
  /\ ExecOK /\ JobOK
  /\ exec.status \in {"none", "refused"} => Told = {}
  /\ \A r \in Told : r.stage \in Stages /\ r.outcome \in Outcomes /\ NoLater(r.attempt)
  /\ \A r, x \in Told : r.attempt = x.attempt /\ Place(r.stage) = Place(x.stage) => r = x
  /\ \A r \in Told : \A i \in 1..(Place(r.stage) - 1) : ToldOf(r.attempt, i)
  /\ job # None => /\ \A r \in Told : r.attempt = Attempt => Place(r.stage) < Due(job)
                   /\ \A i \in 1..(Due(job) - 1) : ToldOf(Attempt, i)

LEMMA FreshJob == RunningJob(Fresh) /\ Due(Fresh) = 1
  BY DEF Fresh, RunningJob, JobFields, Starting, Due

LEMMA GapInit == Init => GapInv
<1> SUFFICES ASSUME Init PROVE GapInv  OBVIOUS
<1>1. ledger.rows = << >> /\ ledger.losses = {} /\ job = None /\ exec = Idle  BY DEF Init
<1>2. Told = {}  BY <1>1 DEF Told
<1>3. ExecOK  BY <1>1 DEF ExecOK, Idle
<1> QED  BY <1>1, <1>2, <1>3 DEF GapInv, JobOK

\* A new attempt finds no row of its own.
LEMMA GapAttempt ==
  ASSUME GapInv, ledger' = ledger, ExecOK', exec'.status = "running", job' = Fresh,
         \/ Told = {}
         \/ exec'.rerun = exec.rerun /\ exec'.try = exec.try + 1
         \/ exec'.rerun = exec.rerun + 1
  PROVE  GapInv'
<1>1. Told' = Told  BY DEF Told
<1>2. JobOK'
  <2>1. RunningJob(job')  BY FreshJob
  <2>2. job'.pc # "record"  BY DEF Fresh
  <2> QED  BY <2>1, <2>2 DEF JobOK, RunningJob
<1>3. Due(job') = 1  BY FreshJob
<1>4. ASSUME NEW r \in Told PROVE NoLater(r.attempt)' /\ r.attempt # Attempt'
  <2>1. NoLater(r.attempt) /\ Told # {}  BY <1>4 DEF GapInv
  <2>2. exec.rerun \in Nat /\ exec.try \in Nat /\ exec'.try \in Nat  BY DEF GapInv, ExecOK
  <2>3. r.attempt = <<r.attempt[1], r.attempt[2]>> /\ r.attempt[1] \in Nat /\ r.attempt[2] \in Nat  BY <2>1 DEF NoLater
  <2> QED  BY <2>1, <2>2, <2>3 DEF NoLater, Attempt
<1>5. \A a, i : ToldOf(a, i)' = ToldOf(a, i)  BY <1>1 DEF ToldOf
<1>6. \A r \in Told' : r.stage \in Stages /\ r.outcome \in Outcomes /\ NoLater(r.attempt)'
  BY <1>1, <1>4 DEF GapInv
<1>7. /\ \A r, x \in Told' : r.attempt = x.attempt /\ Place(r.stage) = Place(x.stage) => r = x
      /\ \A r \in Told' : \A i \in 1..(Place(r.stage) - 1) : ToldOf(r.attempt, i)'
  BY <1>1, <1>5 DEF GapInv
<1>8. \A i \in 1..(Due(job') - 1) : FALSE  BY <1>3
<1> QED  BY <1>1, <1>2, <1>4, <1>6, <1>7, <1>8 DEF GapInv

LEMMA GapStaging == ASSUME GapInv, Staging PROVE GapInv'
<1>1. /\ job # None /\ exec' = exec /\ ledger' = ledger
      /\ job' # None => RunningJob(job') /\ Due(job') = Due(job)
  BY StagingStep DEF GapInv
<1>2. Told' = Told /\ Attempt' = Attempt  BY <1>1 DEF Told, Attempt
<1>3. JobOK' /\ ExecOK'
  BY <1>1, <1>2 DEF GapInv, JobOK, ExecOK, RunningJob, PendingOK
<1>4. \A a, i : ToldOf(a, i)' = ToldOf(a, i)  BY <1>2 DEF ToldOf
<1>5. \A a : NoLater(a)' = NoLater(a)  BY <1>1 DEF NoLater
<1>6. \A i : ToldOf(Attempt, i)' = ToldOf(Attempt, i)  BY <1>2 DEF ToldOf
<1>7. job' # None => /\ \A r \in Told' : r.attempt = Attempt' => Place(r.stage) < Due(job)'
                     /\ \A i \in 1..(Due(job)' - 1) : ToldOf(Attempt, i)'
  BY <1>1, <1>2, <1>6 DEF GapInv
<1>8. exec'.status \in {"none", "refused"} => Told' = {}  BY <1>1, <1>2 DEF GapInv
<1>9. /\ \A r \in Told' : r.stage \in Stages /\ r.outcome \in Outcomes /\ NoLater(r.attempt)'
      /\ \A r, x \in Told' : r.attempt = x.attempt /\ Place(r.stage) = Place(x.stage) => r = x
      /\ \A r \in Told' : \A i \in 1..(Place(r.stage) - 1) : ToldOf(r.attempt, i)'
  BY <1>2, <1>4, <1>5 DEF GapInv
<1> QED  BY <1>3, <1>7, <1>8, <1>9 DEF GapInv

LEMMA GapRecord == ASSUME GapInv, RecordRun PROVE GapInv'
<1> DEFINE p == job.pending
<1>1. /\ job # None /\ job.pc = "record" /\ RunningJob(job) /\ exec.status = "running"
      /\ p.attempt = Attempt /\ p.stage \in Stages /\ p.outcome \in Outcomes
      /\ p.outcome = "skipped-guard" => p.stage \in Guarded
  BY DEF RecordRun, At, GapInv, JobOK, RunningJob, PendingOK
<1>2. Told' = Told \cup {p}  BY Reporting
<1>3. Due(job) = Place(p.stage) /\ Place(p.stage) \in 1..8  BY <1>1, Places DEF Due
<1>4. /\ exec'.rerun = exec.rerun /\ exec'.try = exec.try /\ exec'.status \in {"running", "succeeded"}
      /\ DOMAIN exec' = DOMAIN exec /\ (job' # None => exec' = exec)
  BY <1>1 DEF RecordRun, GapInv, ExecOK
<1>5. ExecOK' /\ Attempt' = Attempt  BY <1>4 DEF GapInv, ExecOK, Attempt
<1>6. job' # None => /\ p.outcome # "failed" /\ p.stage # "publish"
                     /\ RunningJob(job') /\ Due(job') = Place(p.stage) + 1
  <2>1. SUFFICES ASSUME job' # None PROVE p.outcome # "failed" /\ p.stage # "publish" /\ RunningJob(job') /\ Due(job') = Place(p.stage) + 1
    OBVIOUS
  <2>2. p.outcome # "failed" /\ ~(p.stage = "publish" /\ p.outcome = "ok") /\ job' = [job EXCEPT !.pc = Following(p.stage), !.pending = None]
    BY <2>1 DEF RecordRun
  <2>3. p.stage # "publish"  BY <1>1, <2>2 DEF Guarded, Outcomes
  <2>4. /\ Following(p.stage) \in Stages \cap Working /\ Place(Following(p.stage)) = Place(p.stage) + 1
        /\ StageOf(Following(p.stage)) = Following(p.stage)
    BY <1>1, <2>3, FollowingPlace
  <2>5. DOMAIN job' = JobFields /\ job'.pc = Following(p.stage) /\ job'.skips = job.skips
    BY <1>1, <2>2 DEF RunningJob, JobFields
  <2>6. Following(p.stage) \notin Starting \cup {"record"}  BY <2>4 DEF Working, Starting
  <2> QED  BY <1>1, <2>2, <2>3, <2>4, <2>5, <2>6 DEF RunningJob, Due
<1>7. JobOK'
  <2>1. job' # None => RunningJob(job') /\ job'.pc # "record"
    BY <1>6, <1>1, FollowingPlace DEF RecordRun, Working, RunningJob, JobFields
  <2> QED  BY <1>1, <1>4, <2>1 DEF JobOK, RunningJob
<1>8. \A a, i : ToldOf(a, i) => ToldOf(a, i)'  BY <1>2 DEF ToldOf
<1>9. \A a : NoLater(a)' = NoLater(a)  BY <1>4 DEF NoLater
<1>10. NoLater(Attempt)  BY DEF NoLater, Attempt, GapInv, ExecOK
<1>11. exec'.status \notin {"none", "refused"}  BY <1>4
<1>12. \A r \in Told' : r.stage \in Stages /\ r.outcome \in Outcomes /\ NoLater(r.attempt)'
  BY <1>1, <1>2, <1>9, <1>10 DEF GapInv
<1>13. ASSUME NEW r \in Told', NEW x \in Told', r.attempt = x.attempt, Place(r.stage) = Place(x.stage) PROVE r = x
  <2>1. \A y \in Told : y.attempt = Attempt => Place(y.stage) < Place(p.stage)  BY <1>1, <1>3 DEF GapInv
  <2>2. r = p /\ x \in Told => FALSE  BY <1>1, <1>3, <1>13, <2>1
  <2>3. x = p /\ r \in Told => FALSE  BY <1>1, <1>3, <1>13, <2>1
  <2>4. r \in Told /\ x \in Told => r = x  BY <1>13 DEF GapInv
  <2> QED  BY <1>2, <2>2, <2>3, <2>4
<1>14. ASSUME NEW r \in Told', NEW i \in 1..(Place(r.stage) - 1) PROVE ToldOf(r.attempt, i)'
  <2>1. CASE r \in Told  BY <2>1, <1>8, <1>14 DEF GapInv
  <2>2. CASE r = p
    <3>1. ToldOf(Attempt, i)  BY <2>2, <1>1, <1>3, <1>14 DEF GapInv
    <3>2. ToldOf(r.attempt, i)  BY <3>1, <2>2, <1>1
    <3> QED  BY <3>2, <1>8
  <2> QED  BY <1>2, <2>1, <2>2
<1>15. ASSUME job' # None, NEW r \in Told', r.attempt = Attempt' PROVE Place(r.stage) < Due(job)'
  <2>1. Due(job)' = Place(p.stage) + 1  BY <1>6, <1>15
  <2>2. r \in Told => Place(r.stage) < Place(p.stage)  BY <1>1, <1>3, <1>5, <1>15 DEF GapInv
  <2>3. r \in Told => Place(r.stage) \in 1..8  BY Places DEF GapInv
  <2> QED  BY <1>2, <1>3, <2>1, <2>2, <2>3
<1>16. ASSUME job' # None, NEW i \in 1..(Due(job)' - 1) PROVE ToldOf(Attempt, i)'
  <2>1. i \in 1..Place(p.stage)  BY <1>3, <1>6, <1>16
  <2>2. i < Place(p.stage) => ToldOf(Attempt, i)  BY <1>1, <1>3, <2>1 DEF GapInv
  <2>3. i = Place(p.stage) => \E x \in Told' : x.attempt = Attempt' /\ Place(x.stage) = i /\ x.outcome # "failed"
    BY <1>1, <1>2, <1>5, <1>6, <1>16
  <2>4. ToldOf(Attempt, i) => \E x \in Told' : x.attempt = Attempt' /\ Place(x.stage) = i /\ x.outcome # "failed"
    BY <1>2, <1>5 DEF ToldOf
  <2>5. i < Place(p.stage) \/ i = Place(p.stage)  BY <1>3, <2>1
  <2> QED  BY <2>2, <2>3, <2>4, <2>5 DEF ToldOf
<1> QED  BY <1>5, <1>7, <1>11, <1>12, <1>13, <1>14, <1>15, <1>16 DEF GapInv

LEMMA GapNext == GapInv /\ [Next]_allVars => GapInv'
<1> SUFFICES ASSUME GapInv, [Next]_allVars PROVE GapInv'  OBVIOUS
<1>1. CASE exec' = exec /\ job' = job /\ ledger' = ledger
  BY <1>1 DEF GapInv, ExecOK, JobOK, RunningJob, PendingOK, Attempt, NoLater, ToldOf, Told, Due
<1>2. CASE Route
  <2>1. exec.status = "none" /\ Told = {} /\ ledger' = ledger  BY <1>2 DEF Route, GapInv
  <2>2. CASE exec'.status = "running"
    <3>1. job' = Fresh  BY <1>2, <2>2 DEF Route
    <3>2. ExecOK'  BY <1>2 DEF Route, ExecOK, Idle
    <3> QED  BY <2>1, <2>2, <3>1, <3>2, GapAttempt
  <2>3. CASE exec'.status # "running"
    <3>1. job' = None  BY <1>2, <2>3 DEF Route
    <3>2. ExecOK'  BY <1>2 DEF Route, ExecOK, Idle
    <3>3. Told' = {}  BY <2>1 DEF Told
    <3> QED  BY <3>1, <3>2, <3>3 DEF GapInv, JobOK
  <2> QED  BY <2>2, <2>3
<1>3. CASE Retry
  <2>1. exec' = [exec EXCEPT !.try = @ + 1] /\ exec.status = "running" /\ job' = Fresh /\ ledger' = ledger  BY <1>3 DEF Retry
  <2>2. ExecOK' /\ exec'.status = "running" /\ exec'.rerun = exec.rerun /\ exec'.try = exec.try + 1
    BY <2>1 DEF GapInv, ExecOK
  <2> QED  BY <2>1, <2>2, GapAttempt
<1>4. CASE Rerun
  <2>1. exec' = [exec EXCEPT !.status = "running", !.try = 1, !.rerun = @ + 1] /\ job' = Fresh /\ ledger' = ledger  BY <1>4 DEF Rerun
  <2>2. ExecOK' /\ exec'.status = "running" /\ exec'.rerun = exec.rerun + 1
    BY <2>1 DEF GapInv, ExecOK
  <2> QED  BY <2>1, <2>2, GapAttempt
<1>5. CASE GiveUp
  <2>1. exec' = [exec EXCEPT !.status = "failed"] /\ job = None /\ job' = job /\ ledger' = ledger /\ exec.status = "running"
    BY <1>5 DEF GiveUp
  <2>2. ExecOK' /\ exec'.status = "failed" /\ exec'.rerun = exec.rerun /\ exec'.try = exec.try
    BY <2>1 DEF GapInv, ExecOK
  <2>3. Told' = Told /\ Attempt' = Attempt  BY <2>1, <2>2 DEF Told, Attempt
  <2>4. \A a : NoLater(a)' = NoLater(a)  BY <2>2 DEF NoLater
  <2>5. \A a, i : ToldOf(a, i)' = ToldOf(a, i)  BY <2>3 DEF ToldOf
  <2> QED  BY <2>1, <2>2, <2>3, <2>4, <2>5 DEF GapInv, JobOK
<1>6. CASE Staging  BY <1>6, GapStaging
<1>7. CASE RecordRun  BY <1>7, GapRecord
<1>8. Operators \/ Rest \/ UNCHANGED allVars => exec' = exec /\ job' = job /\ ledger' = ledger
  BY DEF Operators, Redeploy, Refresh, Rest, allVars, jobVars
<1> QED  BY <1>1, <1>2, <1>3, <1>4, <1>5, <1>6, <1>7, <1>8 DEF Next, Runner, Staging

LEMMA InvGap == Spec => []GapInv
  BY GapInit, GapNext, PTL DEF Spec

\* The run ledger has no gap.
LEMMA GapImplies == GapInv => LedgerHasNoGap
<1> SUFFICES ASSUME GapInv, NEW r \in Told
             PROVE  /\ {x \in Told : x.attempt = r.attempt /\ Place(x.stage) = Place(r.stage)} = {r}
                    /\ \A i \in 1..(Place(r.stage) - 1) :
                         \E x \in {y \in Told : y.attempt = r.attempt /\ Place(y.stage) = i} : x.outcome # "failed"
  BY DEF LedgerHasNoGap, Told
<1> QED  BY DEF GapInv, ToldOf

\* An attempt that reported a stage reported every earlier one, once, and as
\* succeeded (run.py, effects/ledger.py), whatever rows the ledger lost.
THEOREM LedgerNeverHasAGap == Spec => []LedgerHasNoGap
  BY InvGap, GapImplies, PTL

-------------------------------------------------------------------------------
\* What each action does to the job and to the batch

BatchFields == {"raw", "preq", "postq", "facts", "markers", "folded", "announced", "by", "judge"}

\* k is j but for the fields fs.
But(fs, j, k) == DOMAIN k = DOMAIN j /\ \A f \in DOMAIN j \ fs : k[f] = j[f]

\* k reports a stage of j that ended, or failed.
EndedAs(stage, j, k) ==
  /\ But({"pc", "pending"}, j, k) /\ k.pc = "record"
  /\ k.pending = [attempt |-> Attempt, stage |-> stage, cause |-> None, drift |-> stage \in j.drift,
                  outcome |-> IF stage \in j.skips THEN "skipped-guard" ELSE "ok"]
FailedAs(stage, causes, j, k) ==
  /\ But({"pc", "pending"}, j, k) /\ k.pc = "record"
  /\ \E c \in causes : k.pending = [attempt |-> Attempt, stage |-> stage, cause |-> c, drift |-> stage \in j.drift,
                                    outcome |-> "failed"]

LEMMA EndedFields ==
  ASSUME NEW j, DOMAIN j = JobFields, NEW stage
  PROVE  EndedAs(stage, j, Ended(stage, j))
  BY DEF EndedAs, Ended, Report, JobFields, But

LEMMA RaisedFields ==
  ASSUME DOMAIN job = JobFields, NEW stage, NEW causes, NEW c \in causes
  PROVE  FailedAs(stage, causes, job, Raised(stage, c))
  BY DEF FailedAs, Raised, Report, JobFields, But

\* k reports a stage of j that took a door: it skipped, or it noticed a drift.
DoorAs(stage, skip, drift, j, k) ==
  /\ But({"pc", "pending", "skips", "drift"}, j, k) /\ k.pc = "record"
  /\ k.skips = (IF skip THEN j.skips \cup {stage} ELSE j.skips)
  /\ k.drift = (IF drift THEN j.drift \cup {stage} ELSE j.drift)
  /\ k.pending = [attempt |-> Attempt, stage |-> stage, cause |-> None, drift |-> stage \in k.drift,
                  outcome |-> IF stage \in k.skips THEN "skipped-guard" ELSE "ok"]

LEMMA SkippedFields ==
  ASSUME NEW j, DOMAIN j = JobFields, NEW stage
  PROVE  But({"skips"}, j, Skipped(stage, j)) /\ Skipped(stage, j).skips = j.skips \cup {stage}
  BY DEF Skipped, JobFields, But

LEMMA DriftedFields ==
  ASSUME NEW j, DOMAIN j = JobFields, NEW stage, NEW d \in BOOLEAN
  PROVE  /\ But({"drift"}, j, Drifted(stage, d, j))
         /\ Drifted(stage, d, j).drift = IF d THEN j.drift \cup {stage} ELSE j.drift
  BY DEF Drifted, JobFields, But

LEMMA Doors ==
  ASSUME NEW j, DOMAIN j = JobFields, NEW stage, NEW d \in BOOLEAN
  PROVE  /\ DoorAs(stage, FALSE, FALSE, j, Ended(stage, j))
         /\ DoorAs(stage, FALSE, d, j, Ended(stage, Drifted(stage, d, j)))
         /\ DoorAs(stage, TRUE, d, j, Ended(stage, Skipped(stage, Drifted(stage, d, j))))
<1> DEFINE j2 == Drifted(stage, d, j)
           j3 == Skipped(stage, j2)
<1>1. But({"drift"}, j, j2) /\ j2.drift = (IF d THEN j.drift \cup {stage} ELSE j.drift) /\ DOMAIN j2 = JobFields
  <2>1. But({"drift"}, j, j2) /\ j2.drift = (IF d THEN j.drift \cup {stage} ELSE j.drift)  BY DriftedFields
  <2> QED  BY <2>1 DEF But
<1> HIDE DEF j2
<1>2. But({"skips"}, j2, j3) /\ j3.skips = j2.skips \cup {stage} /\ DOMAIN j3 = JobFields
  BY <1>1, SkippedFields DEF But
<1> HIDE DEF j3
<1>3. EndedAs(stage, j, Ended(stage, j)) /\ EndedAs(stage, j2, Ended(stage, j2)) /\ EndedAs(stage, j3, Ended(stage, j3))
  BY <1>1, <1>2, EndedFields
<1>4. DoorAs(stage, FALSE, FALSE, j, Ended(stage, j))
  BY <1>3 DEF DoorAs, EndedAs, But, JobFields
<1>5. DoorAs(stage, FALSE, d, j, Ended(stage, j2))
  BY <1>1, <1>3 DEF DoorAs, EndedAs, But, JobFields
<1>6. DoorAs(stage, TRUE, d, j, Ended(stage, j3))
  BY <1>1, <1>2, <1>3 DEF DoorAs, EndedAs, But, JobFields
<1> QED  BY <1>4, <1>5, <1>6 DEF j2, j3

LEMMA LandEffect ==
  ASSUME JobOK, Land
  PROVE  /\ job # None /\ job.pc = "land" /\ StageFrame
         /\ \/ FailedAs("land", {"tables", "objects"}, job, job') /\ batch' = batch
            \/ /\ Landed /\ batch' = batch
               /\ But({"pc", "skips"}, job, job') /\ job'.pc = "announce" /\ job'.skips = job.skips \cup {"land"}
            \/ /\ ~Landed /\ read_objects(Objects, job.spec) # None
               /\ batch' = [batch EXCEPT !.raw = read_objects(Objects, job.spec)]
               /\ But({"pc"}, job, job') /\ job'.pc = "announce"
<1>1. job # None /\ job.pc = "land" /\ StageFrame  BY DEF Land, At
<1>2. DOMAIN job = JobFields  BY <1>1 DEF JobOK, RunningJob
<1> DEFINE j == [job EXCEPT !.pc = "announce"]
<1>3. But({"pc"}, job, j) /\ j.pc = "announce" /\ DOMAIN j = JobFields  BY <1>2 DEF But, JobFields
<1>4. \/ (job' = Raised("land", "tables") \/ job' = Raised("land", "objects")) /\ batch' = batch
      \/ Landed /\ job' = Skipped("land", j) /\ batch' = batch
      \/ /\ ~Landed /\ read_objects(Objects, job.spec) # None /\ job' = j
         /\ batch' = [batch EXCEPT !.raw = read_objects(Objects, job.spec)]
  BY DEF Land, Raise
<1> HIDE DEF j
<1>5. CASE (job' = Raised("land", "tables") \/ job' = Raised("land", "objects")) /\ batch' = batch
  BY <1>1, <1>2, <1>5, RaisedFields
<1>6. CASE Landed /\ job' = Skipped("land", j) /\ batch' = batch
  <2>1. But({"skips"}, j, job') /\ job'.skips = j.skips \cup {"land"}  BY <1>3, <1>6, SkippedFields
  <2>2. But({"pc", "skips"}, job, job') /\ job'.pc = "announce" /\ job'.skips = job.skips \cup {"land"}
    BY <1>2, <1>3, <2>1 DEF But, JobFields
  <2> QED  BY <1>1, <1>6, <2>2
<1>7. CASE /\ ~Landed /\ read_objects(Objects, job.spec) # None /\ job' = j
           /\ batch' = [batch EXCEPT !.raw = read_objects(Objects, job.spec)]
  BY <1>1, <1>3, <1>7
<1> QED  BY <1>4, <1>5, <1>6, <1>7

LEMMA PreCheckEffect ==
  ASSUME JobOK, PreCheck
  PROVE  LET s == job.spec
             raw == RawRows(s)
             viol == violations(raw, s)
             drift == PreDrift(raw, batch.preq, s)
             judged == [batch EXCEPT !.preq = shape_pre_quarantine(viol, s), !.judge = job.version]
             door(skip, d, valid) == DoorAs("pre_check", skip, d, PreChecked(valid, s), job')
         IN /\ job # None /\ job.pc = "pre_check" /\ StageFrame
            /\ \/ FailedAs("pre_check", {"tables"}, job, job') /\ batch' = batch
               \/ FailedAs("pre_check", {"spec"}, job, job') /\ batch' = batch /\ ~(PatternsCompile(s) /\ FmtsCompile(s))
               \/ /\ Exists({s.quarantine_table} \cup FactTables(s))
                  /\ \/ batch.preq # {} /\ batch' = batch /\ door(TRUE, drift, locator_subtraction(raw, batch.preq))
                     \/ /\ batch.preq = {} /\ AnyFactPresent(s) /\ batch' = batch
                        /\ door(FALSE, drift, readable_rows(raw))
                     \/ /\ batch.preq = {} /\ ~AnyFactPresent(s) /\ batch' = judged
                        /\ \/ FailedAs("pre_check", {"identity"}, job, job') /\ ~CountIdentity(raw, zero_failures(raw, s), viol)
                           \/ door(FALSE, FALSE, zero_failures(raw, s))
<1> DEFINE s == job.spec
           raw == RawRows(s)
           viol == violations(raw, s)
           drift == PreDrift(raw, batch.preq, s)
           judged == [batch EXCEPT !.preq = shape_pre_quarantine(viol, s), !.judge = job.version]
           passed == zero_failures(raw, s)
           rest == locator_subtraction(raw, batch.preq)
           readable == readable_rows(raw)
<1>1. job # None /\ job.pc = "pre_check" /\ StageFrame  BY DEF PreCheck, At
<1>2. DOMAIN job = JobFields  BY <1>1 DEF JobOK, RunningJob
<1>3. \A v : DOMAIN PreChecked(v, s) = JobFields  BY <1>2 DEF PreChecked, JobFields
<1>4. \/ job' = Raised("pre_check", "tables") /\ batch' = batch
      \/ job' = Raised("pre_check", "spec") /\ batch' = batch /\ ~(PatternsCompile(s) /\ FmtsCompile(s))
      \/ /\ Exists({s.quarantine_table} \cup FactTables(s))
         /\ \/ /\ batch.preq # {} /\ batch' = batch
               /\ job' = Ended("pre_check", Skipped("pre_check", Drifted("pre_check", drift, PreChecked(rest, s))))
            \/ /\ batch.preq = {} /\ AnyFactPresent(s) /\ batch' = batch
               /\ job' = Ended("pre_check", Drifted("pre_check", drift, PreChecked(readable, s)))
            \/ /\ batch.preq = {} /\ ~AnyFactPresent(s) /\ batch' = judged
               /\ \/ job' = Raised("pre_check", "identity") /\ ~CountIdentity(raw, passed, viol)
                  \/ job' = Ended("pre_check", PreChecked(passed, s))
  BY DEF PreCheck, Raise
<1>0. drift \in BOOLEAN  BY DEF PreDrift
<1> HIDE DEF raw, viol, drift, judged, passed, rest, readable
<1>5. /\ DoorAs("pre_check", TRUE, drift, PreChecked(rest, s),
               Ended("pre_check", Skipped("pre_check", Drifted("pre_check", drift, PreChecked(rest, s)))))
      /\ DoorAs("pre_check", FALSE, drift, PreChecked(readable, s),
               Ended("pre_check", Drifted("pre_check", drift, PreChecked(readable, s))))
      /\ DoorAs("pre_check", FALSE, FALSE, PreChecked(passed, s), Ended("pre_check", PreChecked(passed, s)))
  BY <1>0, <1>3, Doors
<1>6. /\ FailedAs("pre_check", {"tables"}, job, Raised("pre_check", "tables"))
      /\ FailedAs("pre_check", {"spec"}, job, Raised("pre_check", "spec"))
      /\ FailedAs("pre_check", {"identity"}, job, Raised("pre_check", "identity"))
  BY <1>2, RaisedFields
<1> QED  BY <1>1, <1>4, <1>5, <1>6 DEF raw, viol, drift, judged, passed, rest, readable

LEMMA PostCheckEffect ==
  ASSUME JobOK, PostCheck
  PROVE  LET s == job.spec
             types == DOMAIN s.fact_types
             drift == PostDrift(job.cands, batch.postq, s, job.co)
             viol(t) == business_violations(job.cands[t], s, t, job.co)
             passed(t) == admitted_candidates(job.cands[t], s, t, job.co)
             shaped == UNION {shape_post_quarantine(viol(t), s, t) : t \in types}
             door(skip, d, admitted) == DoorAs("post_check", skip, d, [job EXCEPT !.admitted = admitted], job')
         IN /\ job # None /\ job.pc = "post_check" /\ StageFrame
            /\ \/ FailedAs("post_check", {"spec"}, job, job') /\ batch' = batch /\ ~ChecksCompile(s)
               \/ /\ FailedAs("post_check", {"identity"}, job, job') /\ batch' = batch
                  /\ batch.postq = {} /\ ~AnyFactPresent(s)
                  /\ \E t \in types : ~CountIdentity(job.cands[t], passed(t), viol(t))
               \/ /\ ChecksCompile(s)
                  /\ \/ /\ batch.postq # {} /\ batch' = batch
                        /\ door(TRUE, drift, [t \in types |-> hash_subtraction(job.cands[t], t, batch.postq)])
                     \/ /\ batch.postq = {} /\ AnyFactPresent(s) /\ batch' = batch
                        /\ door(FALSE, drift, [t \in types |-> job.cands[t]])
                     \/ /\ batch.postq = {} /\ ~AnyFactPresent(s) /\ batch' = [batch EXCEPT !.postq = shaped]
                        /\ door(FALSE, FALSE, [t \in types |-> passed(t)])
<1> DEFINE s == job.spec
           types == DOMAIN s.fact_types
           drift == PostDrift(job.cands, batch.postq, s, job.co)
           viol(t) == business_violations(job.cands[t], s, t, job.co)
           passed(t) == admitted_candidates(job.cands[t], s, t, job.co)
           shaped == UNION {shape_post_quarantine(viol(t), s, t) : t \in types}
           unequal == \E t \in types : ~CountIdentity(job.cands[t], passed(t), viol(t))
           rest == [t \in types |-> hash_subtraction(job.cands[t], t, batch.postq)]
           whole == [t \in types |-> job.cands[t]]
           good == [t \in types |-> passed(t)]
           with(a) == [job EXCEPT !.admitted = a]
<1>1. job # None /\ job.pc = "post_check" /\ StageFrame  BY DEF PostCheck, At
<1>2. DOMAIN job = JobFields  BY <1>1 DEF JobOK, RunningJob
<1>3. DOMAIN with(rest) = JobFields /\ DOMAIN with(whole) = JobFields /\ DOMAIN with(good) = JobFields
  <2>1. \A a : DOMAIN with(a) = JobFields  BY <1>2 DEF JobFields
  <2> QED  BY <2>1
<1>4. \/ job' = Raised("post_check", "spec") /\ batch' = batch /\ ~ChecksCompile(s)
      \/ /\ job' = Raised("post_check", "identity") /\ batch' = batch
         /\ batch.postq = {} /\ ~AnyFactPresent(s) /\ unequal
      \/ /\ ChecksCompile(s)
         /\ \/ /\ batch.postq # {} /\ batch' = batch
               /\ job' = Ended("post_check", Skipped("post_check", Drifted("post_check", drift, with(rest))))
            \/ /\ batch.postq = {} /\ AnyFactPresent(s) /\ batch' = batch
               /\ job' = Ended("post_check", Drifted("post_check", drift, with(whole)))
            \/ /\ batch.postq = {} /\ ~AnyFactPresent(s) /\ batch' = [batch EXCEPT !.postq = shaped]
               /\ job' = Ended("post_check", with(good))
  BY DEF PostCheck, Raise
<1>0. drift \in BOOLEAN  BY DEF PostDrift
<1> HIDE DEF drift, viol, passed, shaped, unequal, rest, whole, good, with
<1>5. /\ DoorAs("post_check", TRUE, drift, with(rest),
               Ended("post_check", Skipped("post_check", Drifted("post_check", drift, with(rest)))))
      /\ DoorAs("post_check", FALSE, drift, with(whole), Ended("post_check", Drifted("post_check", drift, with(whole))))
      /\ DoorAs("post_check", FALSE, FALSE, with(good), Ended("post_check", with(good)))
  BY <1>0, <1>3, Doors
<1>6. /\ FailedAs("post_check", {"spec"}, job, Raised("post_check", "spec"))
      /\ FailedAs("post_check", {"identity"}, job, Raised("post_check", "identity"))
  BY <1>2, RaisedFields
<1>7. \/ FailedAs("post_check", {"spec"}, job, job') /\ batch' = batch /\ ~ChecksCompile(s)
      \/ /\ FailedAs("post_check", {"identity"}, job, job') /\ batch' = batch
         /\ batch.postq = {} /\ ~AnyFactPresent(s) /\ unequal
      \/ /\ ChecksCompile(s)
         /\ \/ batch.postq # {} /\ batch' = batch /\ DoorAs("post_check", TRUE, drift, with(rest), job')
            \/ /\ batch.postq = {} /\ AnyFactPresent(s) /\ batch' = batch
               /\ DoorAs("post_check", FALSE, drift, with(whole), job')
            \/ /\ batch.postq = {} /\ ~AnyFactPresent(s) /\ batch' = [batch EXCEPT !.postq = shaped]
               /\ DoorAs("post_check", FALSE, FALSE, with(good), job')
  BY <1>4, <1>5, <1>6
<1> QED  BY <1>1, <1>7 DEF drift, viol, passed, shaped, unequal, rest, whole, good, with

LEMMA StartEffect ==
  ASSUME JobOK, Load \/ Describe \/ Bind
  PROVE  /\ job # None /\ UNCHANGED <<scene, deployed, exec, ledger, budget, provisioningVars>>
         /\ \/ job' = None /\ batch' = batch
            \/ /\ job.pc = "load" /\ But({"pc", "version", "spec"}, job, job') /\ batch' = batch
               /\ job'.pc = "describe" /\ job'.version = deployed /\ job'.spec = DeployedSpec
               /\ LoadOK(from_args(Argv))
            \/ /\ job.pc = "describe" /\ But({"pc", "facts"}, job, job') /\ batch' = batch
               /\ job'.pc = "bind" /\ job'.facts = CatalogFacts(job.spec, catalog)
            \/ /\ job.pc = "bind" /\ But({"pc"}, job, job') /\ job'.pc = "land"
               /\ inventory # None /\ validate_bindings(job.spec, job.facts, inventory, committed_tables(job.spec))
               /\ batch' = [batch EXCEPT !.by = @ \cup {job.version}]
<1>1. job # None  BY DEF Load, Describe, Bind
<1>2. DOMAIN job = JobFields  BY <1>1 DEF JobOK, RunningJob
<1>3. CASE Load
  BY <1>1, <1>2, <1>3 DEF Load, But, JobFields
<1>4. CASE Describe
  BY <1>1, <1>2, <1>4 DEF Describe, But, JobFields
<1>5. CASE Bind
  BY <1>1, <1>2, <1>5 DEF Bind, But, JobFields
<1> QED  BY <1>3, <1>4, <1>5

LEMMA MidEffect ==
  ASSUME JobOK, Announce \/ Pull \/ Apply \/ OpenCommit \/ OpenFold
  PROVE  /\ job # None /\ StageFrame /\ batch' = batch
         /\ \/ job.pc = "announce" /\ EndedAs("land", job, job')
            \/ job.pc = "pull" /\ FailedAs("pull", {"tables"}, job, job')
            \/ /\ job.pc = "pull" /\ Exists(CoEffectTables(job.spec))
               /\ EndedAs("pull", [job EXCEPT !.co = [a \in DOMAIN job.spec.co_effects |->
                                                        catalog[job.spec.co_effects[a].table].rows]], job')
            \/ job.pc = "apply" /\ FailedAs("apply", {"transforms"}, job, job')
            \/ /\ job.pc = "apply" /\ assert_return_shape(job.spec)
               /\ \A t \in DOMAIN job.spec.fact_types : assert_candidate_schema(job.spec, t)
               /\ EndedAs("apply", [job EXCEPT !.cands = apply(job.valid, job.spec)], job')
            \/ job.pc = "commit" /\ FailedAs("commit", {"tables"}, job, job')
            \/ /\ job.pc = "commit" /\ But({"pc", "left"}, job, job') /\ job'.pc = "tables" /\ job'.left = Types(job.spec)
               /\ Exists({MarkersTable(job.spec)})
            \/ /\ job.pc = "fold" /\ But({"pc", "left"}, job, job') /\ job'.pc = "states" /\ job'.left = Types(job.spec)
<1>1. job # None  BY DEF Announce, Pull, Apply, OpenCommit, OpenFold, At
<1>2. DOMAIN job = JobFields  BY <1>1 DEF JobOK, RunningJob
<1>3. CASE Announce
  BY <1>1, <1>2, <1>3, EndedFields DEF Announce, At
<1>4. CASE Pull
  <2> DEFINE co == [a \in DOMAIN job.spec.co_effects |-> catalog[job.spec.co_effects[a].table].rows]
  <2>1. DOMAIN [job EXCEPT !.co = co] = JobFields  BY <1>2 DEF JobFields
  <2>2. EndedAs("pull", [job EXCEPT !.co = co], Ended("pull", [job EXCEPT !.co = co]))  BY <2>1, EndedFields
  <2>3. FailedAs("pull", {"tables"}, job, Raised("pull", "tables"))  BY <1>2, RaisedFields
  <2> QED  BY <1>1, <1>4, <2>2, <2>3 DEF Pull, At
<1>5. CASE Apply
  <2> DEFINE j == [job EXCEPT !.cands = apply(job.valid, job.spec)]
  <2>1. DOMAIN j = JobFields  BY <1>2 DEF JobFields
  <2>2. EndedAs("apply", j, Ended("apply", j))  BY <2>1, EndedFields
  <2>3. FailedAs("apply", {"transforms"}, job, Raised("apply", "transforms"))  BY <1>2, RaisedFields
  <2> QED  BY <1>1, <1>5, <2>2, <2>3 DEF Apply, At
<1>6. CASE OpenCommit
  <2>1. FailedAs("commit", {"tables"}, job, Raised("commit", "tables"))  BY <1>2, RaisedFields
  <2>2. LET j == [job EXCEPT !.pc = "tables", !.left = Types(job.spec)]
        IN But({"pc", "left"}, job, j) /\ j.pc = "tables" /\ j.left = Types(job.spec)
    BY <1>2 DEF But, JobFields
  <2> QED  BY <1>1, <1>6, <2>1, <2>2 DEF OpenCommit, At
<1>7. CASE OpenFold
  <2>2. LET j == [job EXCEPT !.pc = "states", !.left = Types(job.spec)]
        IN But({"pc", "left"}, job, j) /\ j.pc = "states" /\ j.left = Types(job.spec)
    BY <1>2 DEF But, JobFields
  <2> QED  BY <1>1, <1>7, <2>2 DEF OpenFold, At
<1> QED  BY <1>3, <1>4, <1>5, <1>6, <1>7

LEMMA LateEffect ==
  ASSUME JobOK, CommitTable \/ Complete \/ FoldTable \/ EndFold \/ Publish
  PROVE  /\ job # None /\ StageFrame
         /\ \/ /\ job.pc = "tables" /\ job.left # <<>>
               /\ LET table == Current.fact_table
                      cands == job.admitted[Head(job.left)]
                      next == But({"left"}, job, job') /\ job'.left = Tail(job.left)
                  IN \/ /\ table \in DOMAIN batch.facts /\ Mark(table)
                        /\ But({"left", "skips"}, job, job') /\ job'.left = Tail(job.left)
                        /\ job'.skips = job.skips \cup {"commit"}
                     \/ /\ table \notin DOMAIN batch.facts /\ batch' = batch
                        /\ ~structural_fact_check(cands, Current, catalog[table])
                        /\ FailedAs("commit", IF Writable(table, fact_and_state_columns(Current))
                                              THEN {"structure"} ELSE {"tables"}, job, job')
                     \/ /\ table \notin DOMAIN batch.facts /\ novel_facts(cands) = {} /\ batch' = batch /\ next
                     \/ /\ table \notin DOMAIN batch.facts /\ ~Marked(table) /\ Mark(table) /\ job' = job
                     \/ /\ table \notin DOMAIN batch.facts /\ novel_facts(cands) # {} /\ Marked(table)
                        /\ structural_fact_check(cands, Current, catalog[table])
                        /\ batch' = [batch EXCEPT !.facts = Put(@, table, novel_facts(cands))] /\ next
            \/ job.pc = "tables" /\ job.left = <<>> /\ Mark(COMMIT_COMPLETION_SENTINEL) /\ EndedAs("commit", job, job')
            \/ /\ job.pc = "states" /\ job.left # <<>>
               /\ LET table == Current.fact_table
                  IN \/ /\ table \notin DOMAIN batch.facts /\ batch' = batch
                        /\ But({"left"}, job, job') /\ job'.left = Tail(job.left)
                     \/ FailedAs("fold", {"tables"}, job, job') /\ batch' = batch
                     \/ /\ table \in DOMAIN batch.facts /\ Exists({Current.state_table})
                        /\ batch' = [batch EXCEPT !.folded = @ \cup {table}]
                        /\ But({"left"}, job, job') /\ job'.left = Tail(job.left)
            \/ job.pc = "states" /\ job.left = <<>> /\ batch' = batch /\ EndedAs("fold", job, job')
            \/ /\ job.pc = "publish" /\ EndedAs("publish", job, job')
               /\ batch' = [batch EXCEPT !.announced = FactTables(job.spec) \cap DOMAIN batch.facts]
<1>1. job # None /\ StageFrame  BY DEF CommitTable, Complete, FoldTable, EndFold, Publish, At
<1>2. DOMAIN job = JobFields  BY <1>1 DEF JobOK, RunningJob
<1>3. But({"left"}, job, Pass(job)) /\ Pass(job).left = Tail(job.left)  BY <1>2 DEF Pass, But, JobFields
<1>4. LET k == Pass(Skipped("commit", job))
      IN But({"left", "skips"}, job, k) /\ k.left = Tail(job.left) /\ k.skips = job.skips \cup {"commit"}
  <2> DEFINE j == Skipped("commit", job)
  <2>1. But({"skips"}, job, j) /\ j.skips = job.skips \cup {"commit"}  BY <1>2, SkippedFields
  <2> HIDE DEF j
  <2>2. But({"left"}, j, Pass(j)) /\ Pass(j).left = Tail(j.left)  BY <1>2, <2>1 DEF Pass, But, JobFields
  <2>3. But({"left", "skips"}, job, Pass(j)) /\ Pass(j).left = Tail(job.left) /\ Pass(j).skips = job.skips \cup {"commit"}
    BY <1>2, <2>1, <2>2 DEF But, JobFields
  <2> QED  BY <2>3 DEF j
<1>5. CASE CommitTable
  <2> DEFINE table == Current.fact_table
             cands == job.admitted[Head(job.left)]
  <2>1. FailedAs("commit", {"structure"}, job, Raised("commit", "structure"))
        /\ FailedAs("commit", {"tables"}, job, Raised("commit", "tables"))
    BY <1>2, RaisedFields
  <2>2. job.pc = "tables" /\ job.left # <<>>  BY <1>5 DEF CommitTable, At
  <2>3. CASE table \in DOMAIN batch.facts
    <3>1. Mark(table) /\ job' = Pass(Skipped("commit", job))  BY <1>5, <2>3 DEF CommitTable
    <3> QED  BY <1>1, <1>4, <2>2, <2>3, <3>1
  <2>4. CASE table \notin DOMAIN batch.facts /\ ~structural_fact_check(cands, Current, catalog[table])
    <3>1. /\ batch' = batch
          /\ job' = Raised("commit", IF Writable(table, fact_and_state_columns(Current)) THEN "structure" ELSE "tables")
      BY <1>5, <2>4 DEF CommitTable, Raise
    <3>2. FailedAs("commit", IF Writable(table, fact_and_state_columns(Current)) THEN {"structure"} ELSE {"tables"}, job, job')
      BY <2>1, <3>1
    <3> QED  BY <1>1, <2>2, <2>4, <3>1, <3>2
  <2>5. CASE table \notin DOMAIN batch.facts /\ structural_fact_check(cands, Current, catalog[table])
    <3>1. \/ novel_facts(cands) = {} /\ job' = Pass(job) /\ batch' = batch
          \/ ~Marked(table) /\ Mark(table) /\ job' = job
          \/ /\ novel_facts(cands) # {} /\ Marked(table)
             /\ batch' = [batch EXCEPT !.facts = Put(@, table, novel_facts(cands))] /\ job' = Pass(job)
      BY <1>5, <2>5 DEF CommitTable
    <3> QED  BY <1>1, <1>3, <2>2, <2>5, <3>1
  <2> QED  BY <2>3, <2>4, <2>5
<1>6. CASE Complete
  BY <1>1, <1>2, <1>6, EndedFields DEF Complete, At
<1>7. CASE FoldTable
  <2>1. FailedAs("fold", {"tables"}, job, Raised("fold", "tables"))  BY <1>2, RaisedFields
  <2> QED  BY <1>1, <1>3, <1>7, <2>1 DEF FoldTable, At, Raise
<1>8. CASE EndFold
  BY <1>1, <1>2, <1>8, EndedFields DEF EndFold, At
<1>9. CASE Publish
  BY <1>1, <1>2, <1>9, EndedFields DEF Publish, At
<1> QED  BY <1>5, <1>6, <1>7, <1>8, <1>9

LEMMA FaultEffect ==
  ASSUME JobOK, EffectRaises \/ Die
  PROVE  /\ job # None /\ UNCHANGED <<scene, deployed, exec, ledger, batch, provisioningVars>>
         /\ \/ job' = None
            \/ job.pc \in Working /\ FailedAs(StageOf(job.pc), {"fault"}, job, job')
<1>1. job # None /\ UNCHANGED <<scene, deployed, exec, ledger, batch, provisioningVars>>  BY DEF EffectRaises, Die
<1>2. DOMAIN job = JobFields /\ job.pc \in Starting \cup Working \cup {"record"}  BY <1>1 DEF JobOK, RunningJob
<1>3. CASE Die  BY <1>1, <1>3 DEF Die
<1>4. CASE EffectRaises
  <2>1. StageOf(job.pc) \in Elems(SEQUENCE) /\ job' = Raised(StageOf(job.pc), "fault")  BY <1>4 DEF EffectRaises
  <2>2. StageOf(job.pc) \in Stages  BY <2>1 DEF Stages, Elems
  <2>3. job.pc \notin Starting \cup {"record"}  BY <2>2, Places DEF Starting, StageOf
  <2>4. FailedAs(StageOf(job.pc), {"fault"}, job, job')  BY <1>2, <2>1, RaisedFields
  <2> QED  BY <1>1, <1>2, <2>3, <2>4
<1> QED  BY <1>3, <1>4

-------------------------------------------------------------------------------
\* The spec of a job is one that was deployed, and its version is on the record

\* A stage runs under the spec the job is bound to.
StillBound ==
  /\ job # None /\ scene' = scene /\ deployed' = deployed /\ DOMAIN batch' = BatchFields
  /\ job.pc \in Working /\ job'.pc \in Working \cup {"record"}
  /\ job'.version = job.version /\ job'.spec = job.spec
  /\ batch'.by = batch.by /\ (batch'.raw = batch.raw \/ Land)

LEMMA StagingBinds ==
  ASSUME JobOK, DOMAIN batch = BatchFields, Staging
  PROVE  /\ job # None /\ scene' = scene /\ deployed' = deployed /\ DOMAIN batch' = BatchFields
         /\ \/ job' = None /\ batch' = batch
            \/ /\ job.pc = "load" /\ job'.pc = "describe" /\ batch' = batch
               /\ job'.version = deployed /\ job'.spec = DeployedSpec /\ deployed # 0
            \/ /\ job'.version = job.version /\ job'.spec = job.spec
               /\ \/ job.pc = "describe" /\ job'.pc = "bind" /\ batch' = batch
                  \/ job.pc = "bind" /\ job'.pc = "land" /\ batch' = [batch EXCEPT !.by = @ \cup {job.version}]
                  \/ /\ job.pc \in Working /\ job'.pc \in Working \cup {"record"} /\ batch'.by = batch.by
                     /\ batch'.raw = batch.raw \/ Land
<1>0. job # None => DOMAIN job = JobFields  BY DEF JobOK, RunningJob
<1>1. CASE Load \/ Describe \/ Bind
  <2>1. /\ job # None /\ scene' = scene /\ deployed' = deployed
        /\ \/ job' = None /\ batch' = batch
           \/ /\ job.pc = "load" /\ But({"pc", "version", "spec"}, job, job') /\ batch' = batch
              /\ job'.pc = "describe" /\ job'.version = deployed /\ job'.spec = DeployedSpec
              /\ LoadOK(from_args(Argv))
           \/ job.pc = "describe" /\ But({"pc", "facts"}, job, job') /\ batch' = batch /\ job'.pc = "bind"
           \/ /\ job.pc = "bind" /\ But({"pc"}, job, job') /\ job'.pc = "land"
              /\ batch' = [batch EXCEPT !.by = @ \cup {job.version}]
    BY <1>1, StartEffect
  <2> QED  BY <1>0, <2>1 DEF But, JobFields, BatchFields, LoadOK
<1>2. ASSUME Land PROVE StillBound
  BY <1>0, <1>2, LandEffect DEF FailedAs, But, JobFields, BatchFields, Working, StageFrame, StillBound
<1>3. ASSUME PreCheck PROVE StillBound
  <2>1. job # None /\ job.pc = "pre_check" /\ StageFrame  BY <1>3, PreCheckEffect
  <2>2. \/ \E c : FailedAs("pre_check", c, job, job')
        \/ \E skip, d, v : DoorAs("pre_check", skip, d, PreChecked(v, job.spec), job')
    BY <1>3, PreCheckEffect
  <2>3. batch' = batch \/ \E q : batch' = [batch EXCEPT !.preq = q, !.judge = job.version]
    BY <1>3, PreCheckEffect
  <2>4. \A v : LET j == PreChecked(v, job.spec) IN DOMAIN j = JobFields /\ j.version = job.version /\ j.spec = job.spec
    BY <1>0, <2>1 DEF PreChecked, JobFields
  <2>5. job'.version = job.version /\ job'.spec = job.spec /\ job'.pc = "record"
    BY <1>0, <2>1, <2>2, <2>4 DEF FailedAs, DoorAs, But, JobFields
  <2> QED  BY <2>1, <2>3, <2>5 DEF BatchFields, Working, StageFrame, StillBound
<1>4. ASSUME PostCheck PROVE StillBound
  <2>1. job # None /\ job.pc = "post_check" /\ StageFrame  BY <1>4, PostCheckEffect
  <2>2. \/ \E c : FailedAs("post_check", c, job, job')
        \/ \E skip, d, a : DoorAs("post_check", skip, d, [job EXCEPT !.admitted = a], job')
    BY <1>4, PostCheckEffect
  <2>3. batch' = batch \/ \E q : batch' = [batch EXCEPT !.postq = q]
    BY <1>4, PostCheckEffect
  <2>4. \A a : LET j == [job EXCEPT !.admitted = a] IN DOMAIN j = JobFields /\ j.version = job.version /\ j.spec = job.spec
    BY <1>0, <2>1 DEF JobFields
  <2>5. job'.version = job.version /\ job'.spec = job.spec /\ job'.pc = "record"
    BY <1>0, <2>1, <2>2, <2>4 DEF FailedAs, DoorAs, But, JobFields
  <2> QED  BY <2>1, <2>3, <2>5 DEF BatchFields, Working, StageFrame, StillBound
<1>5. ASSUME Announce \/ Pull \/ Apply \/ OpenCommit \/ OpenFold
      PROVE StillBound
  <2>1. job # None /\ StageFrame /\ batch' = batch  BY <1>5, MidEffect
  <2>5. job.pc \in Working  BY <1>5 DEF Announce, Pull, Apply, OpenCommit, OpenFold, At, Working
  <2>2. \/ \E stage, c : FailedAs(stage, c, job, job')
        \/ EndedAs("land", job, job')
        \/ \E v : EndedAs("pull", [job EXCEPT !.co = v], job')
        \/ \E v : EndedAs("apply", [job EXCEPT !.cands = v], job')
        \/ But({"pc", "left"}, job, job') /\ job'.pc \in {"tables", "states"}
    BY <1>5, MidEffect
  <2>3. \A v : /\ LET j == [job EXCEPT !.co = v] IN DOMAIN j = JobFields /\ j.version = job.version /\ j.spec = job.spec
               /\ LET j == [job EXCEPT !.cands = v] IN DOMAIN j = JobFields /\ j.version = job.version /\ j.spec = job.spec
    BY <1>0, <2>1 DEF JobFields
  <2>4. job.pc \in Working /\ job'.version = job.version /\ job'.spec = job.spec /\ job'.pc \in {"record", "tables", "states"}
    BY <1>0, <2>1, <2>2, <2>3, <2>5 DEF FailedAs, EndedAs, But, JobFields
  <2> QED  BY <2>1, <2>4 DEF Working, StageFrame, StillBound
<1>6. ASSUME CommitTable \/ Complete \/ FoldTable \/ EndFold \/ Publish
      PROVE StillBound
  <2>1. job # None /\ StageFrame  BY <1>6, LateEffect
  <2>2. /\ job.pc \in Working
        /\ \/ \E stage, c : FailedAs(stage, c, job, job')
           \/ \E stage : EndedAs(stage, job, job')
           \/ (But({"left"}, job, job') \/ But({"left", "skips"}, job, job') \/ job' = job)
    BY <1>6, LateEffect DEF Working
  <2>3. \/ batch' = batch \/ \E t : Mark(t) \/ \E f : batch' = [batch EXCEPT !.facts = f]
        \/ (\E f : batch' = [batch EXCEPT !.folded = f]) \/ \E f : batch' = [batch EXCEPT !.announced = f]
    BY <1>6, LateEffect
  <2>4. batch'.by = batch.by /\ batch'.raw = batch.raw /\ DOMAIN batch' = BatchFields  BY <2>3 DEF Mark, BatchFields
  <2>5. job'.version = job.version /\ job'.spec = job.spec /\ job'.pc \in Working \cup {"record"}
    BY <1>0, <2>1, <2>2 DEF FailedAs, EndedAs, But, JobFields
  <2> QED  BY <2>1, <2>2, <2>4, <2>5 DEF StageFrame, StillBound
<1>7. CASE EffectRaises \/ Die
  <2>1. /\ job # None /\ scene' = scene /\ deployed' = deployed /\ batch' = batch
        /\ job' = None \/ (job.pc \in Working /\ FailedAs(StageOf(job.pc), {"fault"}, job, job'))
    BY <1>7, FaultEffect
  <2> QED  BY <1>0, <2>1 DEF FailedAs, But, JobFields
<1> QED  BY <1>1, <1>2, <1>3, <1>4, <1>5, <1>6, <1>7 DEF Staging, StillBound

\* The steps that are neither the job's own nor the state machine's.
LEMMA StepKinds ==
  ASSUME [Next]_allVars
  PROVE  \/ Route \/ Retry \/ GiveUp \/ Rerun \/ Staging \/ RecordRun
         \/ /\ exec' = exec /\ job' = job /\ batch' = batch /\ ledger' = ledger /\ scene' = scene
            /\ deployed' = deployed \/ Redeploy
  BY DEF Next, Runner, Staging, Operators, Redeploy, Refresh, Rest, allVars, jobVars

\* The state machine and the operators that start an attempt touch neither the
\* batch nor the ledger.
LEMMA ExecSteps ==
  ASSUME ExecOK, Route \/ Retry \/ GiveUp \/ Rerun
  PROVE  /\ scene' = scene /\ deployed' = deployed /\ batch' = batch /\ ledger' = ledger
         /\ job' = Fresh \/ job' = None
         /\ exec.status = "none" \/ exec'.detail = exec.detail
<1>1. CASE Route  BY <1>1 DEF Route
<1>2. CASE Retry \/ GiveUp \/ Rerun  BY <1>2 DEF Retry, GiveUp, Rerun, ExecOK
<1> QED  BY <1>1, <1>2

\* The scene never changes, its specs are deployed in their order, and a job
\* that has bound its spec is on the record of the batch.
BoundInv ==
  /\ scene \in Scenes
  /\ deployed \in 0..Len(scene.specs)
  /\ DOMAIN batch = BatchFields /\ batch.by \subseteq DOMAIN scene.specs
  /\ job # None =>
       /\ job.pc # "load" => job.version \in DOMAIN scene.specs /\ job.spec = scene.specs[job.version]
       /\ job.pc \notin Starting => job.version \in batch.by

LEMMA SpecsAreSeq == BoundInv => scene.specs \in Seq(Elems(scene.specs)) /\ DOMAIN scene.specs = 1..Len(scene.specs)
  BY SceneAssumption DEF BoundInv

LEMMA BoundInit == Init => BoundInv
<1> SUFFICES ASSUME Init PROVE BoundInv  OBVIOUS
<1>1. scene \in Scenes  BY DEF Init
<1>2. scene.specs \in Seq(Elems(scene.specs))  BY <1>1, SceneAssumption
<1>3. deployed = IF scene.specs = <<>> THEN 0 ELSE 1  BY DEF Init
<1>4. deployed \in 0..Len(scene.specs)  BY <1>2, <1>3
<1>5. job = None /\ DOMAIN batch = BatchFields /\ batch.by = {}  BY DEF Init, BatchFields
<1> QED  BY <1>1, <1>4, <1>5 DEF BoundInv

LEMMA BoundNext == ExecOK /\ JobOK /\ BoundInv /\ [Next]_allVars => BoundInv'
<1> SUFFICES ASSUME ExecOK, JobOK, BoundInv, [Next]_allVars PROVE BoundInv'  OBVIOUS
<1>0. DOMAIN scene.specs = 1..Len(scene.specs) /\ Len(scene.specs) \in Nat
  BY SpecsAreSeq
<1>1. CASE Route \/ Retry \/ GiveUp \/ Rerun
  <2>1. /\ scene' = scene /\ deployed' = deployed /\ batch' = batch
        /\ job' = Fresh \/ job' = None
    BY <1>1, ExecSteps
  <2>2. job' # None => job'.pc = "load"  BY <2>1 DEF Fresh
  <2> QED  BY <2>1, <2>2 DEF BoundInv, Starting
<1>2. CASE Staging
  <2>1. DOMAIN batch = BatchFields  BY DEF BoundInv
  <2>2. /\ job # None /\ scene' = scene /\ deployed' = deployed /\ DOMAIN batch' = BatchFields
        /\ \/ job' = None /\ batch' = batch
           \/ /\ job.pc = "load" /\ job'.pc = "describe" /\ batch' = batch
              /\ job'.version = deployed /\ job'.spec = DeployedSpec /\ deployed # 0
           \/ /\ job'.version = job.version /\ job'.spec = job.spec
              /\ \/ job.pc = "describe" /\ job'.pc = "bind" /\ batch' = batch
                 \/ job.pc = "bind" /\ job'.pc = "land" /\ batch' = [batch EXCEPT !.by = @ \cup {job.version}]
                 \/ /\ job.pc \in Working /\ job'.pc \in Working \cup {"record"} /\ batch'.by = batch.by
                    /\ batch'.raw = batch.raw \/ Land
    BY <1>2, <2>1, StagingBinds
  <2>3. CASE job' = None /\ batch' = batch
    BY <2>2, <2>3 DEF BoundInv
  <2>4. CASE /\ job.pc = "load" /\ job'.pc = "describe" /\ batch' = batch
             /\ job'.version = deployed /\ job'.spec = DeployedSpec /\ deployed # 0
    <3>1. deployed \in DOMAIN scene.specs  BY <1>0, <2>4 DEF BoundInv
    <3>2. job'.version \in DOMAIN scene.specs /\ job'.spec = scene.specs[job'.version]  BY <2>4, <3>1 DEF DeployedSpec
    <3> QED  BY <2>2, <2>4, <3>2 DEF BoundInv, Starting
  <2>5. CASE job'.version = job.version /\ job'.spec = job.spec /\ job.pc = "describe" /\ job'.pc = "bind" /\ batch' = batch
    BY <2>2, <2>5 DEF BoundInv, Starting
  <2>6. CASE /\ job'.version = job.version /\ job'.spec = job.spec /\ job.pc = "bind" /\ job'.pc = "land"
             /\ batch' = [batch EXCEPT !.by = @ \cup {job.version}]
    <3>1. batch'.by = batch.by \cup {job.version}  BY <2>1, <2>6 DEF BatchFields
    <3> QED  BY <2>2, <2>6, <3>1 DEF BoundInv, Starting
  <2>7. CASE /\ job'.version = job.version /\ job'.spec = job.spec
             /\ job.pc \in Working /\ job'.pc \in Working \cup {"record"} /\ batch'.by = batch.by
    BY <2>2, <2>7 DEF BoundInv, Starting, Working
  <2> QED  BY <2>2, <2>3, <2>4, <2>5, <2>6, <2>7
<1>3. CASE RecordRun
  <2>1. /\ job # None /\ job.pc = "record" /\ scene' = scene /\ deployed' = deployed /\ batch' = batch
        /\ job' = None \/ job' = [job EXCEPT !.pc = Following(job.pending.stage), !.pending = None]
    BY <1>3 DEF RecordRun, At
  <2>2. DOMAIN job = JobFields  BY <2>1 DEF JobOK, RunningJob
  <2>3. job' # None => job'.version = job.version /\ job'.spec = job.spec  BY <2>1, <2>2 DEF JobFields
  <2> QED  BY <2>1, <2>3 DEF BoundInv, Starting
<1>4. CASE /\ exec' = exec /\ job' = job /\ batch' = batch /\ ledger' = ledger /\ scene' = scene
           /\ deployed' = deployed \/ Redeploy
  BY <1>0, <1>4 DEF BoundInv, Redeploy
<1> QED  BY <1>1, <1>2, <1>3, <1>4, StepKinds

-------------------------------------------------------------------------------
\* What the ledger tells is durable

\* What a skipped stage found of the batch.
Guard(g) ==
  /\ g = "land" => Landed
  /\ g = "pre_check" => batch.preq # {}
  /\ g = "post_check" => batch.postq # {}
  /\ g = "commit" => DOMAIN batch.facts # {}

\* What a stage did by the time it is reported to have worked.
Deed(stage) ==
  /\ stage = "commit" => Closed
  /\ stage = "publish" => batch.announced # None

\* No step takes back what is durable.
Grown ==
  /\ Landed => Landed'
  /\ batch.preq # {} => batch'.preq # {}
  /\ batch.postq # {} => batch'.postq # {}
  /\ DOMAIN batch.facts # {} => DOMAIN batch'.facts # {}
  /\ Closed => Closed'
  /\ batch.announced # None => batch'.announced # None

\* What the next state owes of a job: a stage it skips anew found what it
\* looked for, and a stage it reports did what it is for.
Owed ==
  job' # None =>
    /\ \A g \in job'.skips \ job.skips : Guard(g)'
    /\ job'.pc = "record" /\ job'.pending.outcome # "failed" => Deed(job.pending.stage)'

LEMMA SameBatch == batch' = batch => Grown /\ \A g : Guard(g)' = Guard(g)
  BY DEF Grown, Guard, Landed, Closed

LEMMA LandTells == ASSUME JobOK, DOMAIN batch = BatchFields, Land PROVE Grown /\ Owed
<1>0. job # None /\ DOMAIN job = JobFields  BY LandEffect DEF JobOK, RunningJob
<1>1. CASE FailedAs("land", {"tables", "objects"}, job, job') /\ batch' = batch
  BY <1>0, <1>1, SameBatch DEF FailedAs, But, JobFields, Owed
<1>2. CASE /\ Landed /\ batch' = batch /\ But({"pc", "skips"}, job, job') /\ job'.pc = "announce"
           /\ job'.skips = job.skips \cup {"land"}
  <2>1. Guard("land")' /\ job'.skips \ job.skips \subseteq {"land"}  BY <1>2 DEF Guard, Landed
  <2> QED  BY <1>2, <2>1, SameBatch DEF Owed
<1>3. CASE /\ ~Landed /\ batch' = [batch EXCEPT !.raw = read_objects(Objects, job.spec)]
           /\ But({"pc"}, job, job') /\ job'.pc = "announce"
  <2>1. Grown  BY <1>3 DEF Grown, Closed, BatchFields
  <2> QED  BY <1>0, <1>3, <2>1 DEF Owed, But, JobFields
<1> QED  BY <1>1, <1>2, <1>3, LandEffect

LEMMA PreCheckTells == ASSUME JobOK, DOMAIN batch = BatchFields, PreCheck PROVE Grown /\ Owed
<1>0. job # None /\ DOMAIN job = JobFields  BY PreCheckEffect DEF JobOK, RunningJob
<1>1. \/ \E c : FailedAs("pre_check", c, job, job') /\ batch' = batch
      \/ \E skip, d, v : /\ skip \in BOOLEAN /\ DoorAs("pre_check", skip, d, PreChecked(v, job.spec), job')
                         /\ batch' = batch /\ (skip => batch.preq # {})
      \/ /\ batch.preq = {} /\ \E q : batch' = [batch EXCEPT !.preq = q, !.judge = job.version]
         /\ \/ \E c : FailedAs("pre_check", c, job, job')
            \/ \E v : DoorAs("pre_check", FALSE, FALSE, PreChecked(v, job.spec), job')
  BY PreCheckEffect
<1>2. \A v : LET j == PreChecked(v, job.spec) IN DOMAIN j = JobFields /\ j.skips = job.skips
  BY <1>0 DEF PreChecked, JobFields
<1>3. CASE \E c : FailedAs("pre_check", c, job, job') /\ batch' = batch
  BY <1>0, <1>3, SameBatch DEF FailedAs, But, JobFields, Owed
<1>4. CASE \E skip, d, v : /\ skip \in BOOLEAN /\ DoorAs("pre_check", skip, d, PreChecked(v, job.spec), job')
                           /\ batch' = batch /\ (skip => batch.preq # {})
  <2>1. PICK skip, d, v : /\ skip \in BOOLEAN /\ DoorAs("pre_check", skip, d, PreChecked(v, job.spec), job')
                          /\ batch' = batch /\ (skip => batch.preq # {})
    BY <1>4
  <2>2. job'.pc = "record" /\ job'.pending.stage = "pre_check" /\ job'.skips = IF skip THEN job.skips \cup {"pre_check"} ELSE job.skips
    BY <1>2, <2>1 DEF DoorAs
  <2>3. \A g \in job'.skips \ job.skips : g = "pre_check" /\ skip  BY <2>2
  <2>4. skip => Guard("pre_check")'  BY <2>1 DEF Guard
  <2>5. Deed("pre_check")'  BY DEF Deed
  <2> QED  BY <2>1, <2>2, <2>3, <2>4, <2>5, SameBatch DEF Owed
<1>5. CASE /\ batch.preq = {} /\ \E q : batch' = [batch EXCEPT !.preq = q, !.judge = job.version]
           /\ \/ \E c : FailedAs("pre_check", c, job, job')
              \/ \E v : DoorAs("pre_check", FALSE, FALSE, PreChecked(v, job.spec), job')
  <2>1. Grown  BY <1>5 DEF Grown, Closed, Landed, BatchFields
  <2>2. job'.skips = job.skips /\ job'.pending.stage = "pre_check"
    <3>1. \A c : FailedAs("pre_check", c, job, job') => job'.skips = job.skips /\ job'.pending.stage = "pre_check"
      BY <1>0 DEF FailedAs, But, JobFields
    <3>2. \A v : DoorAs("pre_check", FALSE, FALSE, PreChecked(v, job.spec), job')
                => job'.skips = job.skips /\ job'.pending.stage = "pre_check"
      BY <1>2 DEF DoorAs
    <3> QED  BY <1>5, <3>1, <3>2
  <2>3. Deed("pre_check")'  BY DEF Deed
  <2> QED  BY <2>1, <2>2, <2>3 DEF Owed
<1> QED  BY <1>1, <1>3, <1>4, <1>5

LEMMA PostCheckTells == ASSUME JobOK, DOMAIN batch = BatchFields, PostCheck PROVE Grown /\ Owed
<1>0. job # None /\ DOMAIN job = JobFields  BY PostCheckEffect DEF JobOK, RunningJob
<1>1. \/ \E c : FailedAs("post_check", c, job, job') /\ batch' = batch
      \/ \E skip, d, a : /\ skip \in BOOLEAN /\ DoorAs("post_check", skip, d, [job EXCEPT !.admitted = a], job')
                         /\ batch' = batch /\ (skip => batch.postq # {})
      \/ /\ batch.postq = {} /\ \E q : batch' = [batch EXCEPT !.postq = q]
         /\ \E a : DoorAs("post_check", FALSE, FALSE, [job EXCEPT !.admitted = a], job')
  BY PostCheckEffect
<1>2. \A a : LET j == [job EXCEPT !.admitted = a] IN DOMAIN j = JobFields /\ j.skips = job.skips
  BY <1>0 DEF JobFields
<1>3. CASE \E c : FailedAs("post_check", c, job, job') /\ batch' = batch
  BY <1>0, <1>3, SameBatch DEF FailedAs, But, JobFields, Owed
<1>4. CASE \E skip, d, a : /\ skip \in BOOLEAN /\ DoorAs("post_check", skip, d, [job EXCEPT !.admitted = a], job')
                           /\ batch' = batch /\ (skip => batch.postq # {})
  <2>1. PICK skip, d, a : /\ skip \in BOOLEAN /\ DoorAs("post_check", skip, d, [job EXCEPT !.admitted = a], job')
                          /\ batch' = batch /\ (skip => batch.postq # {})
    BY <1>4
  <2>2. job'.pc = "record" /\ job'.pending.stage = "post_check" /\ job'.skips = IF skip THEN job.skips \cup {"post_check"} ELSE job.skips
    BY <1>2, <2>1 DEF DoorAs
  <2>3. \A g \in job'.skips \ job.skips : g = "post_check" /\ skip  BY <2>2
  <2>4. skip => Guard("post_check")'  BY <2>1 DEF Guard
  <2>5. Deed("post_check")'  BY DEF Deed
  <2> QED  BY <2>1, <2>2, <2>3, <2>4, <2>5, SameBatch DEF Owed
<1>5. CASE /\ batch.postq = {} /\ \E q : batch' = [batch EXCEPT !.postq = q]
           /\ \E a : DoorAs("post_check", FALSE, FALSE, [job EXCEPT !.admitted = a], job')
  <2>1. Grown  BY <1>5 DEF Grown, Closed, Landed, BatchFields
  <2>2. job'.skips = job.skips /\ job'.pending.stage = "post_check"
    BY <1>0, <1>2, <1>5 DEF DoorAs
  <2>3. Deed("post_check")'  BY DEF Deed
  <2> QED  BY <2>1, <2>2, <2>3 DEF Owed
<1> QED  BY <1>1, <1>3, <1>4, <1>5

LEMMA StartTells == ASSUME JobOK, DOMAIN batch = BatchFields, Load \/ Describe \/ Bind PROVE Grown /\ Owed
<1>1. /\ job # None
      /\ batch' = batch \/ batch' = [batch EXCEPT !.by = @ \cup {job.version}]
      /\ \/ job' = None
         \/ But({"pc", "version", "spec", "facts"}, job, job') /\ job'.pc # "record"
  BY StartEffect DEF But
<1>2. DOMAIN job = JobFields  BY <1>1 DEF JobOK, RunningJob
<1>3. Grown  BY <1>1 DEF Grown, Landed, Closed, BatchFields
<1>4. job' # None => job'.skips = job.skips  BY <1>1, <1>2 DEF But, JobFields
<1> QED  BY <1>1, <1>3, <1>4 DEF Owed

LEMMA MidTells ==
  ASSUME JobOK, Announce \/ Pull \/ Apply \/ OpenCommit \/ OpenFold
  PROVE  Grown /\ Owed
<1>0. job # None /\ batch' = batch  BY MidEffect
<1>1. DOMAIN job = JobFields  BY <1>0 DEF JobOK, RunningJob
<1>2. \/ \E stage, c : FailedAs(stage, c, job, job')
      \/ EndedAs("land", job, job')
      \/ \E co : EndedAs("pull", [job EXCEPT !.co = co], job')
      \/ \E cands : EndedAs("apply", [job EXCEPT !.cands = cands], job')
      \/ But({"pc", "left"}, job, job') /\ job'.pc \in {"tables", "states"}
  BY MidEffect
<1>3. CASE \E stage, c : FailedAs(stage, c, job, job')
  BY <1>0, <1>1, <1>3, SameBatch DEF FailedAs, But, JobFields, Owed
<1>4. CASE EndedAs("land", job, job')
  <2>1. job'.skips = job.skips /\ job'.pending.stage = "land"  BY <1>1, <1>4 DEF EndedAs, But, JobFields
  <2> QED  BY <1>0, <2>1, SameBatch DEF Owed, Deed
<1>5. CASE \E co : EndedAs("pull", [job EXCEPT !.co = co], job')
  <2>1. \A co : DOMAIN [job EXCEPT !.co = co] = JobFields /\ [job EXCEPT !.co = co].skips = job.skips  BY <1>1 DEF JobFields
  <2>2. job'.skips = job.skips /\ job'.pending.stage = "pull"  BY <2>1, <1>5 DEF EndedAs, But, JobFields
  <2> QED  BY <1>0, <2>2, SameBatch DEF Owed, Deed
<1>6. CASE \E cands : EndedAs("apply", [job EXCEPT !.cands = cands], job')
  <2>1. \A cands : DOMAIN [job EXCEPT !.cands = cands] = JobFields /\ [job EXCEPT !.cands = cands].skips = job.skips
    BY <1>1 DEF JobFields
  <2>2. job'.skips = job.skips /\ job'.pending.stage = "apply"  BY <2>1, <1>6 DEF EndedAs, But, JobFields
  <2> QED  BY <1>0, <2>2, SameBatch DEF Owed, Deed
<1>7. CASE But({"pc", "left"}, job, job') /\ job'.pc \in {"tables", "states"}
  <2>1. job'.skips = job.skips /\ job'.pc # "record"  BY <1>1, <1>7 DEF But, JobFields
  <2> QED  BY <1>0, <2>1, SameBatch DEF Owed
<1> QED  BY <1>2, <1>3, <1>4, <1>5, <1>6, <1>7

LEMMA LateTells ==
  ASSUME JobOK, DOMAIN batch = BatchFields, \A tables \in SUBSET FactTables(job.spec) : tables # None,
         CommitTable \/ Complete \/ FoldTable \/ EndFold \/ Publish
  PROVE  Grown /\ Owed
<1>0. job # None  BY LateEffect
<1>1. DOMAIN job = JobFields  BY <1>0 DEF JobOK, RunningJob
<1>2. \A t : Mark(t) => Grown /\ (\A g : Guard(g)' = Guard(g)) /\ (t = COMMIT_COMPLETION_SENTINEL => Closed')
  <2>1. SUFFICES ASSUME NEW t, Mark(t) PROVE Grown /\ (\A g : Guard(g)' = Guard(g)) /\ (t = COMMIT_COMPLETION_SENTINEL => Closed')
    OBVIOUS
  <2>2. /\ batch'.raw = batch.raw /\ batch'.preq = batch.preq /\ batch'.postq = batch.postq /\ batch'.facts = batch.facts
        /\ batch'.announced = batch.announced /\ batch'.markers = batch.markers \cup {<<MarkersTable(job.spec), t>>}
    BY <2>1 DEF Mark, BatchFields
  <2>3. t = COMMIT_COMPLETION_SENTINEL => Closed'
    <3>1. <<MarkersTable(job.spec), t>> \in batch'.markers /\ <<MarkersTable(job.spec), t>>[2] = t  BY <2>2
    <3> QED  BY <3>1 DEF Closed
  <2> QED  BY <2>2, <2>3 DEF Grown, Guard, Landed, Closed
<1>3. \/ \E stage, c : FailedAs(stage, c, job, job') /\ batch' = batch
      \/ \E t : t \in DOMAIN batch.facts /\ Mark(t) /\ But({"left", "skips"}, job, job') /\ job'.skips = job.skips \cup {"commit"}
               /\ job.pc = "tables"
      \/ job.pc \in {"tables", "states"} /\ batch' = batch /\ But({"left"}, job, job')
      \/ job.pc = "tables" /\ job' = job /\ \E t : Mark(t)
      \/ job.pc = "tables" /\ But({"left"}, job, job') /\ \E t, f : batch' = [batch EXCEPT !.facts = Put(@, t, f)]
      \/ Mark(COMMIT_COMPLETION_SENTINEL) /\ EndedAs("commit", job, job')
      \/ job.pc = "states" /\ But({"left"}, job, job') /\ \E f : batch' = [batch EXCEPT !.folded = f]
      \/ batch' = batch /\ EndedAs("fold", job, job')
      \/ EndedAs("publish", job, job') /\ batch' = [batch EXCEPT !.announced = FactTables(job.spec) \cap DOMAIN batch.facts]
  BY LateEffect
<1>4. CASE \E stage, c : FailedAs(stage, c, job, job') /\ batch' = batch
  BY <1>0, <1>1, <1>4, SameBatch DEF FailedAs, But, JobFields, Owed
<1>5. CASE \E t : /\ t \in DOMAIN batch.facts /\ Mark(t) /\ But({"left", "skips"}, job, job')
                  /\ job'.skips = job.skips \cup {"commit"} /\ job.pc = "tables"
  <2>1. PICK t : /\ t \in DOMAIN batch.facts /\ Mark(t) /\ But({"left", "skips"}, job, job')
                 /\ job'.skips = job.skips \cup {"commit"} /\ job.pc = "tables"
    BY <1>5
  <2>2. job'.pc = "tables"  BY <1>1, <2>1 DEF But, JobFields
  <2>3. Guard("commit")  BY <2>1 DEF Guard
  <2>4. Grown /\ Guard("commit")'  BY <1>2, <2>1, <2>3
  <2>5. job'.skips \ job.skips \subseteq {"commit"}  BY <2>1
  <2> QED  BY <2>2, <2>4, <2>5 DEF Owed
<1>6. CASE job.pc \in {"tables", "states"} /\ batch' = batch /\ But({"left"}, job, job')
  <2>1. job'.skips = job.skips /\ job'.pc # "record"  BY <1>1, <1>6 DEF But, JobFields
  <2> QED  BY <1>6, <2>1, SameBatch DEF Owed
<1>7. CASE job.pc = "tables" /\ job' = job /\ \E t : Mark(t)
  BY <1>2, <1>7 DEF Owed
<1>8. CASE job.pc = "tables" /\ But({"left"}, job, job') /\ \E t, f : batch' = [batch EXCEPT !.facts = Put(@, t, f)]
  <2>1. job'.skips = job.skips /\ job'.pc = "tables"  BY <1>1, <1>8 DEF But, JobFields
  <2>2. PICK t, f : batch' = [batch EXCEPT !.facts = Put(@, t, f)]  BY <1>8
  <2>3. batch'.facts = Put(batch.facts, t, f)  BY <2>2 DEF BatchFields
  <2>4. DOMAIN batch'.facts # {}  BY <2>3 DEF Put
  <2>5. Grown  BY <2>2, <2>4 DEF Grown, Landed, Closed, BatchFields
  <2> QED  BY <2>1, <2>5 DEF Owed
<1>9. CASE Mark(COMMIT_COMPLETION_SENTINEL) /\ EndedAs("commit", job, job')
  <2>1. job'.skips = job.skips /\ job'.pending.stage = "commit"  BY <1>1, <1>9 DEF EndedAs, But, JobFields
  <2>2. Grown /\ Deed("commit")'  BY <1>2, <1>9 DEF Deed
  <2> QED  BY <2>1, <2>2 DEF Owed
<1>10. CASE job.pc = "states" /\ But({"left"}, job, job') /\ \E f : batch' = [batch EXCEPT !.folded = f]
  <2>1. job'.skips = job.skips /\ job'.pc = "states"  BY <1>1, <1>10 DEF But, JobFields
  <2>2. Grown  BY <1>10 DEF Grown, Landed, Closed, BatchFields
  <2> QED  BY <2>1, <2>2 DEF Owed
<1>11. CASE batch' = batch /\ EndedAs("fold", job, job')
  <2>1. job'.skips = job.skips /\ job'.pending.stage = "fold"  BY <1>1, <1>11 DEF EndedAs, But, JobFields
  <2> QED  BY <1>11, <2>1, SameBatch DEF Owed, Deed
<1>12. CASE EndedAs("publish", job, job') /\ batch' = [batch EXCEPT !.announced = FactTables(job.spec) \cap DOMAIN batch.facts]
  <2>1. job'.skips = job.skips /\ job'.pending.stage = "publish"  BY <1>1, <1>12 DEF EndedAs, But, JobFields
  <2>2. batch'.announced # None  BY <1>12 DEF BatchFields
  <2>3. Grown  BY <1>12, <2>2 DEF Grown, Landed, Closed, BatchFields
  <2> QED  BY <2>1, <2>2, <2>3 DEF Owed, Deed
<1> QED  BY <1>3, <1>4, <1>5, <1>6, <1>7, <1>8, <1>9, <1>10, <1>11, <1>12

LEMMA StagingTells ==
  ASSUME JobOK, BoundInv, Staging
  PROVE  Grown /\ Owed
<1>0. DOMAIN batch = BatchFields  BY DEF BoundInv
<1>1. job # None /\ job.pc # "load" => \A tables \in SUBSET FactTables(job.spec) : tables # None
  <2>1. SUFFICES ASSUME job # None, job.pc # "load" PROVE \A tables \in SUBSET FactTables(job.spec) : tables # None
    OBVIOUS
  <2>2. job.spec \in Elems(scene.specs)  BY <2>1 DEF BoundInv, Elems
  <2> QED  BY <2>2, TablesAssumption DEF BoundInv
<1>2. CASE Load \/ Describe \/ Bind  BY <1>0, <1>2, StartTells
<1>3. CASE Land  BY <1>0, <1>3, LandTells
<1>4. CASE PreCheck  BY <1>0, <1>4, PreCheckTells
<1>5. CASE PostCheck  BY <1>0, <1>5, PostCheckTells
<1>6. CASE Announce \/ Pull \/ Apply \/ OpenCommit \/ OpenFold  BY <1>6, MidTells
<1>7. CASE CommitTable \/ Complete \/ FoldTable \/ EndFold \/ Publish
  <2>1. job # None /\ job.pc # "load"  BY <1>7, LateEffect
  <2> QED  BY <1>0, <1>1, <1>7, <2>1, LateTells
<1>8. CASE EffectRaises \/ Die
  <2>1. /\ job # None /\ batch' = batch
        /\ job' = None \/ FailedAs(StageOf(job.pc), {"fault"}, job, job')
    BY <1>8, FaultEffect
  <2>2. DOMAIN job = JobFields  BY <2>1 DEF JobOK, RunningJob
  <2>3. job' # None => job'.skips = job.skips /\ job'.pending.outcome = "failed"
    BY <2>1, <2>2 DEF FailedAs, But, JobFields
  <2> QED  BY <2>1, <2>3, SameBatch DEF Owed
<1> QED  BY <1>2, <1>3, <1>4, <1>5, <1>6, <1>7, <1>8 DEF Staging

\* What a report says is so.
Promise(stage, outcome) ==
  /\ outcome = "skipped-guard" => Guard(stage)
  /\ outcome # "failed" => Deed(stage)

TruthInv ==
  /\ \A r \in Told : Promise(r.stage, r.outcome)
  /\ job # None => /\ \A g \in job.skips : Guard(g)
                   /\ job.pc = "record" => Promise(job.pending.stage, job.pending.outcome)

LEMMA TruthInit == Init => TruthInv
  BY DEF Init, TruthInv, Told

LEMMA TruthNext == GapInv /\ BoundInv /\ TruthInv /\ [Next]_allVars => TruthInv'
<1> SUFFICES ASSUME GapInv, BoundInv, TruthInv, [Next]_allVars PROVE TruthInv'  OBVIOUS
<1>0. JobOK /\ ExecOK  BY DEF GapInv
<1>1. batch' = batch => \A s, o : Promise(s, o)' = Promise(s, o)
  BY DEF Promise, Guard, Deed, Landed, Closed
<1>2. CASE Route \/ Retry \/ GiveUp \/ Rerun
  <2>1. batch' = batch /\ ledger' = ledger /\ (job' = Fresh \/ job' = None)  BY <1>0, <1>2, ExecSteps
  <2>2. job' # None => job'.skips = {} /\ job'.pc = "load"  BY <2>1 DEF Fresh
  <2>3. Told' = Told  BY <2>1 DEF Told
  <2> QED  BY <1>1, <2>1, <2>2, <2>3 DEF TruthInv
<1>3. CASE Staging
  <2>1. Grown /\ Owed  BY <1>0, <1>3, StagingTells
  <2>2. /\ job # None /\ exec' = exec /\ ledger' = ledger
        /\ job' # None => RunningJob(job')
    BY <1>0, <1>3, StagingStep
  <2>3. \A g : Guard(g) => Guard(g)'  BY <2>1 DEF Grown, Guard
  <2>4. \A s, o : Promise(s, o) => Promise(s, o)'
    <3>1. \A s : Deed(s) => Deed(s)'  BY <2>1 DEF Grown, Deed
    <3> QED  BY <2>3, <3>1 DEF Promise
  <2>5. \A r \in Told' : Promise(r.stage, r.outcome)'
    <3>1. Told' = Told  BY <2>2 DEF Told
    <3> QED  BY <2>4, <3>1 DEF TruthInv
  <2>6. ASSUME job' # None, NEW g \in job'.skips PROVE Guard(g)'
    <3>1. g \in job.skips \/ g \in job'.skips \ job.skips  BY <2>6
    <3> QED  BY <2>1, <2>2, <2>3, <2>6, <3>1 DEF Owed, TruthInv
  <2>7. ASSUME job' # None, job'.pc = "record" PROVE Promise(job.pending.stage, job.pending.outcome)'
    <3>1. job'.pending.outcome = "skipped-guard" => job'.pending.stage \in job'.skips
      BY <2>2, <2>7 DEF RunningJob, PendingOK
    <3>2. job'.pending.outcome # "failed" => Deed(job.pending.stage)'  BY <2>1, <2>7 DEF Owed
    <3>3. job'.pending.outcome = "skipped-guard" => Guard(job.pending.stage)'  BY <2>6, <2>7, <3>1
    <3> QED  BY <3>2, <3>3 DEF Promise
  <2> QED  BY <2>5, <2>6, <2>7 DEF TruthInv
<1>4. CASE RecordRun
  <2>1. /\ job # None /\ job.pc = "record" /\ batch' = batch
        /\ job' = None \/ job' = [job EXCEPT !.pc = Following(job.pending.stage), !.pending = None]
    BY <1>4 DEF RecordRun, At
  <2>2. Told' = Told \cup {job.pending}  BY <1>4, Reporting
  <2>3. \A r \in Told' : Promise(r.stage, r.outcome)'
    <3>1. \A r \in Told' : Promise(r.stage, r.outcome)  BY <2>1, <2>2 DEF TruthInv
    <3> QED  BY <1>1, <2>1, <3>1
  <2>4. JobOK'  BY GapNext DEF GapInv
  <2>5. job' # None => job'.skips = job.skips /\ job'.pc # "record"
    <3>1. DOMAIN job = JobFields  BY <1>0, <2>1 DEF JobOK, RunningJob
    <3>2. job' # None => job'.skips = job.skips /\ job'.pc = Following(job.pending.stage)  BY <2>1, <3>1 DEF JobFields
    <3>3. job' # None => job.pending.stage \in Stages /\ job.pending.stage # "publish"
      <4>1. job.pending.stage \in Stages /\ job.pending.outcome \in Outcomes
            /\ (job.pending.outcome = "skipped-guard" => job.pending.stage \in Guarded)
        BY <1>0, <2>1 DEF JobOK, RunningJob, PendingOK
      <4> QED  BY <1>4, <4>1 DEF RecordRun, Outcomes, Guarded
    <3> QED  BY <3>2, <3>3, FollowingPlace DEF Working
  <2>6. \A g : Guard(g)' = Guard(g)  BY <2>1, SameBatch
  <2> QED  BY <2>1, <2>3, <2>5, <2>6 DEF TruthInv
<1>5. CASE exec' = exec /\ job' = job /\ batch' = batch /\ ledger' = ledger
  <2>1. \A g : Guard(g)' = Guard(g)  BY <1>5, SameBatch
  <2>2. Told' = Told  BY <1>5 DEF Told
  <2>3. \A r \in Told' : Promise(r.stage, r.outcome)'  BY <1>1, <1>5, <2>2 DEF TruthInv
  <2>4. job' # None => /\ \A g \in job'.skips : Guard(g)'
                       /\ job'.pc = "record" => Promise(job.pending.stage, job.pending.outcome)'
    BY <1>1, <1>5, <2>1 DEF TruthInv
  <2> QED  BY <2>3, <2>4 DEF TruthInv
<1> QED  BY <1>2, <1>3, <1>4, <1>5, StepKinds

-------------------------------------------------------------------------------
\* Only one attempt claims to have appended the landed rows

\* The objects of the delivery have no rows for a spec.
Empty(v) == DOMAIN read_objects(Objects, scene.specs[v]) = {}

\* The running job found no landed rows, and has appended them.
Claiming ==
  /\ job # None
  /\ \/ job.pc = "announce" /\ "land" \notin job.skips
     \/ job.pc = "record" /\ job.pending.stage = "land" /\ job.pending.outcome = "ok"

Claims == {r.attempt : r \in {x \in Told : x.stage = "land" /\ x.outcome = "ok"}} \cup (IF Claiming THEN {Attempt} ELSE {})

ClaimInv ==
  /\ Claims # {} /\ ~Landed => \E v \in batch.by : Empty(v)
  /\ Landed /\ OneSpec => \A a, b \in Claims : a = b

LEMMA ClaimInit == Init => ClaimInv
  BY DEF Init, ClaimInv, Claims, Claiming, Told, Landed

\* Claims that are withdrawn, or pass from the job to the ledger, are no harm.
LEMMA FewerClaims ==
  ASSUME ClaimInv, Claims' \subseteq Claims, batch.by \subseteq batch'.by, Landed' = Landed,
         scene' = scene, exec'.detail = exec.detail \/ Claims = {}
  PROVE  ClaimInv'
<1>1. OneSpec' => OneSpec  BY DEF OneSpec
<1>2. Claims # {} => \A v : Empty(v)' = Empty(v)  BY DEF Empty, Objects
<1> QED  BY <1>1, <1>2 DEF ClaimInv

LEMMA ClaimLand ==
  ASSUME ClaimInv, BoundInv, ExecOK, JobOK, job # None, job.pc = "land", ledger' = ledger, exec' = exec, scene' = scene,
         ~Landed, batch' = [batch EXCEPT !.raw = read_objects(Objects, job.spec)]
  PROVE  ClaimInv'
<1>1. job.version \in batch.by /\ batch'.by = batch.by /\ batch'.raw = read_objects(Objects, scene.specs[job.version])
  BY DEF BoundInv, BatchFields, Starting
<1>2. ~Claiming /\ Told' = Told /\ Attempt' = Attempt  BY DEF Claiming, Told, Attempt
<1>3. Landed' <=> ~Empty(job.version)  BY <1>1 DEF Landed, Empty
<1>4. Claims' \subseteq Claims \cup {Attempt}  BY <1>2 DEF Claims
<1>5. \A v : Empty(v)' = Empty(v)  BY DEF Empty, Objects
<1>6. OneSpec' = OneSpec  BY <1>1 DEF OneSpec
<1>7. ~Landed' => \E v \in batch'.by : Empty(v)'  BY <1>1, <1>3, <1>5
<1>8. Landed' /\ OneSpec' => Claims = {}  BY <1>1, <1>3, <1>6 DEF ClaimInv, OneSpec
<1> QED  BY <1>4, <1>7, <1>8 DEF ClaimInv

LEMMA ClaimStaging == ASSUME GapInv, BoundInv, ClaimInv, Staging PROVE ClaimInv'
<1>0. JobOK /\ ExecOK /\ DOMAIN batch = BatchFields  BY DEF GapInv, BoundInv
<1>1. /\ job # None /\ exec' = exec /\ ledger' = ledger
      /\ job' # None => RunningJob(job') /\ Due(job') = Due(job)
  BY <1>0, StagingStep
<1>2. Told' = Told /\ Attempt' = Attempt  BY <1>1 DEF Told, Attempt
<1>3. /\ scene' = scene
      /\ \/ batch' = batch
         \/ batch'.by = batch.by /\ (batch'.raw = batch.raw \/ Land)
         \/ batch' = [batch EXCEPT !.by = @ \cup {job.version}]
  BY <1>0, StagingBinds
<1>4. ~Land => Landed' = Landed /\ batch.by \subseteq batch'.by  BY <1>0, <1>3 DEF Landed, BatchFields
<1>5. ASSUME Landed' = Landed, batch.by \subseteq batch'.by, Claiming' => Claiming PROVE ClaimInv'
  <2>1. Claims' \subseteq Claims  BY <1>2, <1>5 DEF Claims
  <2> QED  BY <1>1, <1>3, <1>5, <2>1, FewerClaims
<1>6. DOMAIN job = JobFields  BY <1>0, <1>1 DEF JobOK, RunningJob
<1>7. CASE Land
  <2>1. /\ job.pc = "land"
        /\ \/ FailedAs("land", {"tables", "objects"}, job, job') /\ batch' = batch
           \/ /\ Landed /\ batch' = batch
              /\ But({"pc", "skips"}, job, job') /\ job'.pc = "announce" /\ job'.skips = job.skips \cup {"land"}
           \/ ~Landed /\ batch' = [batch EXCEPT !.raw = read_objects(Objects, job.spec)]
    BY <1>0, <1>7, LandEffect
  <2>2. CASE FailedAs("land", {"tables", "objects"}, job, job') /\ batch' = batch
    <3>1. job'.pc = "record" /\ job'.pending.outcome = "failed"  BY <2>2 DEF FailedAs
    <3>2. ~Claiming'  BY <3>1 DEF Claiming
    <3> QED  BY <1>5, <2>2, <3>2 DEF Landed
  <2>3. CASE batch' = batch /\ job'.pc = "announce" /\ job'.skips = job.skips \cup {"land"}
    <3>1. ~Claiming'  BY <2>3 DEF Claiming
    <3> QED  BY <1>5, <2>3, <3>1 DEF Landed
  <2>4. CASE ~Landed /\ batch' = [batch EXCEPT !.raw = read_objects(Objects, job.spec)]
    BY <1>0, <1>1, <1>3, <2>1, <2>4, ClaimLand
  <2> QED  BY <2>1, <2>2, <2>3, <2>4
<1>8. CASE Announce
  <2>1. job.pc = "announce"  BY <1>8 DEF Announce, At
  <2>2. EndedAs("land", job, job')  BY <1>0, <1>8, <2>1, MidEffect
  <2>3. Claiming' => Claiming  BY <1>1, <2>1, <2>2 DEF EndedAs, Claiming
  <2>4. ~Land  BY <2>1 DEF Land, At
  <2> QED  BY <1>4, <1>5, <2>3, <2>4
<1>9. CASE Load \/ Describe \/ Bind
  <2>1. job.pc # "land"  BY <1>9 DEF Load, Describe, Bind
  <2>4. job' = None \/ job'.pc \in {"describe", "bind", "land"}  BY <1>0, <1>9, StartEffect
  <2>2. ~Claiming'  BY <2>4 DEF Claiming
  <2>3. ~Land  BY <2>1 DEF Land, At
  <2> QED  BY <1>4, <1>5, <2>2, <2>3
<1>10. Claiming' => Due(job) = 1
  <2>1. SUFFICES ASSUME Claiming' PROVE Due(job) = 1  OBVIOUS
  <2>2. job' # None /\ (job'.pc = "announce" \/ (job'.pc = "record" /\ job'.pending.stage = "land"))
    BY <2>1 DEF Claiming
  <2>3. Due(job') = 1  BY <2>2, Places DEF Due, StageOf, Starting
  <2> QED  BY <1>1, <2>2, <2>3
<1>11. job.pc \in Working \ {"land", "announce"} => Due(job) # 1
  BY Places DEF Due, StageOf, Working, Starting
<1>12. ASSUME job.pc \in Working \ {"land", "announce"} PROVE ClaimInv'
  <2>1. ~Claiming' /\ ~Land  BY <1>10, <1>11, <1>12 DEF Land, At
  <2> QED  BY <1>4, <1>5, <2>1
<1>13. CASE PreCheck \/ PostCheck \/ Pull \/ Apply \/ OpenCommit \/ OpenFold
  <2>1. job.pc \in {"pre_check", "post_check", "pull", "apply", "commit", "fold"}
    BY <1>13 DEF PreCheck, PostCheck, Pull, Apply, OpenCommit, OpenFold, At
  <2> QED  BY <1>12, <2>1 DEF Working
<1>14. CASE CommitTable \/ Complete \/ FoldTable \/ EndFold \/ Publish
  <2>1. job.pc \in {"tables", "states", "publish"}
    BY <1>14 DEF CommitTable, Complete, FoldTable, EndFold, Publish, At
  <2> QED  BY <1>12, <2>1 DEF Working
<1>15. CASE EffectRaises \/ Die
  <2>1. batch' = batch /\ (job' = None \/ FailedAs(StageOf(job.pc), {"fault"}, job, job'))
    BY <1>0, <1>15, FaultEffect
  <2>2. ~Claiming'  BY <2>1 DEF FailedAs, Claiming
  <2> QED  BY <1>5, <2>1, <2>2 DEF Landed
<1> QED  BY <1>7, <1>8, <1>9, <1>13, <1>14, <1>15 DEF Staging

LEMMA ClaimNext == GapInv /\ BoundInv /\ ClaimInv /\ [Next]_allVars => ClaimInv'
<1> SUFFICES ASSUME GapInv, BoundInv, ClaimInv, [Next]_allVars PROVE ClaimInv'  OBVIOUS
<1>0. JobOK /\ ExecOK  BY DEF GapInv
<1>1. CASE Route \/ Retry \/ GiveUp \/ Rerun
  <2>1. /\ scene' = scene /\ batch' = batch /\ ledger' = ledger /\ (job' = Fresh \/ job' = None)
        /\ exec.status = "none" \/ exec'.detail = exec.detail
    BY <1>0, <1>1, ExecSteps
  <2>2. ~Claiming'  BY <2>1 DEF Claiming, Fresh
  <2>3. Told' = Told  BY <2>1 DEF Told
  <2>4. Claims' \subseteq Claims  BY <2>2, <2>3 DEF Claims
  <2>5. exec.status = "none" => Claims = {}  BY <1>0 DEF GapInv, JobOK, Claims, Claiming
  <2> QED  BY <2>1, <2>4, <2>5, FewerClaims DEF Landed
<1>2. CASE Staging  BY <1>2, ClaimStaging
<1>3. CASE RecordRun
  <2>1. /\ job # None /\ job.pc = "record" /\ scene' = scene /\ batch' = batch
        /\ exec' = exec \/ exec' = [exec EXCEPT !.status = "succeeded"]
        /\ job' = None \/ job' = [job EXCEPT !.pc = Following(job.pending.stage), !.pending = None]
    BY <1>3 DEF RecordRun, At
  <2>2. exec'.detail = exec.detail  BY <1>0, <2>1 DEF ExecOK
  <2>3. Told' = Told \cup {job.pending} /\ job.pending.attempt = Attempt
    BY <1>0, <1>3, <2>1, Reporting DEF JobOK, RunningJob, PendingOK
  <2>4. ~Claiming'
    <3>1. DOMAIN job = JobFields  BY <1>0, <2>1 DEF JobOK, RunningJob
    <3>2. job' # None => job'.pc = Following(job.pending.stage)  BY <2>1, <3>1 DEF JobFields
    <3>3. job' # None => job.pending.stage \in Stages /\ job.pending.stage # "publish"
      <4>1. job.pending.stage \in Stages /\ job.pending.outcome \in Outcomes
            /\ (job.pending.outcome = "skipped-guard" => job.pending.stage \in Guarded)
        BY <1>0, <2>1 DEF JobOK, RunningJob, PendingOK
      <4> QED  BY <1>3, <4>1 DEF RecordRun, Outcomes, Guarded
    <3>4. job' # None => job'.pc \in Stages \cap Working  BY <3>2, <3>3, FollowingPlace
    <3>5. job' # None => job'.pc # "announce" /\ job'.pc # "record"  BY <3>4, Places
    <3> QED  BY <3>5 DEF Claiming
  <2>5. Claims' \subseteq Claims
    <3>1. job.pending.stage = "land" /\ job.pending.outcome = "ok" => Claiming  BY <2>1 DEF Claiming
    <3> QED  BY <2>3, <2>4, <3>1 DEF Claims
  <2> QED  BY <2>1, <2>2, <2>5, FewerClaims DEF Landed
<1>4. CASE exec' = exec /\ job' = job /\ batch' = batch /\ ledger' = ledger /\ scene' = scene
  <2>1. Claims' = Claims  BY <1>4 DEF Claims, Claiming, Told, Attempt
  <2> QED  BY <1>4, <2>1, FewerClaims DEF Landed
<1> QED  BY <1>1, <1>2, <1>3, <1>4, StepKinds

LEMMA InvTruth == Spec => [](GapInv /\ BoundInv /\ TruthInv /\ ClaimInv)
<1>1. GapInv /\ BoundInv /\ [Next]_allVars => BoundInv'  BY BoundNext DEF GapInv
<1> QED  BY GapInit, GapNext, BoundInit, <1>1, TruthInit, TruthNext, ClaimInit, ClaimNext, PTL DEF Spec

LEMMA TruthImplies == GapInv /\ TruthInv /\ ClaimInv => LedgerTruthful
<1> SUFFICES ASSUME GapInv, TruthInv, ClaimInv PROVE LedgerTruthful  OBVIOUS
<1>1. ASSUME Landed, OneSpec, NEW x \in Told, NEW y \in Told,
             x.stage = "land", x.outcome = "ok", y.stage = "land", y.outcome = "ok"
      PROVE  x = y
  <2>1. x.attempt \in Claims /\ y.attempt \in Claims  BY <1>1 DEF Claims
  <2>2. x.attempt = y.attempt  BY <1>1, <2>1 DEF ClaimInv
  <2> QED  BY <1>1, <2>2 DEF GapInv
<1>2. \A r \in Told : Promise(r.stage, r.outcome)  BY DEF TruthInv
<1> QED  BY <1>1, <1>2 DEF LedgerTruthful, Told, Promise, Guard, Deed

\* What the run ledger tells is durable when it tells it (effects/ledger.py,
\* the guards of the stages), and under one spec only one attempt claims to
\* have appended the landed rows, though every attempt may be killed anywhere.
THEOREM LedgerAlwaysTruthful == Spec => []LedgerTruthful
  BY InvTruth, TruthImplies, PTL

-------------------------------------------------------------------------------
\* Numbers and sequences

\* Induction over the numbers.
LEMMA NatSet ==
  ASSUME NEW T, 0 \in T, \A n \in Nat : n \in T => n + 1 \in T
  PROVE  Nat \subseteq T
<1> DEFINE D == Nat \ T
<1>1. SUFFICES ASSUME D # {} PROVE FALSE  OBVIOUS
<1>2. IsWellFoundedOn(OpToRel(<, Nat), Nat)  BY NatLessThanWellFounded
<1>3. PICK d \in D : \A e \in D : ~(<<e, d>> \in OpToRel(<, Nat))  BY <1>1, <1>2, WFMin, Zenon
<1>4. \A e \in D : ~(e < d)  BY <1>3 DEF OpToRel
<1>5. d # 0 /\ d - 1 \in Nat /\ d - 1 < d  OBVIOUS
<1>6. d - 1 \in T  BY <1>4, <1>5
<1> QED  BY <1>5, <1>6

\* What a concatenation consists of.
LEMMA Concatenated ==
  ASSUME NEW S, NEW a \in Seq(S), NEW b \in Seq(S)
  PROVE  /\ DOMAIN (a \o b) = 1..(Len(a) + Len(b)) /\ DOMAIN a = 1..Len(a)
         /\ Len(a) \in Nat /\ Len(b) \in Nat /\ Len(a \o b) = Len(a) + Len(b) /\ a \o b \in Seq(S)
         /\ \A i \in DOMAIN a : (a \o b)[i] = a[i] /\ i \in DOMAIN (a \o b)
         /\ \A i \in 1..Len(b) : (a \o b)[Len(a) + i] = b[i]
         /\ b = <<>> => a \o b = a
<1>1. DOMAIN a = 1..Len(a) /\ Len(a) \in Nat /\ Len(b) \in Nat  OBVIOUS
<1>2. Len(a \o b) = Len(a) + Len(b) /\ a \o b \in Seq(S)  OBVIOUS
<1>3. DOMAIN (a \o b) = 1..(Len(a) + Len(b))  BY <1>2
<1>4. ASSUME NEW i \in 1..Len(a) PROVE (a \o b)[i] = a[i] /\ i \in 1..(Len(a) + Len(b))
  <2>1. i \in 1..(Len(a) + Len(b))  BY <1>1
  <2>2. (a \o b)[i] = a[i]  BY <1>1
  <2> QED  BY <2>1, <2>2
<1>5. ASSUME NEW i \in 1..Len(b) PROVE (a \o b)[Len(a) + i] = b[i]
  <2>1. Len(a) + i \in 1..(Len(a) + Len(b)) /\ ~(Len(a) + i <= Len(a))  BY <1>1
  <2>2. (Len(a) + i) - Len(a) = i  BY <1>1
  <2> QED  BY <1>1, <2>1, <2>2
<1>6. b = <<>> => a \o b = a  OBVIOUS
<1> QED  BY <1>1, <1>2, <1>3, <1>4, <1>5, <1>6

-----------------------------------------------------------------------------
(* Trees.                                                                  *)

\* What the engine evaluates of a node; and a layer of a tree, from the one above.
PartsOf(m) == {EngineParts(m)[i] : i \in DOMAIN EngineParts(m)}
LayerAt(n, f, d) == IF d = 0 THEN {n} ELSE UNION {PartsOf(m) : m \in f[d - 1]}

\* The layers of a tree are what their definition says.
LEMMA LayersDefined ==
  ASSUME NEW n
  PROVE  Layers(n) = [d \in 0..MaxNesting |-> LayerAt(n, Layers(n), d)]
<1> DEFINE Unfold(f) == [d \in 0..MaxNesting |-> LayerAt(n, f, d)]
           T == {k \in Nat : \E f : \A d \in 0..k : f[d] = LayerAt(n, f, d)}
<1>1. 0 \in T
  <2>1. LayerAt(n, [d \in {0} |-> {n}], 0) = {n}  BY DEF LayerAt
  <2> QED  BY <2>1
<1>2. ASSUME NEW k \in Nat, k \in T PROVE k + 1 \in T
  <2>1. PICK f : \A d \in 0..k : f[d] = LayerAt(n, f, d)  BY <1>2
  <2> DEFINE g == [d \in 0..(k + 1) |-> IF d <= k THEN f[d] ELSE LayerAt(n, f, d)]
  <2>2. ASSUME NEW d \in 0..(k + 1) PROVE g[d] = LayerAt(n, f, d)
    <3>1. CASE d <= k  BY <2>1, <3>1
    <3>2. CASE ~(d <= k)  BY <3>2
    <3> QED  BY <3>1, <3>2
  <2>3. ASSUME NEW d \in 0..(k + 1) PROVE LayerAt(n, f, d) = LayerAt(n, g, d)
    <3>1. CASE d = 0  BY <3>1 DEF LayerAt
    <3>2. CASE d # 0
      <4>1. d - 1 \in 0..(k + 1) /\ d - 1 <= k  BY <3>2
      <4>2. g[d - 1] = f[d - 1]  BY <4>1
      <4> HIDE DEF g
      <4> QED  BY <3>2, <4>2 DEF LayerAt
    <3> QED  BY <3>1, <3>2
  <2>4. \A d \in 0..(k + 1) : g[d] = LayerAt(n, g, d)  BY <2>2, <2>3
  <2> HIDE DEF g
  <2> QED  BY <2>4
<1>3. MaxNesting \in T
  <2> HIDE DEF T
  <2> QED  BY <1>1, <1>2, NatSet, NestingAssumption
<1>4. PICK f : \A d \in 0..MaxNesting : f[d] = LayerAt(n, f, d)  BY <1>3
<1> DEFINE g == [d \in 0..MaxNesting |-> f[d]]
<1>5. g = Unfold(g)
  <2>1. ASSUME NEW d \in 0..MaxNesting PROVE g[d] = LayerAt(n, g, d)
    <3>1. CASE d = 0  BY <1>4, <3>1 DEF LayerAt
    <3>2. CASE d # 0
      <4>1. d - 1 \in 0..MaxNesting /\ g[d] = LayerAt(n, f, d)  BY <1>4, <3>2, NestingAssumption
      <4>2. g[d - 1] = f[d - 1]  BY <4>1
      <4> HIDE DEF g
      <4> QED  BY <3>2, <4>1, <4>2 DEF LayerAt
    <3> QED  BY <3>1, <3>2
  <2> QED  BY <2>1
<1>6. Layers(n) = CHOOSE layer : layer = Unfold(layer)  BY Zenon DEF Layers, LayerAt, PartsOf
<1> HIDE DEF Unfold, g
<1>7. Layers(n) = Unfold(Layers(n))  BY <1>5, <1>6, Zenon
<1> QED  BY <1>7 DEF Unfold

\* The root is a subtree, and so are the parts of each one.
LEMMA SubtreesClosed ==
  ASSUME NEW n, Parsed(n)
  PROVE  /\ n \in Subtrees(n)
         /\ \A m \in Subtrees(n) : PartsOf(m) \subseteq Subtrees(n)
<1>1. Layers(n)[0] = {n}  BY LayersDefined, NestingAssumption DEF LayerAt
<1>2. n \in Subtrees(n)  BY <1>1, NestingAssumption DEF Subtrees
<1>3. ASSUME NEW d \in 0..MaxNesting, NEW m \in Layers(n)[d], NEW p \in PartsOf(m)
      PROVE  p \in Subtrees(n)
  <2>1. d # MaxNesting
    <3>1. ASSUME EngineParts(m) = <<>> PROVE PartsOf(m) = {}  BY <3>1 DEF PartsOf
    <3> QED  BY <1>3, <3>1 DEF Parsed
  <2>2. d + 1 \in 0..MaxNesting /\ d + 1 # 0 /\ (d + 1) - 1 = d  BY <2>1, NestingAssumption
  <2>3. Layers(n)[d + 1] = LayerAt(n, Layers(n), d + 1)  BY <2>2, LayersDefined
  <2>4. p \in Layers(n)[d + 1]  BY <2>2, <2>3 DEF LayerAt
  <2> QED  BY <2>2, <2>4 DEF Subtrees
<1> QED  BY <1>2, <1>3 DEF Subtrees

\* What holds of the root and is inherited by parts holds of every subtree.
LEMMA Downwards ==
  ASSUME NEW n, Parsed(n), NEW P, n \in P,
         \A m \in Subtrees(n) : m \in P => PartsOf(m) \subseteq P
  PROVE  Subtrees(n) \subseteq P
<1> DEFINE T == {d \in Nat : d \in 0..MaxNesting => Layers(n)[d] \subseteq P}
<1>1. 0 \in T  BY LayersDefined, NestingAssumption DEF LayerAt
<1>2. ASSUME NEW d \in Nat, d \in T PROVE d + 1 \in T
  <2> SUFFICES ASSUME d + 1 \in 0..MaxNesting PROVE Layers(n)[d + 1] \subseteq P  OBVIOUS
  <2>1. d \in 0..MaxNesting /\ Layers(n)[d] \subseteq P /\ d + 1 # 0 /\ (d + 1) - 1 = d  BY <1>2, NestingAssumption
  <2>2. Layers(n)[d + 1] = LayerAt(n, Layers(n), d + 1)  BY LayersDefined
  <2>3. Layers(n)[d + 1] = UNION {PartsOf(m) : m \in Layers(n)[d]}  BY <2>1, <2>2 DEF LayerAt
  <2>4. \A m \in Layers(n)[d] : m \in Subtrees(n)  BY <2>1 DEF Subtrees
  <2> QED  BY <2>1, <2>3, <2>4
<1>3. Nat \subseteq T
  <2> HIDE DEF T
  <2> QED  BY <1>1, <1>2, NatSet
<1>4. \A d \in 0..MaxNesting : Layers(n)[d] \subseteq P  BY <1>3, NestingAssumption
<1> QED  BY <1>4 DEF Subtrees

\* The subtrees found in one of the last k layers; a part of one of them is
\* found in one of the last k - 1.
Lowest(n, k) == UNION {Layers(n)[d] : d \in {e \in 0..MaxNesting : e + k > MaxNesting}}

\* The last layer has no parts, and together the layers are the subtrees.
LEMMA LowestLayers ==
  ASSUME NEW n, Parsed(n)
  PROVE  /\ Lowest(n, 0) = {}
         /\ Lowest(n, MaxNesting + 1) = Subtrees(n)
         /\ \A k \in Nat : Lowest(n, k) \subseteq Subtrees(n)
         /\ \A k \in Nat : \A m \in Lowest(n, k + 1) : PartsOf(m) \subseteq Lowest(n, k)
<1>1. Lowest(n, 0) = {}  BY NestingAssumption DEF Lowest
<1>2. {e \in 0..MaxNesting : e + (MaxNesting + 1) > MaxNesting} = 0..MaxNesting  BY NestingAssumption
<1>3. Lowest(n, MaxNesting + 1) = Subtrees(n)  BY <1>2 DEF Lowest, Subtrees
<1>4. ASSUME NEW k \in Nat PROVE Lowest(n, k) \subseteq Subtrees(n)  BY DEF Lowest, Subtrees
<1>5. ASSUME NEW k \in Nat, NEW d \in 0..MaxNesting, d + (k + 1) > MaxNesting, NEW m \in Layers(n)[d], NEW p \in PartsOf(m)
      PROVE  p \in Lowest(n, k)
  <2>1. d # MaxNesting
    <3>1. ASSUME EngineParts(m) = <<>> PROVE PartsOf(m) = {}  BY <3>1 DEF PartsOf
    <3> QED  BY <1>5, <3>1 DEF Parsed
  <2>2. d + 1 \in 0..MaxNesting /\ d + 1 # 0 /\ (d + 1) - 1 = d /\ (d + 1) + k > MaxNesting  BY <1>5, <2>1, NestingAssumption
  <2>3. Layers(n)[d + 1] = LayerAt(n, Layers(n), d + 1)  BY <2>2, LayersDefined
  <2>4. p \in Layers(n)[d + 1]  BY <2>2, <2>3 DEF LayerAt
  <2> QED  BY <2>2, <2>4 DEF Lowest
<1>6. ASSUME NEW k \in Nat, NEW m \in Lowest(n, k + 1) PROVE PartsOf(m) \subseteq Lowest(n, k)
  <2>1. PICK d \in 0..MaxNesting : d + (k + 1) > MaxNesting /\ m \in Layers(n)[d]  BY DEF Lowest
  <2> QED  BY <2>1, <1>5
<1> QED  BY <1>1, <1>3, <1>4, <1>6

\* What a node has whenever its parts have it, every subtree has.
LEMMA Upwards ==
  ASSUME NEW n, Parsed(n), NEW P,
         \A m \in Subtrees(n) : PartsOf(m) \subseteq P => m \in P
  PROVE  Subtrees(n) \subseteq P
<1> DEFINE T == {k \in Nat : Lowest(n, k) \subseteq P}
<1>1. 0 \in T  BY LowestLayers
<1>2. ASSUME NEW k \in Nat, k \in T PROVE k + 1 \in T
  <2>1. \A m \in Lowest(n, k + 1) : m \in Subtrees(n) /\ PartsOf(m) \subseteq P  BY <1>2, LowestLayers
  <2> QED  BY <2>1
<1>3. Nat \subseteq T
  <2> HIDE DEF T
  <2> QED  BY <1>1, <1>2, NatSet
<1>4. Lowest(n, MaxNesting + 1) \subseteq P  BY <1>3, NestingAssumption
<1> QED  BY <1>4, LowestLayers

\* The arguments of a node, and so its operands, are parts of it.
LEMMA ArgsAreParts ==
  ASSUME NEW m, WellShaped(m)
  PROVE  /\ m.args \in Seq(ToSet(m.args)) /\ m.hidden \in Seq(ToSet(m.hidden))
         /\ DOMAIN m.args = 1..Len(m.args) /\ Len(m.args) \in Nat /\ Len(m.hidden) \in Nat
         /\ DOMAIN EngineParts(m) = 1..(Len(m.args) + Len(m.hidden))
         /\ \A i \in DOMAIN m.args : EngineParts(m)[i] = m.args[i] /\ m.args[i] \in PartsOf(m) /\ i \in DOMAIN EngineParts(m)
         /\ m.hidden = <<>> => EngineParts(m) = m.args
<1> DEFINE S == ToSet(m.args) \cup ToSet(m.hidden)
<1>1. m.args \in Seq(ToSet(m.args)) /\ m.hidden \in Seq(ToSet(m.hidden))  BY DEF WellShaped
<1>2. m.args \in Seq(S) /\ m.hidden \in Seq(S)  BY <1>1
<1> HIDE DEF S
<1> DEFINE a == m.args
           b == m.hidden
           all == a \o b
<1>3. a \in Seq(S) /\ b \in Seq(S)  BY <1>2
<1> HIDE DEF a, b
<1>4. /\ DOMAIN all = 1..(Len(a) + Len(b)) /\ DOMAIN a = 1..Len(a)
      /\ Len(a) \in Nat /\ Len(b) \in Nat
      /\ \A i \in DOMAIN a : all[i] = a[i] /\ i \in DOMAIN all
      /\ b = <<>> => all = a
  BY <1>3, Concatenated
<1>5. /\ DOMAIN all = 1..(Len(m.args) + Len(m.hidden)) /\ DOMAIN m.args = 1..Len(m.args)
      /\ Len(m.args) \in Nat /\ Len(m.hidden) \in Nat
      /\ \A i \in DOMAIN m.args : all[i] = m.args[i] /\ i \in DOMAIN all
      /\ m.hidden = <<>> => all = m.args
  <2> HIDE DEF all
  <2> QED  BY <1>4 DEF a, b
<1>6. EngineParts(m) = all  BY DEF EngineParts, a, b
<1> HIDE DEF all
<1>7. /\ DOMAIN EngineParts(m) = 1..(Len(m.args) + Len(m.hidden)) /\ DOMAIN m.args = 1..Len(m.args)
      /\ Len(m.args) \in Nat /\ Len(m.hidden) \in Nat
      /\ \A i \in DOMAIN m.args : EngineParts(m)[i] = m.args[i] /\ i \in DOMAIN EngineParts(m)
      /\ m.hidden = <<>> => EngineParts(m) = m.args
  BY <1>5, <1>6
<1> QED  BY <1>1, <1>7 DEF PartsOf

\* The operands the grammar walks are among the arguments.
LEMMA OperandsAreArgs ==
  ASSUME NEW m, WellShaped(m)
  PROVE  DOMAIN Operands(m) \subseteq DOMAIN m.args
<1>1. CASE m.kind = "Cast"  BY <1>1 DEF Operands
<1>2. CASE m.kind = "Is"
  <2>1. Len(m.args) = 2 /\ DOMAIN m.args = 1..2  BY <1>2, ArgsAreParts DEF WellShaped
  <2> QED  BY <1>2, <2>1 DEF Operands
<1>3. CASE m.kind \notin {"Cast", "Is"}  BY <1>3 DEF Operands
<1> QED  BY <1>1, <1>2, <1>3

\* The walk at a node, from those at its operands.
WalkAt(schema, w, m, p) ==
  Walked(m, HANDLERS_BY_POSITION(m, schema, p), [i \in DOMAIN Operands(m) |-> w[<<m.args[i], PositionBelow(m, p)>>]])

\* The walk over a tree is what its definition says.
LEMMA WalksDefined ==
  ASSUME NEW n, Parsed(n), NEW schema
  PROVE  \A m \in Subtrees(n) : \A p \in Positions : Walks(n, schema)[<<m, p>>] = WalkAt(schema, Walks(n, schema), m, p)
<1> DEFINE Unfold(f) == [x \in Subtrees(n) \X Positions |-> WalkAt(schema, f, x[1], x[2])]
           Fits(f, k) == \A m \in Lowest(n, k) : \A p \in Positions : f[<<m, p>>] = WalkAt(schema, f, m, p)
           T == {k \in Nat : \E f : Fits(f, k)}
<1>1. 0 \in T  BY LowestLayers
<1>2. ASSUME NEW k \in Nat, k \in T PROVE k + 1 \in T
  <2>1. PICK f : Fits(f, k)  BY <1>2
  <2> DEFINE g == [x \in Subtrees(n) \X Positions |-> IF x[1] \in Lowest(n, k) THEN f[x] ELSE WalkAt(schema, f, x[1], x[2])]
  <2>2. ASSUME NEW m \in Subtrees(n), NEW p \in Positions PROVE g[<<m, p>>] = WalkAt(schema, f, m, p)
    <3>1. CASE m \in Lowest(n, k)  BY <2>1, <3>1
    <3>2. CASE m \notin Lowest(n, k)  BY <3>2
    <3> QED  BY <3>1, <3>2
  <2>3. \A m \in Lowest(n, k) : \A p \in Positions : g[<<m, p>>] = f[<<m, p>>]  BY LowestLayers
  <2>4. \A m \in Lowest(n, k + 1) : m \in Subtrees(n) /\ PartsOf(m) \subseteq Lowest(n, k)  BY LowestLayers
  <2> HIDE DEF g
  <2>5. ASSUME NEW m \in Lowest(n, k + 1), NEW p \in Positions PROVE WalkAt(schema, f, m, p) = WalkAt(schema, g, m, p)
    <3>1. PositionBelow(m, p) \in Positions  BY DEF PositionBelow, Positions
    <3>2. WellShaped(m)  BY <2>4 DEF Parsed
    <3>3. \A i \in DOMAIN Operands(m) : m.args[i] \in Lowest(n, k)  BY <2>4, <3>2, ArgsAreParts, OperandsAreArgs
    <3>4. \A i \in DOMAIN Operands(m) : f[<<m.args[i], PositionBelow(m, p)>>] = g[<<m.args[i], PositionBelow(m, p)>>]
      BY <2>3, <3>1, <3>3
    <3>5. [i \in DOMAIN Operands(m) |-> f[<<m.args[i], PositionBelow(m, p)>>]]
          = [i \in DOMAIN Operands(m) |-> g[<<m.args[i], PositionBelow(m, p)>>]]  BY <3>4
    <3> QED  BY <3>5 DEF WalkAt
  <2>6. Fits(g, k + 1)  BY <2>2, <2>4, <2>5
  <2> HIDE DEF Fits
  <2> QED  BY <2>6
<1>3. MaxNesting + 1 \in T
  <2> HIDE DEF T
  <2>1. Nat \subseteq T  BY <1>1, <1>2, NatSet
  <2> QED  BY <2>1, NestingAssumption
<1>4. PICK f : \A m \in Subtrees(n) : \A p \in Positions : f[<<m, p>>] = WalkAt(schema, f, m, p)  BY <1>3, LowestLayers
<1> DEFINE g == [x \in Subtrees(n) \X Positions |-> f[x]]
<1>5. \A m \in Subtrees(n) : \A p \in Positions : g[<<m, p>>] = f[<<m, p>>]  OBVIOUS
<1>6. g = Unfold(g)
  <2> HIDE DEF g
  <2>1. ASSUME NEW m \in Subtrees(n), NEW p \in Positions PROVE WalkAt(schema, f, m, p) = WalkAt(schema, g, m, p)
    <3>1. PositionBelow(m, p) \in Positions  BY DEF PositionBelow, Positions
    <3>2. WellShaped(m)  BY DEF Parsed
    <3>3. \A i \in DOMAIN Operands(m) : m.args[i] \in Subtrees(n)  BY <3>2, ArgsAreParts, OperandsAreArgs, SubtreesClosed
    <3>4. \A i \in DOMAIN Operands(m) : f[<<m.args[i], PositionBelow(m, p)>>] = g[<<m.args[i], PositionBelow(m, p)>>]
      BY <1>5, <3>1, <3>3
    <3>5. [i \in DOMAIN Operands(m) |-> f[<<m.args[i], PositionBelow(m, p)>>]]
          = [i \in DOMAIN Operands(m) |-> g[<<m.args[i], PositionBelow(m, p)>>]]  BY <3>4
    <3> QED  BY <3>5 DEF WalkAt
  <2>2. \A x \in Subtrees(n) \X Positions : f[x] = WalkAt(schema, g, x[1], x[2])
    <3> SUFFICES ASSUME NEW m \in Subtrees(n), NEW p \in Positions PROVE f[<<m, p>>] = WalkAt(schema, g, m, p)  OBVIOUS
    <3> QED  BY <1>4, <2>1
  <2>3. g = [x \in Subtrees(n) \X Positions |-> f[x]]  BY DEF g
  <2> QED  BY <2>2, <2>3
<1>7. Walks(n, schema) = CHOOSE walk : walk = Unfold(walk)  BY Zenon DEF Walks, WalkAt
<1> HIDE DEF Unfold, g
<1>8. Walks(n, schema) = Unfold(Walks(n, schema))  BY <1>6, <1>7, Zenon
<1> USE DEF Unfold
<1>9. ASSUME NEW m \in Subtrees(n), NEW p \in Positions
      PROVE  Walks(n, schema)[<<m, p>>] = WalkAt(schema, Walks(n, schema), m, p)
  <2>1. \A F : F = Unfold(F) => F[<<m, p>>] = WalkAt(schema, F, m, p)  OBVIOUS
  <2> HIDE DEF Unfold
  <2> QED  BY <1>8, <2>1
<1> QED  BY <1>9

\* The type of a node from those of its arguments.
TypeAt(schema, f, m) == EngineResult(m, [i \in DOMAIN m.args |-> f[m.args[i]]], schema)

\* So are the types of a tree.
LEMMA TypesDefined ==
  ASSUME NEW n, Parsed(n), NEW schema
  PROVE  \A m \in Subtrees(n) : EngineTypes(n, schema)[m] = TypeAt(schema, EngineTypes(n, schema), m)
<1> DEFINE Unfold(f) == [m \in Subtrees(n) |-> TypeAt(schema, f, m)]
           Fits(f, k) == \A m \in Lowest(n, k) : f[m] = TypeAt(schema, f, m)
           T == {k \in Nat : \E f : Fits(f, k)}
<1>1. 0 \in T  BY LowestLayers
<1>2. ASSUME NEW k \in Nat, k \in T PROVE k + 1 \in T
  <2>1. PICK f : Fits(f, k)  BY <1>2
  <2> DEFINE g == [m \in Subtrees(n) |-> IF m \in Lowest(n, k) THEN f[m] ELSE TypeAt(schema, f, m)]
  <2>2. \A m \in Subtrees(n) : g[m] = TypeAt(schema, f, m)  BY <2>1
  <2>3. \A m \in Lowest(n, k) : g[m] = f[m]  BY LowestLayers
  <2>4. \A m \in Lowest(n, k + 1) : m \in Subtrees(n) /\ PartsOf(m) \subseteq Lowest(n, k)  BY LowestLayers
  <2> HIDE DEF g
  <2>5. ASSUME NEW m \in Lowest(n, k + 1) PROVE TypeAt(schema, f, m) = TypeAt(schema, g, m)
    <3>1. WellShaped(m)  BY <2>4 DEF Parsed
    <3>2. \A i \in DOMAIN m.args : f[m.args[i]] = g[m.args[i]]  BY <2>3, <2>4, <3>1, ArgsAreParts
    <3>3. [i \in DOMAIN m.args |-> f[m.args[i]]] = [i \in DOMAIN m.args |-> g[m.args[i]]]  BY <3>2
    <3> QED  BY <3>3 DEF TypeAt
  <2>6. Fits(g, k + 1)  BY <2>2, <2>4, <2>5
  <2> HIDE DEF Fits
  <2> QED  BY <2>6
<1>3. MaxNesting + 1 \in T
  <2> HIDE DEF T
  <2>1. Nat \subseteq T  BY <1>1, <1>2, NatSet
  <2> QED  BY <2>1, NestingAssumption
<1>4. PICK f : \A m \in Subtrees(n) : f[m] = TypeAt(schema, f, m)  BY <1>3, LowestLayers
<1> DEFINE g == [m \in Subtrees(n) |-> f[m]]
<1>5. g = Unfold(g)
  <2>1. ASSUME NEW m \in Subtrees(n) PROVE f[m] = TypeAt(schema, g, m)
    <3>1. WellShaped(m)  BY DEF Parsed
    <3>2. \A i \in DOMAIN m.args : f[m.args[i]] = g[m.args[i]]  BY <3>1, ArgsAreParts, SubtreesClosed
    <3> HIDE DEF g
    <3>3. [i \in DOMAIN m.args |-> f[m.args[i]]] = [i \in DOMAIN m.args |-> g[m.args[i]]]  BY <3>2
    <3> QED  BY <1>4, <3>3 DEF TypeAt
  <2> QED  BY <2>1
<1>6. EngineTypes(n, schema) = CHOOSE type : type = Unfold(type)  BY Zenon DEF EngineTypes, TypeAt
<1> HIDE DEF Unfold, g
<1>7. EngineTypes(n, schema) = Unfold(EngineTypes(n, schema))  BY <1>5, <1>6, Zenon
<1>8. ASSUME NEW m \in Subtrees(n)
      PROVE  EngineTypes(n, schema)[m] = TypeAt(schema, EngineTypes(n, schema), m)
  <2>1. \A F : F = Unfold(F) => F[m] = TypeAt(schema, F, m)  BY DEF Unfold
  <2> QED  BY <1>7, <2>1
<1> QED  BY <1>8

\* The kinds of node whose signature the function table has, each with its one
\* entry.
FunctionKinds ==
  AggregateKinds
  \cup {"Abs", "Round", "Floor", "Ceil", "Greatest", "Least", "Length", "Trim", "Upper", "Lower", "Substring", "Concat", "Replace",
        "Coalesce", "Nullif", "Year", "Month", "Day", "DateDiff", "TsOrDsAdd"}
OperatorKinds ==
  Comparisons \cup ArithmeticOps
  \cup {"Column", "String", "Number", "Boolean", "Null", "Paren", "Cast", "And", "Or", "Not", "Is", "In", "Between",
        "Like", "Neg", "Case", "TsOrDsToDate"}

Family(e, i) == e.args[IF i <= Len(e.args) THEN i ELSE Len(e.args)]
Demanded(h, i) == IF i = 1 THEN h.first ELSE h.rest

\* What the grammar demands of a call is what the function table says of it.
Matches(h, e) ==
  /\ \A i \in Nat \ {0} : Family(e, i) # Poly => Family(e, i) \in Families /\ Demanded(h, i) = Family(e, i)
  /\ e.kind # "Count" /\ Family(e, 1) = Poly => h.first = "same" /\ h.rest = "same"
  /\ e.result = Poly => h.first = "same" /\ h.rest = "same" /\ h.result = "same"
  /\ e.result # Poly => e.result \in Families /\ h.result = e.result

\* Every one of these kinds is in the table of functions,
LEMMA KindsHaveEntries ==
  ASSUME NEW k \in FunctionKinds
  PROVE  \E e \in SCALAR_FUNCTIONS \cup AGGREGATE_FUNCTIONS : e.kind = k
<1>1. CASE k \in AggregateKinds
  <2>1. PICK e \in AGGREGATE_FUNCTIONS : e.kind = k  BY <1>1 DEF AggregateKinds, AGGREGATE_FUNCTIONS, FunctionEntry
  <2> QED  BY <2>1
<1>2. CASE k \notin AggregateKinds
  <2>1. PICK e \in SCALAR_FUNCTIONS : e.kind = k  BY <1>2 DEF FunctionKinds, SCALAR_FUNCTIONS, FunctionEntry
  <2> QED  BY <2>1
<1> QED  BY <1>1, <1>2

\* once,
LEMMA EntryOfKind ==
  ASSUME NEW m, NEW e \in SCALAR_FUNCTIONS \cup AGGREGATE_FUNCTIONS, m.kind = e.kind
  PROVE  EntryOf(m) = {e}
BY DEF EntryOf, SCALAR_FUNCTIONS, AGGREGATE_FUNCTIONS, FunctionEntry

\* and no operator is.
LEMMA NoEntry ==
  ASSUME NEW m, m.kind \in OperatorKinds
  PROVE  EntryOf(m) = {}
BY DEF EntryOf, SCALAR_FUNCTIONS, AGGREGATE_FUNCTIONS, FunctionEntry, OperatorKinds, Comparisons, ArithmeticOps

\* The handler of a call demands what the table of functions says of it.
LEMMA CallsMatch ==
  ASSUME NEW m, NEW schema, NEW p, NEW e \in SCALAR_FUNCTIONS \cup AGGREGATE_FUNCTIONS, m.kind = e.kind,
         HANDLERS_BY_POSITION(m, schema, p).ok
  PROVE  Matches(HANDLERS_BY_POSITION(m, schema, p), e)
<1> DEFINE h == HANDLERS_BY_POSITION(m, schema, p)
<1> SUFFICES Matches(h, e)  OBVIOUS
<1> HIDE DEF h
<1>1. CASE e.kind \in {"Abs", "Floor", "Ceil", "Sum", "Avg"}
  <2>1. e.args = <<"numeric">> /\ e.result = "numeric"
    BY <1>1 DEF SCALAR_FUNCTIONS, AGGREGATE_FUNCTIONS, FunctionEntry
  <2>2. h.first = "numeric" /\ h.rest = "numeric" /\ h.result = "numeric"
    BY <1>1 DEF h, HANDLERS_BY_POSITION, AggregateKinds, HANDLERS_SCALAR, HANDLERS_AGGREGATE_EXTRA, Refused, Handler, Comparisons, ArithmeticOps,
       fixed_family_unary, h_floor_ceil, aggregate_unary
  <2>3. \A i \in Nat \ {0} : Family(e, i) = "numeric"  BY <2>1 DEF Family
  <2> QED  BY <1>1, <2>1, <2>2, <2>3 DEF Matches, Demanded, Families, Poly
<1>2. CASE e.kind \in {"Length"}
  <2>1. e.args = <<"string">> /\ e.result = "numeric"
    BY <1>2 DEF SCALAR_FUNCTIONS, AGGREGATE_FUNCTIONS, FunctionEntry
  <2>2. h.first = "string" /\ h.rest = "string" /\ h.result = "numeric"
    BY <1>2 DEF h, HANDLERS_BY_POSITION, AggregateKinds, HANDLERS_SCALAR, HANDLERS_AGGREGATE_EXTRA, Refused, Handler, Comparisons, ArithmeticOps,
       h_length
  <2>3. \A i \in Nat \ {0} : Family(e, i) = "string"  BY <2>1 DEF Family
  <2> QED  BY <1>2, <2>1, <2>2, <2>3 DEF Matches, Demanded, Families, Poly
<1>3. CASE e.kind \in {"Trim", "Upper", "Lower", "Concat"}
  <2>1. e.args = <<"string">> /\ e.result = "string"
    BY <1>3 DEF SCALAR_FUNCTIONS, AGGREGATE_FUNCTIONS, FunctionEntry
  <2>2. h.first = "string" /\ h.rest = "string" /\ h.result = "string"
    BY <1>3 DEF h, HANDLERS_BY_POSITION, AggregateKinds, HANDLERS_SCALAR, HANDLERS_AGGREGATE_EXTRA, Refused, Handler, Comparisons, ArithmeticOps,
       fixed_family_unary, h_trim, h_fixed_family_variadic
  <2>3. \A i \in Nat \ {0} : Family(e, i) = "string"  BY <2>1 DEF Family
  <2> QED  BY <1>3, <2>1, <2>2, <2>3 DEF Matches, Demanded, Families, Poly
<1>4. CASE e.kind \in {"Year", "Month", "Day"}
  <2>1. e.args = <<"temporal">> /\ e.result = "numeric"
    BY <1>4 DEF SCALAR_FUNCTIONS, AGGREGATE_FUNCTIONS, FunctionEntry
  <2>2. h.first = "temporal" /\ h.rest = "temporal" /\ h.result = "numeric"
    BY <1>4 DEF h, HANDLERS_BY_POSITION, AggregateKinds, HANDLERS_SCALAR, HANDLERS_AGGREGATE_EXTRA, Refused, Handler, Comparisons, ArithmeticOps,
       fixed_family_unary
  <2>3. \A i \in Nat \ {0} : Family(e, i) = "temporal"  BY <2>1 DEF Family
  <2> QED  BY <1>4, <2>1, <2>2, <2>3 DEF Matches, Demanded, Families, Poly
<1>5. CASE e.kind \in {"Round"}
  <2>1. e.args = <<"numeric", "numeric">> /\ e.result = "numeric"
    BY <1>5 DEF SCALAR_FUNCTIONS, AGGREGATE_FUNCTIONS, FunctionEntry
  <2>2. h.first = "numeric" /\ h.rest = "numeric" /\ h.result = "numeric"
    BY <1>5 DEF h, HANDLERS_BY_POSITION, AggregateKinds, HANDLERS_SCALAR, HANDLERS_AGGREGATE_EXTRA, Refused, Handler, Comparisons, ArithmeticOps,
       h_round
  <2>3. \A i \in Nat \ {0} : Family(e, i) = "numeric"  BY <2>1 DEF Family
  <2> QED  BY <1>5, <2>1, <2>2, <2>3 DEF Matches, Demanded, Families, Poly
<1>6. CASE e.kind \in {"Substring"}
  <2>1. e.args = <<"string", "numeric", "numeric">> /\ e.result = "string"
    BY <1>6 DEF SCALAR_FUNCTIONS, AGGREGATE_FUNCTIONS, FunctionEntry
  <2>2. h.first = "string" /\ h.rest = "numeric" /\ h.result = "string"
    BY <1>6 DEF h, HANDLERS_BY_POSITION, AggregateKinds, HANDLERS_SCALAR, HANDLERS_AGGREGATE_EXTRA, Refused, Handler, Comparisons, ArithmeticOps,
       h_substring
  <2>3. Family(e, 1) = "string" /\ \A i \in Nat \ {0} : i # 1 => Family(e, i) = "numeric"  BY <2>1 DEF Family
  <2> QED  BY <1>6, <2>1, <2>2, <2>3 DEF Matches, Demanded, Families, Poly
<1>7. CASE e.kind \in {"Replace"}
  <2>1. e.args = <<"string", "string", "string">> /\ e.result = "string"
    BY <1>7 DEF SCALAR_FUNCTIONS, AGGREGATE_FUNCTIONS, FunctionEntry
  <2>2. h.first = "string" /\ h.rest = "string" /\ h.result = "string"
    BY <1>7 DEF h, HANDLERS_BY_POSITION, AggregateKinds, HANDLERS_SCALAR, HANDLERS_AGGREGATE_EXTRA, Refused, Handler, Comparisons, ArithmeticOps,
       h_replace
  <2>3. \A i \in Nat \ {0} : Family(e, i) = "string"  BY <2>1 DEF Family
  <2> QED  BY <1>7, <2>1, <2>2, <2>3 DEF Matches, Demanded, Families, Poly
<1>8. CASE e.kind \in {"DateDiff"}
  <2>1. e.args = <<"temporal", "temporal">> /\ e.result = "numeric"
    BY <1>8 DEF SCALAR_FUNCTIONS, AGGREGATE_FUNCTIONS, FunctionEntry
  <2>2. h.first = "temporal" /\ h.rest = "temporal" /\ h.result = "numeric"
    BY <1>8 DEF h, HANDLERS_BY_POSITION, AggregateKinds, HANDLERS_SCALAR, HANDLERS_AGGREGATE_EXTRA, Refused, Handler, Comparisons, ArithmeticOps,
       h_datediff
  <2>3. \A i \in Nat \ {0} : Family(e, i) = "temporal"  BY <2>1 DEF Family
  <2> QED  BY <1>8, <2>1, <2>2, <2>3 DEF Matches, Demanded, Families, Poly
<1>9. CASE e.kind \in {"TsOrDsAdd"}
  <2>1. e.args = <<"temporal", "numeric">> /\ e.result = "temporal"
    BY <1>9 DEF SCALAR_FUNCTIONS, AGGREGATE_FUNCTIONS, FunctionEntry
  <2>2. h.first = "temporal" /\ h.rest = "numeric" /\ h.result = "temporal"
    BY <1>9 DEF h, HANDLERS_BY_POSITION, AggregateKinds, HANDLERS_SCALAR, HANDLERS_AGGREGATE_EXTRA, Refused, Handler, Comparisons, ArithmeticOps,
       h_ts_or_ds_add
  <2>3. Family(e, 1) = "temporal" /\ \A i \in Nat \ {0} : i # 1 => Family(e, i) = "numeric"  BY <2>1 DEF Family
  <2> QED  BY <1>9, <2>1, <2>2, <2>3 DEF Matches, Demanded, Families, Poly
<1>10. CASE e.kind \in {"Greatest", "Least", "Coalesce", "Min", "Max"}
  <2>1. e.args = <<Poly>> /\ e.result = Poly
    BY <1>10 DEF SCALAR_FUNCTIONS, AGGREGATE_FUNCTIONS, FunctionEntry
  <2>2. h.first = "same" /\ h.rest = "same" /\ h.result = "same"
    BY <1>10 DEF h, HANDLERS_BY_POSITION, AggregateKinds, HANDLERS_SCALAR, HANDLERS_AGGREGATE_EXTRA, Refused, Handler, Comparisons, ArithmeticOps,
       h_homogeneous_variadic, aggregate_unary
  <2>3. \A i \in Nat \ {0} : Family(e, i) = Poly  BY <2>1 DEF Family
  <2> QED  BY <1>10, <2>1, <2>2, <2>3 DEF Matches, Demanded, Families, Poly
<1>11. CASE e.kind \in {"Nullif"}
  <2>1. e.args = <<Poly, Poly>> /\ e.result = Poly
    BY <1>11 DEF SCALAR_FUNCTIONS, AGGREGATE_FUNCTIONS, FunctionEntry
  <2>2. h.first = "same" /\ h.rest = "same" /\ h.result = "same"
    BY <1>11 DEF h, HANDLERS_BY_POSITION, AggregateKinds, HANDLERS_SCALAR, HANDLERS_AGGREGATE_EXTRA, Refused, Handler, Comparisons, ArithmeticOps,
       h_nullif
  <2>3. \A i \in Nat \ {0} : Family(e, i) = Poly  BY <2>1 DEF Family
  <2> QED  BY <1>11, <2>1, <2>2, <2>3 DEF Matches, Demanded, Families, Poly
<1>12. CASE e.kind \in {"Count"}
  <2>1. e.args = <<Poly>> /\ e.result = "numeric"
    BY <1>12 DEF SCALAR_FUNCTIONS, AGGREGATE_FUNCTIONS, FunctionEntry
  <2>2. h.first = "any" /\ h.rest = "any" /\ h.result = "numeric"
    BY <1>12 DEF h, HANDLERS_BY_POSITION, AggregateKinds, HANDLERS_SCALAR, HANDLERS_AGGREGATE_EXTRA, Refused, Handler, Comparisons, ArithmeticOps,
       h_count
  <2>3. \A i \in Nat \ {0} : Family(e, i) = Poly  BY <2>1 DEF Family
  <2> QED  BY <1>12, <2>1, <2>2, <2>3 DEF Matches, Demanded, Families, Poly
<1>13. e.kind \in {"Abs", "Floor", "Ceil", "Sum", "Avg", "Length", "Trim", "Upper", "Lower", "Concat", "Year", "Month", "Day", "Round", "Substring", "Replace", "DateDiff", "TsOrDsAdd", "Greatest", "Least", "Coalesce", "Min", "Max", "Nullif", "Count"}
  BY DEF SCALAR_FUNCTIONS, AGGREGATE_FUNCTIONS, FunctionEntry
<1> QED  BY <1>1, <1>2, <1>3, <1>4, <1>5, <1>6, <1>7, <1>8, <1>9, <1>10, <1>11, <1>12, <1>13

\* What the grammar demands of an operator.
Asks(h, first, rest, result) == h.first = first /\ h.rest = rest /\ h.result = result

\* The handler of an operator, one case per row of the handler tables.
LEMMA OperatorsDemand ==
  ASSUME NEW m, NEW schema, NEW p, NEW h, h = HANDLERS_BY_POSITION(m, schema, p), h.ok, m.kind \in OperatorKinds
  PROVE  /\ m.kind = "Column" => Asks(h, "any", "any", IF m.name \in DOMAIN schema THEN schema[m.name] ELSE Poly)
         /\ m.kind = "String" => Asks(h, "any", "any", "string")
         /\ m.kind = "Number" => Asks(h, "any", "any", "numeric")
         /\ m.kind = "Boolean" => Asks(h, "any", "any", "boolean")
         /\ m.kind = "Null" => Asks(h, "any", "any", Poly)
         /\ m.kind = "Paren" => Asks(h, "same", "same", "same")
         /\ m.kind = "Cast" => Asks(h, "any", "any", "temporal") /\ m.args[1].kind = "String" /\ m.name = "temporal"
         /\ m.kind = "Is" => Asks(h, "any", "any", "boolean") /\ m.args[2].kind = "Null"
         /\ m.kind \in Comparisons \cup {"In", "Between"} => Asks(h, "same", "same", "boolean")
         /\ m.kind \in {"And", "Or", "Not"} => Asks(h, "boolean", "boolean", "boolean")
         /\ m.kind \in ArithmeticOps \cup {"Neg"} => Asks(h, "numeric", "numeric", "numeric")
         /\ m.kind = "Like" => Asks(h, "string", "string", "boolean")
         /\ m.kind = "TsOrDsToDate" => Asks(h, "temporal", "temporal", "temporal")
         /\ m.kind = "Case" => Asks(h, "boolean", "same", "same")
<1>1. m.kind \notin AggregateKinds /\ h = HANDLERS_SCALAR(m, schema)
  BY DEF OperatorKinds, Comparisons, ArithmeticOps, AggregateKinds, HANDLERS_BY_POSITION
<1>2. CASE m.kind = "Column"
  <2>1. h = h_column(m, schema)  BY <1>1, <1>2 DEF HANDLERS_SCALAR, Comparisons, ArithmeticOps
  <2>2. Asks(h, "any", "any", IF m.name \in DOMAIN schema THEN schema[m.name] ELSE Poly)  BY <1>2, <2>1 DEF Asks, Handler, h_column
  <2> QED  BY <1>2, <2>2 DEF Comparisons, ArithmeticOps
<1>3. CASE m.kind \in {"String", "Number"}
  <2>1. h = h_literal(m)  BY <1>1, <1>3 DEF HANDLERS_SCALAR, Comparisons, ArithmeticOps
  <2>2. Asks(h, "any", "any", IF m.kind = "String" THEN "string" ELSE "numeric")  BY <1>3, <2>1 DEF Asks, Handler, h_literal
  <2> QED  BY <1>3, <2>2 DEF Comparisons, ArithmeticOps
<1>4. CASE m.kind = "Boolean"
  <2>1. h = h_boolean  BY <1>1, <1>4 DEF HANDLERS_SCALAR, Comparisons, ArithmeticOps
  <2>2. Asks(h, "any", "any", "boolean")  BY <1>4, <2>1 DEF Asks, Handler, h_boolean
  <2> QED  BY <1>4, <2>2 DEF Comparisons, ArithmeticOps
<1>5. CASE m.kind = "Null"
  <2>1. h = h_null  BY <1>1, <1>5 DEF HANDLERS_SCALAR, Comparisons, ArithmeticOps
  <2>2. Asks(h, "any", "any", Poly)  BY <1>5, <2>1 DEF Asks, Handler, h_null
  <2> QED  BY <1>5, <2>2 DEF Comparisons, ArithmeticOps
<1>6. CASE m.kind = "Paren"
  <2>1. h = h_paren  BY <1>1, <1>6 DEF HANDLERS_SCALAR, Comparisons, ArithmeticOps
  <2>2. Asks(h, "same", "same", "same")  BY <1>6, <2>1 DEF Asks, Handler, h_paren
  <2> QED  BY <1>6, <2>2 DEF Comparisons, ArithmeticOps
<1>7. CASE m.kind = "Cast"
  <2>1. h = h_cast(m)  BY <1>1, <1>7 DEF HANDLERS_SCALAR, Comparisons, ArithmeticOps
  <2>2. is_typed_literal_cast(m)  BY <2>1 DEF Handler, h_cast
  <2>3. m.args[1].kind = "String" /\ m.name = "temporal"  BY <2>2 DEF is_typed_literal_cast
  <2>4. Asks(h, "any", "any", "temporal")  BY <2>1 DEF Asks, Handler, h_cast
  <2> QED  BY <1>7, <2>3, <2>4 DEF Comparisons, ArithmeticOps
<1>8. CASE m.kind \in Comparisons
  <2>1. h = same_family_binary("boolean")  BY <1>1, <1>8 DEF HANDLERS_SCALAR, Comparisons, ArithmeticOps
  <2>2. Asks(h, "same", "same", "boolean")  BY <1>8, <2>1 DEF Asks, Handler, same_family_binary
  <2> QED  BY <1>8, <2>2 DEF Comparisons, ArithmeticOps
<1>9. CASE m.kind \in {"And", "Or"}
  <2>1. h = fixed_family_binary("boolean", "boolean")  BY <1>1, <1>9 DEF HANDLERS_SCALAR, Comparisons, ArithmeticOps
  <2>2. Asks(h, "boolean", "boolean", "boolean")  BY <1>9, <2>1 DEF Asks, Handler, fixed_family_binary
  <2> QED  BY <1>9, <2>2 DEF Comparisons, ArithmeticOps
<1>10. CASE m.kind = "Not"
  <2>1. h = fixed_family_unary("boolean", "boolean")  BY <1>1, <1>10 DEF HANDLERS_SCALAR, Comparisons, ArithmeticOps
  <2>2. Asks(h, "boolean", "boolean", "boolean")  BY <1>10, <2>1 DEF Asks, Handler, fixed_family_unary
  <2> QED  BY <1>10, <2>2 DEF Comparisons, ArithmeticOps
<1>11. CASE m.kind = "Is"
  <2>1. h = h_is(m)  BY <1>1, <1>11 DEF HANDLERS_SCALAR, Comparisons, ArithmeticOps
  <2> DEFINE admitted == Plain(m) /\ m.args[2].kind = "Null"
  <2>a. h = Handler(admitted, "any", "any", "boolean")  BY <2>1 DEF h_is
  <2>2. admitted
    <3> HIDE DEF admitted
    <3> QED  BY <2>a DEF Handler
  <2>3. Asks(h, "any", "any", "boolean")  BY <2>1 DEF Asks, Handler, h_is
  <2> QED  BY <1>11, <2>2, <2>3 DEF Comparisons, ArithmeticOps
<1>12. CASE m.kind = "In"
  <2>1. h = h_in(m)  BY <1>1, <1>12 DEF HANDLERS_SCALAR, Comparisons, ArithmeticOps
  <2>2. Asks(h, "same", "same", "boolean")  BY <1>12, <2>1 DEF Asks, Handler, h_in
  <2> QED  BY <1>12, <2>2 DEF Comparisons, ArithmeticOps
<1>13. CASE m.kind = "Between"
  <2>1. h = h_between  BY <1>1, <1>13 DEF HANDLERS_SCALAR, Comparisons, ArithmeticOps
  <2>2. Asks(h, "same", "same", "boolean")  BY <1>13, <2>1 DEF Asks, Handler, h_between
  <2> QED  BY <1>13, <2>2 DEF Comparisons, ArithmeticOps
<1>14. CASE m.kind = "Like"
  <2>1. h = h_like(m)  BY <1>1, <1>14 DEF HANDLERS_SCALAR, Comparisons, ArithmeticOps
  <2>2. Asks(h, "string", "string", "boolean")  BY <1>14, <2>1 DEF Asks, Handler, h_like
  <2> QED  BY <1>14, <2>2 DEF Comparisons, ArithmeticOps
<1>15. CASE m.kind \in ArithmeticOps
  <2>1. h = fixed_family_binary("numeric", "numeric")  BY <1>1, <1>15 DEF HANDLERS_SCALAR, Comparisons, ArithmeticOps
  <2>2. Asks(h, "numeric", "numeric", "numeric")  BY <1>15, <2>1 DEF Asks, Handler, fixed_family_binary
  <2> QED  BY <1>15, <2>2 DEF Comparisons, ArithmeticOps
<1>16. CASE m.kind = "Neg"
  <2>1. h = fixed_family_unary("numeric", "numeric")  BY <1>1, <1>16 DEF HANDLERS_SCALAR, Comparisons, ArithmeticOps
  <2>2. Asks(h, "numeric", "numeric", "numeric")  BY <1>16, <2>1 DEF Asks, Handler, fixed_family_unary
  <2> QED  BY <1>16, <2>2 DEF Comparisons, ArithmeticOps
<1>17. CASE m.kind = "Case"
  <2>1. h = h_case  BY <1>1, <1>17 DEF HANDLERS_SCALAR, Comparisons, ArithmeticOps
  <2>2. Asks(h, "boolean", "same", "same")  BY <1>17, <2>1 DEF Asks, Handler, h_case
  <2> QED  BY <1>17, <2>2 DEF Comparisons, ArithmeticOps
<1>18. CASE m.kind = "TsOrDsToDate"
  <2>1. h = h_ts_or_ds_to_date  BY <1>1, <1>18 DEF HANDLERS_SCALAR, Comparisons, ArithmeticOps
  <2>2. Asks(h, "temporal", "temporal", "temporal")  BY <1>18, <2>1 DEF Asks, Handler, h_ts_or_ds_to_date
  <2> QED  BY <1>18, <2>2 DEF Comparisons, ArithmeticOps
<1> QED  BY <1>2, <1>3, <1>4, <1>5, <1>6, <1>7, <1>8, <1>9, <1>10, <1>11, <1>12, <1>13, <1>14, <1>15, <1>16, <1>17, <1>18 DEF OperatorKinds

\* A node that the grammar admits is one of its kinds, and only a CASE hides a
\* part from it.
LEMMA AdmittedKinds ==
  ASSUME NEW m, WellShaped(m), NEW schema, NEW p, HANDLERS_BY_POSITION(m, schema, p).ok
  PROVE  /\ m.kind \in OperatorKinds \cup FunctionKinds
         /\ m.kind # "Case" => m.hidden = <<>>
<1>1. m.kind \in OperatorKinds \cup FunctionKinds
  BY DEF HANDLERS_BY_POSITION, HANDLERS_SCALAR, Refused, Handler, OperatorKinds, FunctionKinds, AggregateKinds, Comparisons,
     ArithmeticOps, h_literal
<1>2. CASE m.kind \in BareKinds  BY <1>1, <1>2 DEF WellShaped
<1>3. CASE m.kind \notin BareKinds \cup {"Case"}
  <2>1. m.kind \in {"Column", "Is", "In", "Like", "Round", "Floor", "Ceil", "Length", "Trim", "Substring", "DateDiff", "TsOrDsAdd",
                    "Sum", "Count", "Avg", "Min", "Max"}
    BY <1>1, <1>3 DEF BareKinds, LiteralKinds, OperatorKinds, FunctionKinds, AggregateKinds, Comparisons, ArithmeticOps
  <2>2. Plain(m)
    BY <2>1 DEF HANDLERS_BY_POSITION, HANDLERS_SCALAR, HANDLERS_AGGREGATE_EXTRA, Refused, Handler, AggregateKinds, Comparisons,
       ArithmeticOps, h_column, h_is, h_in, h_like, h_round, h_floor_ceil, h_length, h_trim, h_substring, h_datediff, h_ts_or_ds_add,
       aggregate_unary, h_count
  <2> QED  BY <1>1, <2>2 DEF Plain
<1>4. m.kind # "Case" => m.hidden = <<>>  BY <1>2, <1>3
<1> QED  BY <1>1, <1>4

\* The families of types and of literals; a schema gives its columns such.
Fams == Families \cup {Poly}
SchemaTyped(schema) == \A c \in DOMAIN schema : schema[c] \in Fams

\* The shared family of families is a family.
LEMMA UnifiedIsFamily ==
  ASSUME NEW S, S \subseteq Fams
  PROVE  Unified(S) \in Fams /\ \A t : S = {t} => Unified(S) = t
<1>1. CASE S \subseteq {Poly}  BY <1>1 DEF Unified, Fams
<1>2. CASE ~(S \subseteq {Poly})
  <2>1. \E f \in S : f # Poly  BY <1>2
  <2>2. Unified(S) = CHOOSE f \in S : f # Poly  BY <1>2 DEF Unified
  <2>3. Unified(S) \in S  BY <2>1, <2>2
  <2> QED  BY <2>3
<1> QED  BY <1>1, <1>2

\* The operands that are to share a family.
Peers(m, h, types) == {types[i] : i \in {j \in DOMAIN types : Wanted(m, h, j) = "same"}}

\* What the walk establishes at a node of these operand types.
WalkSays(m, h, types, w) ==
  /\ h.ok
  /\ \A i \in DOMAIN types : Wanted(m, h, i) \in Families => types[i] \in {Poly, Wanted(m, h, i)}
  /\ unify(Peers(m, h, types)) /\ Peers(m, h, types) \subseteq Fams
  /\ w.family = (IF h.result = "same" THEN Unified(Peers(m, h, types)) ELSE h.result)

\* What the walk says of an operator's or a call's operands that it walks.
LEMMA WalkedOperands ==
  ASSUME NEW m, NEW h, NEW kids, NEW types, DOMAIN types = DOMAIN kids, Walked(m, h, kids).ok,
         \A i \in DOMAIN kids : types[i] = kids[i].family /\ types[i] \in Fams
  PROVE  WalkSays(m, h, types, Walked(m, h, kids))
<1> DEFINE P == Peers(m, h, types)
           K == {kids[i].family : i \in {j \in DOMAIN kids : Wanted(m, h, j) = "same"}}
<1>1. P = K  BY DEF Peers
<1>2. P \subseteq Fams  BY DEF Peers
<1> DEFINE ok == /\ h.ok
                 /\ \A i \in DOMAIN kids :
                        /\ kids[i].ok
                        /\ Wanted(m, h, i) \in Families => kids[i].family \in {Poly, Wanted(m, h, i)}
                 /\ unify(K)
<1>3. Walked(m, h, kids) = [ok |-> ok, family |-> IF h.result = "same" THEN Unified(K) ELSE h.result,
                            columns |-> union_columns(m, kids)]  BY DEF Walked
<1>4. ok
  <2> HIDE DEF ok, K
  <2> QED  BY <1>3
<1>5. Walked(m, h, kids).family = IF h.result = "same" THEN Unified(P) ELSE h.result
  <2> HIDE DEF ok, K, P
  <2> QED  BY <1>1, <1>3
<1>6. unify(P)
  <2> HIDE DEF P, K
  <2> QED  BY <1>1, <1>4
<1>7. \A i \in DOMAIN types : Wanted(m, h, i) \in Families => types[i] \in {Poly, Wanted(m, h, i)}
  <2> HIDE DEF K
  <2> QED  BY <1>4
<1> QED  BY <1>2, <1>4, <1>5, <1>6, <1>7 DEF WalkSays

\* A call: the engine's signature admits what the walk admitted, and they give
\* it one type.
LEMMA CallTyped ==
  ASSUME NEW m, WellShaped(m), NEW schema, NEW p, NEW h, h = HANDLERS_BY_POSITION(m, schema, p), m.kind \in FunctionKinds,
         NEW kids, NEW types, DOMAIN types = DOMAIN kids, types \in [DOMAIN m.args -> Fams], Walked(m, h, kids).ok,
         \A i \in DOMAIN kids : types[i] = kids[i].family
  PROVE  /\ EngineResult(m, types, schema) = Walked(m, h, kids).family
         /\ Walked(m, h, kids).family \in Fams
         /\ EngineAgrees(m, types)
<1> DEFINE P == Peers(m, h, types)
           All == Everyone(types)
<1>0. \A i \in DOMAIN kids : types[i] = kids[i].family /\ types[i] \in Fams  OBVIOUS
<1>1. /\ h.ok
      /\ \A i \in DOMAIN types : Wanted(m, h, i) \in Families => types[i] \in {Poly, Wanted(m, h, i)}
      /\ unify(P)
      /\ Walked(m, h, kids).family = (IF h.result = "same" THEN Unified(P) ELSE h.result)
      /\ P \subseteq Fams
  <2>1. WalkSays(m, h, types, Walked(m, h, kids))  BY <1>0, WalkedOperands
  <2> QED  BY <2>1 DEF WalkSays
<1>2. PICK e \in SCALAR_FUNCTIONS \cup AGGREGATE_FUNCTIONS : e.kind = m.kind  BY KindsHaveEntries
<1>3. EntryOf(m) = {e} /\ Matches(h, e)  BY <1>1, <1>2, EntryOfKind, CallsMatch
<1>4. (CHOOSE x \in EntryOf(m) : TRUE) = e  BY <1>3
<1>5. m.kind \notin Comparisons \cup ArithmeticOps
                    \cup {"Column", "String", "Number", "Float", "Null", "Cast", "And", "Or", "Not", "In", "Between", "Like", "Neg",
                          "Case", "TsOrDsToDate", "Paren"}
  BY DEF FunctionKinds, AggregateKinds, Comparisons, ArithmeticOps
<1>a. \A i \in DOMAIN types : i \in Nat \ {0}
  <2>1. DOMAIN types = DOMAIN m.args  OBVIOUS
  <2>2. DOMAIN m.args = 1..Len(m.args) /\ Len(m.args) \in Nat  BY ArgsAreParts
  <2> QED  BY <2>1, <2>2
<1>6. \A i \in DOMAIN types : Wanted(m, h, i) = Demanded(h, i) /\ i \in Nat \ {0}
  BY <1>5, <1>a DEF Wanted, Demanded
<1>7. h.first = "same" /\ h.rest = "same" => P = All  BY <1>6 DEF Demanded, Peers, Everyone, Among
<1>8. EngineResult(m, types, schema) = IF e.result = Poly THEN Unified(All) ELSE e.result
  <2>1. EntryOf(m) # {}  BY <1>3
  <2>2. EngineResult(m, types, schema) = ResultOf(CHOOSE x \in EntryOf(m) : TRUE, types)  BY <1>5, <2>1 DEF EngineResult
  <2> QED  BY <1>4, <2>2 DEF ResultOf
<1>9. e.result = Poly => h.first = "same" /\ h.rest = "same" /\ h.result = "same"  BY <1>3 DEF Matches
<1>10. e.result # Poly => e.result \in Families /\ h.result = e.result  BY <1>3 DEF Matches
<1>11. Walked(m, h, kids).family = EngineResult(m, types, schema)
  <2> HIDE DEF P, All
  <2>1. \A f \in Families : f # "same"  BY DEF Families
  <2> QED  BY <1>1, <1>7, <1>8, <1>9, <1>10, <2>1
<1>12. EngineResult(m, types, schema) \in Fams
  <2>1. All \subseteq Fams  BY DEF Everyone, Among
  <2> HIDE DEF All
  <2> QED  BY <1>8, <1>10, <2>1, UnifiedIsFamily DEF Fams
<1>13. Admits(e, Len(types))
  <2>1. types \in [1..Len(m.args) -> Fams] /\ Len(m.args) \in Nat  BY ArgsAreParts
  <2>2. Len(types) = Len(m.args)  BY <2>1
  <2> QED  BY <1>3, <2>2 DEF WellShaped
<1>14. \A i \in DOMAIN types : Family(e, i) = Poly \/ types[i] \in {Poly, Family(e, i)}
  BY <1>1, <1>3, <1>6 DEF Matches
<1>15. m.kind # "Count" /\ Family(e, 1) = Poly => unify(All)
  <2>1. m.kind # "Count" /\ Family(e, 1) = Poly => h.first = "same" /\ h.rest = "same"  BY <1>2, <1>3 DEF Matches
  <2> HIDE DEF P, All
  <2> QED  BY <1>1, <1>7, <2>1
<1>16. EngineAgrees(m, types)
  <2>1. TableAgrees(e, types)  BY <1>2, <1>13, <1>14, <1>15 DEF TableAgrees, Family
  <2>2. EntryOf(m) # {}  BY <1>3
  <2> QED  BY <1>4, <1>5, <2>1, <2>2 DEF EngineAgrees
<1> QED  BY <1>11, <1>12, <1>16

\* An operator: the engine agrees with the walk on its operands and its type.
LEMMA OperatorTyped ==
  ASSUME NEW m, WellShaped(m), NEW schema, SchemaTyped(schema), NEW p, NEW h,
         h = HANDLERS_BY_POSITION(m, schema, p), m.kind \in OperatorKinds \ {"Cast", "Is"},
         NEW kids, NEW types, DOMAIN types = DOMAIN kids, types \in [DOMAIN m.args -> Fams], Walked(m, h, kids).ok,
         \A i \in DOMAIN kids : types[i] = kids[i].family
  PROVE  /\ EngineResult(m, types, schema) = Walked(m, h, kids).family
         /\ Walked(m, h, kids).family \in Fams
         /\ m.hidden = <<>> => EngineAgrees(m, types)
<1> DEFINE w == Walked(m, h, kids)
           P == Peers(m, h, types)
           All == Everyone(types)
<1>1. WalkSays(m, h, types, w)
  <2>1. \A i \in DOMAIN kids : types[i] = kids[i].family /\ types[i] \in Fams  OBVIOUS
  <2> QED  BY <2>1, WalkedOperands
<1> HIDE DEF w
<1>2. /\ h.ok
      /\ \A i \in DOMAIN types : Wanted(m, h, i) \in Families => types[i] \in {Poly, Wanted(m, h, i)}
      /\ unify(P) /\ P \subseteq Fams
      /\ w.family = (IF h.result = "same" THEN Unified(P) ELSE h.result)
  BY <1>1 DEF WalkSays
<1>3. EntryOf(m) = {}  BY NoEntry
<1>4. DOMAIN types = 1..Len(m.args) /\ Len(m.args) \in Nat
  <2>1. DOMAIN m.args = 1..Len(m.args) /\ Len(m.args) \in Nat  BY ArgsAreParts
  <2> QED  BY <2>1
<1>5. \A f \in Families : f \in Fams /\ f # "same"  BY DEF Families, Fams
<1>6. "string" \in Families /\ "numeric" \in Families /\ "temporal" \in Families /\ "boolean" \in Families  BY DEF Families
<1>7. CASE m.kind \in {"Column", "String", "Number", "Boolean", "Null"}
  <2>1. /\ m.kind = "Column" => Asks(h, "any", "any", IF m.name \in DOMAIN schema THEN schema[m.name] ELSE Poly)
        /\ m.kind = "String" => Asks(h, "any", "any", "string")
        /\ m.kind = "Number" => Asks(h, "any", "any", "numeric")
        /\ m.kind = "Boolean" => Asks(h, "any", "any", "boolean")
        /\ m.kind = "Null" => Asks(h, "any", "any", Poly)
    BY <1>2, OperatorsDemand
  <2>2. h.result = EngineResult(m, types, schema)
    BY <1>3, <1>7, <2>1 DEF EngineResult, Asks, Comparisons, ArithmeticOps
  <2>3. h.result \in Fams /\ h.result # "same"
    BY <1>5, <1>6, <1>7, <2>1 DEF Asks, Fams, Poly, SchemaTyped
  <2>4. EngineAgrees(m, types)  BY <1>3, <1>7 DEF EngineAgrees, Comparisons, ArithmeticOps
  <2> QED  BY <1>2, <2>2, <2>3, <2>4 DEF w
<1>8. CASE m.kind \in Comparisons \cup {"In", "Between"}
  <2>1. Asks(h, "same", "same", "boolean")  BY <1>2, <1>8, OperatorsDemand
  <2>2. P = All  BY <1>8, <2>1 DEF Peers, Everyone, Among, Wanted, Asks, Comparisons
  <2>3. EngineResult(m, types, schema) = "boolean"
    BY <1>3, <1>8 DEF EngineResult, Comparisons, ArithmeticOps
  <2>4. EngineAgrees(m, types)
    <3>1. unify(All)
      <4> HIDE DEF P, All
      <4> QED  BY <1>2, <2>2
    <3> QED  BY <1>3, <1>8, <3>1 DEF EngineAgrees, Comparisons, ArithmeticOps
  <2> QED  BY <1>2, <1>5, <1>6, <2>1, <2>3, <2>4 DEF Asks, w
<1>9. CASE m.kind \in {"And", "Or", "Not"}
  <2>1. Asks(h, "boolean", "boolean", "boolean")  BY <1>2, <1>9, OperatorsDemand
  <2>2. \A i \in DOMAIN types : types[i] \in {Poly, "boolean"}  BY <1>2, <1>6, <1>9, <2>1 DEF Wanted, Asks
  <2>3. EngineResult(m, types, schema) = "boolean"
    BY <1>3, <1>9 DEF EngineResult, ArithmeticOps
  <2>4. EngineAgrees(m, types)
    <3>1. All \subseteq {"boolean", Poly}  BY <2>2 DEF Everyone, Among
    <3> QED  BY <1>3, <1>9, <3>1 DEF EngineAgrees, Comparisons, ArithmeticOps
  <2> QED  BY <1>2, <1>5, <1>6, <2>1, <2>3, <2>4 DEF Asks, w
<1>10. CASE m.kind \in ArithmeticOps \cup {"Neg"}
  <2>1. Asks(h, "numeric", "numeric", "numeric")  BY <1>2, <1>10, OperatorsDemand
  <2>2. \A i \in DOMAIN types : types[i] \in {Poly, "numeric"}
    BY <1>2, <1>6, <1>10, <2>1 DEF Wanted, Asks, ArithmeticOps
  <2>3. EngineResult(m, types, schema) = "numeric"
    BY <1>3, <1>10 DEF EngineResult, Comparisons, ArithmeticOps
  <2>4. EngineAgrees(m, types)
    <3>1. All \subseteq {"numeric", Poly}  BY <2>2 DEF Everyone, Among
    <3> QED  BY <1>3, <1>10, <3>1 DEF EngineAgrees, Comparisons, ArithmeticOps
  <2> QED  BY <1>2, <1>5, <1>6, <2>1, <2>3, <2>4 DEF Asks, w
<1>11. CASE m.kind = "Like"
  <2>1. Asks(h, "string", "string", "boolean")  BY <1>2, <1>11, OperatorsDemand
  <2>2. \A i \in DOMAIN types : types[i] \in {Poly, "string"}  BY <1>2, <1>6, <1>11, <2>1 DEF Wanted, Asks
  <2>3. EngineResult(m, types, schema) = "boolean"
    BY <1>3, <1>11 DEF EngineResult, ArithmeticOps
  <2>4. EngineAgrees(m, types)
    <3>1. Among(types, DOMAIN m.args) \subseteq {"string", Poly}  BY <2>2 DEF Everyone, Among
    <3> QED  BY <1>3, <1>11, <3>1 DEF EngineAgrees, Comparisons, ArithmeticOps
  <2> QED  BY <1>2, <1>5, <1>6, <2>1, <2>3, <2>4 DEF Asks, w
<1>12. CASE m.kind = "TsOrDsToDate"
  <2>1. Asks(h, "temporal", "temporal", "temporal")  BY <1>2, <1>12, OperatorsDemand
  <2>2. \A i \in DOMAIN types : types[i] \in {Poly, "temporal"}  BY <1>2, <1>6, <1>12, <2>1 DEF Wanted, Asks
  <2>3. EngineResult(m, types, schema) = "temporal"
    BY <1>3, <1>12 DEF EngineResult, Comparisons, ArithmeticOps
  <2>4. EngineAgrees(m, types)
    <3>1. All \subseteq {"temporal", Poly}  BY <2>2 DEF Everyone, Among
    <3> QED  BY <1>3, <1>12, <3>1 DEF EngineAgrees, Comparisons, ArithmeticOps
  <2> QED  BY <1>2, <1>5, <1>6, <2>1, <2>3, <2>4 DEF Asks, w
<1>13. CASE m.kind = "Paren"
  <2>1. Asks(h, "same", "same", "same")  BY <1>2, <1>13, OperatorsDemand
  <2>2. P = All  BY <1>13, <2>1 DEF Peers, Everyone, Among, Wanted, Asks
  <2>3. Len(m.args) = 1  BY <1>13 DEF WellShaped
  <2>4. All = {types[1]}  BY <1>4, <2>3 DEF Everyone, Among
  <2>5. EngineResult(m, types, schema) = types[1] /\ types[1] \in Fams
    <3>1. 1 \in DOMAIN types  BY <1>4, <2>3
    <3> QED  BY <1>3, <1>13, <3>1 DEF EngineResult, Comparisons, ArithmeticOps
  <2>6. EngineAgrees(m, types)  BY <1>3, <1>13 DEF EngineAgrees, Comparisons, ArithmeticOps
  <2>7. Unified(P) = types[1]
    <3> HIDE DEF P, All
    <3> QED  BY <1>2, <2>2, <2>4, UnifiedIsFamily
  <2> QED  BY <1>2, <2>1, <2>5, <2>6, <2>7 DEF Asks, w
<1>14. CASE m.kind = "Case"
  <2>1. Asks(h, "boolean", "same", "same")  BY <1>2, <1>14, OperatorsDemand
  <2> DEFINE conds == Conditions(m)
             rest == Among(types, DOMAIN m.args \ conds)
  <2>2. DOMAIN m.args = DOMAIN types  OBVIOUS
  <2>3. \A i \in DOMAIN types : Wanted(m, h, i) = IF i \in conds THEN "boolean" ELSE "same"
    BY <1>14, <2>1, <2>2 DEF Wanted, Asks, Conditions
  <2>5. P = rest
    <3> HIDE DEF conds
    <3> QED  BY <2>2, <2>3 DEF Peers, Among
  <2>7. EngineResult(m, types, schema) = Unified(rest)  BY <1>3, <1>14 DEF EngineResult, Comparisons, ArithmeticOps
  <2>8. \A i \in conds : types[i] \in {"boolean", Poly}
    <3>1. conds \subseteq DOMAIN types  BY <2>2 DEF Conditions
    <3> QED  BY <1>2, <1>6, <2>3, <3>1
  <2>9. m.hidden = <<>> => EngineAgrees(m, types)
    <3>1. unify(rest)
      <4> HIDE DEF rest, P
      <4> QED  BY <1>2, <2>5
    <3>2. Among(types, conds) \subseteq {"boolean", Poly}  BY <2>8 DEF Among
    <3>3. m.hidden = <<>> => CaseAgrees(m, types)  BY <3>1, <3>2 DEF CaseAgrees
    <3> QED  BY <1>3, <1>14, <3>3 DEF EngineAgrees, Comparisons, ArithmeticOps
  <2> HIDE DEF rest, P
  <2>10. h.result = "same"  BY <2>1 DEF Asks
  <2> QED  BY <1>2, <2>5, <2>7, <2>9, <2>10, UnifiedIsFamily DEF w
<1>15. m.kind \in {"Column", "String", "Number", "Boolean", "Null"} \cup Comparisons \cup {"In", "Between"} \cup {"And", "Or", "Not"}
                  \cup ArithmeticOps \cup {"Neg", "Like", "TsOrDsToDate", "Paren", "Case"}
  BY DEF OperatorKinds
<1> QED  BY <1>7, <1>8, <1>9, <1>10, <1>11, <1>12, <1>13, <1>14, <1>15

\* Only a typed literal and an IS NULL have arguments that the walk passes over.
LEMMA WalkedArgs ==
  ASSUME NEW m, WellShaped(m)
  PROVE  /\ m.kind \notin {"Cast", "Is"} => DOMAIN Operands(m) = DOMAIN m.args
         /\ m.kind = "Cast" => DOMAIN m.args = {1}
         /\ m.kind = "Is" => DOMAIN m.args = {1, 2} /\ DOMAIN Operands(m) = {1}
<1>1. DOMAIN m.args = 1..Len(m.args)  BY ArgsAreParts
<1>2. m.kind \notin {"Cast", "Is"} => DOMAIN Operands(m) = DOMAIN m.args  BY DEF Operands
<1>3. m.kind = "Cast" => DOMAIN m.args = {1}
  <2> SUFFICES ASSUME m.kind = "Cast" PROVE DOMAIN m.args = {1}  OBVIOUS
  <2>1. Len(m.args) = 1  BY DEF WellShaped
  <2>2. DOMAIN m.args = 1..1  BY <1>1, <2>1
  <2> QED  BY <2>2
<1>4. m.kind = "Is" => DOMAIN m.args = {1, 2}
  <2> SUFFICES ASSUME m.kind = "Is" PROVE DOMAIN m.args = {1, 2}  OBVIOUS
  <2>1. Len(m.args) = 2  BY DEF WellShaped
  <2>2. DOMAIN m.args = 1..2  BY <1>1, <2>1
  <2> QED  BY <2>2
<1>5. m.kind = "Is" => DOMAIN Operands(m) = {1}  BY DEF Operands
<1> QED  BY <1>2, <1>3, <1>4, <1>5

\* What a walk that is well says of each operand.
LEMMA WalkedWell ==
  ASSUME NEW m, NEW h, NEW kids, Walked(m, h, kids).ok
  PROVE  /\ h.ok
         /\ \A i \in DOMAIN kids : kids[i].ok /\ kids[i].columns \subseteq Walked(m, h, kids).columns
         /\ m.kind = "Column" => m.name \in Walked(m, h, kids).columns
         /\ h.result # "same" => Walked(m, h, kids).family = h.result
<1> DEFINE K == {kids[i].family : i \in {j \in DOMAIN kids : Wanted(m, h, j) = "same"}}
           ok == /\ h.ok
                 /\ \A i \in DOMAIN kids :
                        /\ kids[i].ok
                        /\ Wanted(m, h, i) \in Families => kids[i].family \in {Poly, Wanted(m, h, i)}
                 /\ unify(K)
<1>1. Walked(m, h, kids) = [ok |-> ok, family |-> IF h.result = "same" THEN Unified(K) ELSE h.result,
                            columns |-> union_columns(m, kids)]  BY DEF Walked
<1>2. ok
  <2> HIDE DEF ok, K
  <2> QED  BY <1>1
<1>3. h.ok /\ \A i \in DOMAIN kids : kids[i].ok
  <2> HIDE DEF K
  <2> QED  BY <1>2
<1>4. Walked(m, h, kids).columns = union_columns(m, kids) /\ (h.result # "same" => Walked(m, h, kids).family = h.result)
  <2> HIDE DEF ok, K
  <2> QED  BY <1>1
<1>5. \A i \in DOMAIN kids : kids[i].columns \subseteq union_columns(m, kids)  BY DEF union_columns
<1>6. m.kind = "Column" => m.name \in union_columns(m, kids)  BY DEF union_columns
<1> QED  BY <1>3, <1>4, <1>5, <1>6

\* Wherever the walk is well, the engine gives a tree the family that the walk
\* gave it, and agrees with its parts.
Typed(n, schema, m) ==
  \A p \in Positions :
    LET w == Walks(n, schema)[<<m, p>>]
        type == EngineTypes(n, schema)
    IN w.ok => /\ type[m] = w.family /\ type[m] \in Fams
               /\ m.hidden = <<>> => EngineAgrees(m, [i \in DOMAIN EngineParts(m) |-> type[EngineParts(m)[i]]])

\* It is inherited by a node from its parts,
LEMMA TypedUpwards ==
  ASSUME NEW n, Parsed(n), NEW schema, SchemaTyped(schema), NEW m \in Subtrees(n),
         \A c \in PartsOf(m) : Typed(n, schema, c)
  PROVE  Typed(n, schema, m)
<1> DEFINE W == Walks(n, schema)
           T == EngineTypes(n, schema)
<1> SUFFICES ASSUME NEW p \in Positions, W[<<m, p>>].ok
             PROVE  /\ T[m] = W[<<m, p>>].family /\ T[m] \in Fams
                    /\ m.hidden = <<>> => EngineAgrees(m, [i \in DOMAIN EngineParts(m) |-> T[EngineParts(m)[i]]])
  BY DEF Typed
<1> DEFINE h == HANDLERS_BY_POSITION(m, schema, p)
           below == PositionBelow(m, p)
           kids == [i \in DOMAIN Operands(m) |-> W[<<m.args[i], below>>]]
           types == [i \in DOMAIN m.args |-> T[m.args[i]]]
<1>1. W[<<m, p>>] = Walked(m, h, kids)  BY WalksDefined DEF WalkAt
<1>2. T[m] = EngineResult(m, types, schema)  BY TypesDefined DEF TypeAt
<1>3. WellShaped(m) /\ below \in Positions  BY DEF Parsed, PositionBelow, Positions
<1>4. DOMAIN kids \subseteq DOMAIN m.args /\ DOMAIN types = DOMAIN m.args  BY <1>3, OperandsAreArgs
<1>5. h.ok /\ \A i \in DOMAIN kids : kids[i].ok
  <2> HIDE DEF h, kids, W
  <2> QED  BY <1>1, WalkedWell
<1>6. \A i \in DOMAIN kids : types[i] = kids[i].family /\ types[i] \in Fams
  <2> SUFFICES ASSUME NEW i \in DOMAIN kids PROVE types[i] = kids[i].family /\ types[i] \in Fams  OBVIOUS
  <2>1. i \in DOMAIN m.args /\ m.args[i] \in PartsOf(m)  BY <1>3, <1>4, ArgsAreParts
  <2>2. kids[i] = W[<<m.args[i], below>>] /\ types[i] = T[m.args[i]] /\ kids[i].ok  BY <1>5, <2>1
  <2>3. Typed(n, schema, m.args[i])  BY <2>1
  <2> QED  BY <1>3, <2>2, <2>3 DEF Typed
<1>7. m.kind \in OperatorKinds \cup FunctionKinds  BY <1>3, <1>5, AdmittedKinds
<1>8. m.hidden = <<>> => [i \in DOMAIN EngineParts(m) |-> T[EngineParts(m)[i]]] = types
  <2>1. m.hidden = <<>> => EngineParts(m) = m.args  BY <1>3, ArgsAreParts
  <2> QED  BY <2>1
<1>9. /\ EngineResult(m, types, schema) = Walked(m, h, kids).family
      /\ Walked(m, h, kids).family \in Fams
      /\ m.hidden = <<>> => EngineAgrees(m, types)
  <2>1. CASE m.kind \in {"Cast", "Is"}
    <3>1. EntryOf(m) = {}  BY <2>1, NoEntry DEF OperatorKinds
    <3>2. /\ m.kind = "Cast" => Asks(h, "any", "any", "temporal") /\ m.name = "temporal"
          /\ m.kind = "Is" => Asks(h, "any", "any", "boolean")
      <4>1. m.kind \in OperatorKinds  BY <2>1 DEF OperatorKinds
      <4> QED  BY <1>5, <4>1, OperatorsDemand
    <3>3. EngineResult(m, types, schema) = h.result /\ h.result \in {"temporal", "boolean"}
      <4> HIDE DEF h, types
      <4> QED  BY <2>1, <3>1, <3>2 DEF EngineResult, Comparisons, ArithmeticOps, Asks
    <3>4. EngineAgrees(m, types)
      <4> HIDE DEF types
      <4> QED  BY <2>1, <3>1 DEF EngineAgrees, Comparisons, ArithmeticOps
    <3>5. Walked(m, h, kids).family = h.result
      <4> HIDE DEF h, kids, W
      <4> QED  BY <1>1, <3>3, WalkedWell
    <3> QED  BY <3>3, <3>4, <3>5 DEF Fams, Families
  <2>2. CASE m.kind \notin {"Cast", "Is"}
    <3>1. DOMAIN kids = DOMAIN m.args  BY <1>3, <2>2, WalkedArgs
    <3>2. types \in [DOMAIN m.args -> Fams]
      <4>1. \A i \in DOMAIN m.args : T[m.args[i]] \in Fams  BY <1>6, <3>1
      <4> QED  BY <4>1
    <3> HIDE DEF h, kids, types, W, T
    <3>3. /\ h = HANDLERS_BY_POSITION(m, schema, p) /\ DOMAIN types = DOMAIN kids /\ Walked(m, h, kids).ok
          /\ \A i \in DOMAIN kids : types[i] = kids[i].family
      BY <1>1, <1>4, <1>6, <3>1 DEF h
    <3>4. CASE m.kind \in FunctionKinds  BY <1>3, <3>2, <3>3, <3>4, CallTyped
    <3>5. CASE m.kind \in OperatorKinds
      <4>1. m.kind \in OperatorKinds \ {"Cast", "Is"}  BY <2>2, <3>5
      <4> QED  BY <1>3, <3>2, <3>3, <4>1, OperatorTyped
    <3> QED  BY <1>7, <3>4, <3>5
  <2> QED  BY <2>1, <2>2
<1> QED  BY <1>1, <1>2, <1>8, <1>9

\* so that it holds of every subtree.
LEMMA EverySubtreeTyped ==
  ASSUME NEW n, Parsed(n), NEW schema, SchemaTyped(schema)
  PROVE  \A m \in Subtrees(n) : Typed(n, schema, m)
<1> DEFINE P == {m \in Subtrees(n) : Typed(n, schema, m)}
<1>1. ASSUME NEW m \in Subtrees(n), PartsOf(m) \subseteq P PROVE m \in P  BY <1>1, TypedUpwards
<1> HIDE DEF P
<1>2. Subtrees(n) \subseteq P  BY <1>1, Upwards
<1> QED  BY <1>2 DEF P

\* The walk of an accepted check reaches every part of its text, except the
\* text of a typed literal and the NULL of an IS NULL; and it collects the
\* columns of what it reaches.
Reached(n, schema, m) ==
  \/ m.kind \in {"String", "Null"}
  \/ \E p \in Positions : /\ Walks(n, schema)[<<m, p>>].ok
                          /\ Walks(n, schema)[<<m, p>>].columns \subseteq Walks(n, schema)[<<n, "scalar">>].columns

\* What is reached hands the walk on to its parts.
LEMMA ReachedDownwards ==
  ASSUME NEW n, Parsed(n), NEW schema, ~SimpleCase(n), NEW m \in Subtrees(n), Reached(n, schema, m), NEW c \in PartsOf(m)
  PROVE  Reached(n, schema, c)
<1> DEFINE W == Walks(n, schema)
<1>1. WellShaped(m)  BY DEF Parsed
<1>2. m.kind \notin {"String", "Null"}
  <2> SUFFICES ASSUME m.kind \in {"String", "Null"} PROVE FALSE  OBVIOUS
  <2>1. m.args = <<>> /\ m.hidden = <<>>  BY <1>1 DEF WellShaped, BareKinds, LiteralKinds
  <2>2. EngineParts(m) = <<>>  BY <1>1, <2>1, ArgsAreParts
  <2> QED  BY <2>2 DEF PartsOf
<1>3. PICK p \in Positions : W[<<m, p>>].ok /\ W[<<m, p>>].columns \subseteq W[<<n, "scalar">>].columns
  BY <1>2 DEF Reached
<1> DEFINE h == HANDLERS_BY_POSITION(m, schema, p)
           below == PositionBelow(m, p)
           kids == [i \in DOMAIN Operands(m) |-> W[<<m.args[i], below>>]]
<1>4. W[<<m, p>>] = Walked(m, h, kids)  BY WalksDefined DEF WalkAt
<1>5. h.ok /\ \A i \in DOMAIN kids : kids[i].ok /\ kids[i].columns \subseteq W[<<m, p>>].columns
  <2> HIDE DEF h, kids, W
  <2> QED  BY <1>3, <1>4, WalkedWell
<1>6. m.hidden = <<>>
  <2>1. m.kind # "Case" => m.hidden = <<>>  BY <1>1, <1>5, AdmittedKinds
  <2> QED  BY <2>1 DEF SimpleCase
<1>7. EngineParts(m) = m.args  BY <1>1, <1>6, ArgsAreParts
<1>8. PICK i \in DOMAIN m.args : c = m.args[i]  BY <1>7 DEF PartsOf
<1>9. ASSUME i \in DOMAIN Operands(m) PROVE Reached(n, schema, c)
  <2>1. kids[i] = W[<<c, below>>] /\ i \in DOMAIN kids  BY <1>8, <1>9
  <2>2. below \in Positions  BY DEF PositionBelow, Positions
  <2>3. W[<<c, below>>].ok /\ W[<<c, below>>].columns \subseteq W[<<n, "scalar">>].columns  BY <1>3, <1>5, <2>1
  <2> QED  BY <2>2, <2>3 DEF Reached
<1>10. ASSUME i \notin DOMAIN Operands(m) PROVE c.kind \in {"String", "Null"}
  <2>1. m.kind \in {"Cast", "Is"}  BY <1>1, <1>10, WalkedArgs
  <2>2. m.kind \in OperatorKinds  BY <2>1 DEF OperatorKinds
  <2>3. /\ m.kind = "Cast" => m.args[1].kind = "String" /\ i = 1
        /\ m.kind = "Is" => m.args[2].kind = "Null" /\ i = 2
    <3>1. /\ m.kind = "Cast" => m.args[1].kind = "String"
          /\ m.kind = "Is" => m.args[2].kind = "Null"
      BY <1>5, <2>2, OperatorsDemand
    <3>2. /\ m.kind = "Cast" => DOMAIN m.args = {1}
          /\ m.kind = "Is" => DOMAIN m.args = {1, 2} /\ DOMAIN Operands(m) = {1}
      BY <1>1, WalkedArgs
    <3> QED  BY <1>10, <3>1, <3>2
  <2> QED  BY <1>8, <2>1, <2>3
<1> QED  BY <1>9, <1>10 DEF Reached

\* The engine reads only columns that the walk of an accepted check collected,
\* and coerces nothing in it.
LEMMA AcceptedIsSound ==
  ASSUME NEW n, Parsed(n), NEW schema, SchemaTyped(schema), ~SimpleCase(n),
         validate_expression(n, "scalar", schema).ok
  PROVE  /\ EngineReads(n) \subseteq validate_expression(n, "scalar", schema).columns
         /\ EngineCoercesNothing(n, schema)
<1> DEFINE W == Walks(n, schema)
           P == {m \in Subtrees(n) : Reached(n, schema, m)}
<1>1. n \in P
  <2>1. n \in Subtrees(n)  BY SubtreesClosed
  <2>2. "scalar" \in Positions  BY DEF Positions
  <2> QED  BY <2>1, <2>2 DEF Reached, validate_expression
<1>2. ASSUME NEW m \in Subtrees(n), m \in P PROVE PartsOf(m) \subseteq P
  BY <1>2, ReachedDownwards, SubtreesClosed
<1>3. \A m \in Subtrees(n) : Reached(n, schema, m)
  <2>1. Subtrees(n) \subseteq P
    <3> HIDE DEF P
    <3> QED  BY <1>1, <1>2, Downwards
  <2> QED  BY <2>1
<1>4. EngineReads(n) \subseteq W[<<n, "scalar">>].columns
  <2> SUFFICES ASSUME NEW m \in Subtrees(n), m.kind = "Column" PROVE m.name \in W[<<n, "scalar">>].columns
    BY DEF EngineReads
  <2>1. PICK p \in Positions : W[<<m, p>>].ok /\ W[<<m, p>>].columns \subseteq W[<<n, "scalar">>].columns
    <3>1. Reached(n, schema, m)  BY <1>3
    <3> QED  BY <3>1 DEF Reached
  <2> DEFINE h == HANDLERS_BY_POSITION(m, schema, p)
             kids == [i \in DOMAIN Operands(m) |-> W[<<m.args[i], PositionBelow(m, p)>>]]
  <2>2. W[<<m, p>>] = Walked(m, h, kids)  BY WalksDefined DEF WalkAt
  <2>3. m.name \in W[<<m, p>>].columns
    <3> HIDE DEF h, kids, W
    <3> QED  BY <2>1, <2>2, WalkedWell
  <2> QED  BY <2>1, <2>3
<1>5. ASSUME NEW m \in Subtrees(n)
      PROVE  EngineAgrees(m, [i \in DOMAIN EngineParts(m) |-> EngineTypes(n, schema)[EngineParts(m)[i]]])
  <2> DEFINE types == [i \in DOMAIN EngineParts(m) |-> EngineTypes(n, schema)[EngineParts(m)[i]]]
  <2>1. CASE m.kind \in {"String", "Null"}
    <3>1. EntryOf(m) = {}  BY <2>1, NoEntry DEF OperatorKinds
    <3> HIDE DEF types
    <3> QED  BY <2>1, <3>1 DEF EngineAgrees, Comparisons, ArithmeticOps, types
  <2>2. CASE m.kind \notin {"String", "Null"}
    <3>1. PICK p \in Positions : W[<<m, p>>].ok  BY <1>3, <2>2 DEF Reached
    <3>2. Typed(n, schema, m)  BY EverySubtreeTyped
    <3>3. m.hidden = <<>>
      <4>1. WellShaped(m)  BY DEF Parsed
      <4>2. HANDLERS_BY_POSITION(m, schema, p).ok
        <5> DEFINE h == HANDLERS_BY_POSITION(m, schema, p)
                   kids == [i \in DOMAIN Operands(m) |-> W[<<m.args[i], PositionBelow(m, p)>>]]
        <5>1. W[<<m, p>>] = Walked(m, h, kids)  BY WalksDefined DEF WalkAt
        <5> HIDE DEF h, kids, W
        <5>2. h.ok  BY <3>1, <5>1, WalkedWell
        <5> QED  BY <5>2 DEF h
      <4>3. m.kind # "Case" => m.hidden = <<>>  BY <4>1, <4>2, AdmittedKinds
      <4> QED  BY <4>3 DEF SimpleCase
    <3> QED  BY <3>1, <3>2, <3>3 DEF Typed
  <2> QED  BY <2>1, <2>2
<1>6. EngineCoercesNothing(n, schema)  BY <1>5 DEF EngineCoercesNothing
<1> QED  BY <1>4, <1>6 DEF validate_expression

-----------------------------------------------------------------------------
(* Names.                                                                  *)

\* The signs a character becomes in a slug; and a slug up to a character, from the one before.
Piece(c) == IF c = "/" THEN <<"-", "-">> ELSE <<c>>
FlatAt(q, f, i) == IF i = 1 THEN q[i] ELSE f[i - 1] \o q[i]

\* A slug is built of the pieces of its pipeline, one after the other.
LEMMA Flattened ==
  ASSUME NEW q, NEW n \in Nat \ {0}, Len(q) = n
  PROVE  \E f : FlattenSeq(q) = f[n] /\ \A i \in 1..n : f[i] = FlatAt(q, f, i)
<1> DEFINE Unfold(f) == [i \in 1..n |-> FlatAt(q, f, i)]
           T == {k \in Nat : \E f : \A i \in 1..k : f[i] = FlatAt(q, f, i)}
<1>1. 0 \in T  OBVIOUS
<1>2. ASSUME NEW k \in Nat, k \in T PROVE k + 1 \in T
  <2>1. PICK f : \A i \in 1..k : f[i] = FlatAt(q, f, i)  BY <1>2
  <2> DEFINE g == [i \in 1..(k + 1) |-> IF i <= k THEN f[i] ELSE FlatAt(q, f, i)]
  <2>2. \A i \in 1..(k + 1) : g[i] = FlatAt(q, f, i)  BY <2>1
  <2>3. ASSUME NEW i \in 1..(k + 1) PROVE FlatAt(q, f, i) = FlatAt(q, g, i)
    <3>1. CASE i = 1  BY <3>1 DEF FlatAt
    <3>2. CASE i # 1
      <4>1. i - 1 \in 1..(k + 1) /\ i - 1 <= k  BY <3>2
      <4>2. g[i - 1] = f[i - 1]  BY <4>1
      <4> HIDE DEF g
      <4> QED  BY <3>2, <4>2 DEF FlatAt
    <3> QED  BY <3>1, <3>2
  <2>4. \A i \in 1..(k + 1) : g[i] = FlatAt(q, g, i)  BY <2>2, <2>3
  <2> HIDE DEF g
  <2> QED  BY <2>4
<1>3. n \in T
  <2> HIDE DEF T
  <2> QED  BY <1>1, <1>2, NatSet
<1>4. PICK f : \A i \in 1..n : f[i] = FlatAt(q, f, i)  BY <1>3
<1> DEFINE g == [i \in 1..n |-> f[i]]
<1>5. g = Unfold(g)
  <2>1. ASSUME NEW i \in 1..n PROVE g[i] = FlatAt(q, g, i)
    <3>1. CASE i = 1  BY <1>4, <3>1 DEF FlatAt
    <3>2. CASE i # 1
      <4>1. i - 1 \in 1..n /\ g[i] = FlatAt(q, f, i)  BY <1>4, <3>2
      <4>2. g[i - 1] = f[i - 1]  BY <4>1
      <4> HIDE DEF g
      <4> QED  BY <3>2, <4>1, <4>2 DEF FlatAt
    <3> QED  BY <3>1, <3>2
  <2> QED  BY <2>1
<1> DEFINE F == CHOOSE h : h = Unfold(h)
<1>6. FlattenSeq(q) = F[n]
  <2>1. Len(q) # 0  OBVIOUS
  <2> QED  BY <2>1, Zenon DEF FlattenSeq, FlatAt
<1>7. F = Unfold(F)
  <2> HIDE DEF Unfold, g
  <2> QED  BY <1>5, Zenon
<1> HIDE DEF F
<1>8. \A i \in 1..n : F[i] = FlatAt(q, F, i)  BY <1>7
<1> QED  BY <1>6, <1>8

\* How many signs a character becomes, and which.
Width(c) == IF c = "/" THEN 2 ELSE 1
Sign(c)  == IF c = "/" THEN "-" ELSE c

\* A piece is as wide as its character, and of one sign.
LEMMA PieceShape ==
  ASSUME NEW C, "-" \in C, NEW c \in C
  PROVE  Piece(c) \in Seq(C) /\ Len(Piece(c)) = Width(c) /\ \A k \in 1..Width(c) : Piece(c)[k] = Sign(c)
<1>1. CASE c = "/"  BY <1>1 DEF Piece, Width, Sign
<1>2. CASE c # "/"  BY <1>2 DEF Piece, Width, Sign
<1> QED  BY <1>1, <1>2

\* What a piece adds to a slug.
Extended(s, t, c) ==
  /\ Len(t) = Len(s) + Width(c) /\ Width(c) \in Nat
  /\ \A k \in 1..Len(s) : t[k] = s[k]
  /\ \A k \in (Len(s) + 1)..(Len(s) + Width(c)) : t[k] = Sign(c)

\* A piece appended to a slug extends it so.
LEMMA PieceAdded ==
  ASSUME NEW C, "-" \in C, NEW c \in C, NEW s \in Seq(C), NEW t, t = s \o Piece(c)
  PROVE  t \in Seq(C) /\ Extended(s, t, c)
<1>1. Piece(c) \in Seq(C) /\ Len(Piece(c)) = Width(c) /\ \A k \in 1..Width(c) : Piece(c)[k] = Sign(c)  BY PieceShape
<1>2. /\ DOMAIN s = 1..Len(s) /\ Len(s) \in Nat /\ t \in Seq(C) /\ Len(t) = Len(s) + Len(Piece(c))
      /\ \A i \in DOMAIN s : t[i] = s[i]
      /\ \A i \in 1..Len(Piece(c)) : t[Len(s) + i] = Piece(c)[i]
  BY <1>1, Concatenated
<1>3. Width(c) \in Nat  BY DEF Width
<1>4. ASSUME NEW k \in (Len(s) + 1)..(Len(s) + Width(c)) PROVE t[k] = Sign(c)
  <2>1. k - Len(s) \in 1..Width(c) /\ Len(s) + (k - Len(s)) = k  BY <1>2, <1>3
  <2> QED  BY <1>1, <1>2, <2>1
<1> QED  BY <1>1, <1>2, <1>3, <1>4 DEF Extended

\* Where each character of a pipeline stands in its slug: at[i] is the place of
\* the last sign of the i-th.
Standing(p, v, at) ==
  /\ at \in [0..Len(p) -> Nat] /\ at[0] = 0 /\ at[Len(p)] = Len(v)
  /\ \A i \in 1..Len(p) : /\ at[i] = at[i - 1] + Width(p[i]) /\ at[i] <= Len(v)
                          /\ \A k \in (at[i - 1] + 1)..at[i] : v[k] = Sign(p[i])

\* Every slug has such places.
LEMMA SlugPlaces ==
  ASSUME NEW p, p \in Seq(Elems(p)), p # <<>>
  PROVE  slug(p) \in Seq(Elems(p) \cup {"-"}) /\ \E at : Standing(p, slug(p), at)
<1> DEFINE n == Len(p)
           C == Elems(p) \cup {"-"}
           q == [i \in DOMAIN p |-> IF p[i] = "/" THEN <<"-", "-">> ELSE <<p[i]>>]
<1>1. n \in Nat \ {0} /\ DOMAIN p = 1..n  OBVIOUS
<1>2. \A i \in 1..n : q[i] = Piece(p[i]) /\ p[i] \in C
  BY <1>1 DEF Piece, Elems
<1>3. Len(q) = n  BY <1>1
<1>4. slug(p) = FlattenSeq(q)  BY DEF slug
<1> HIDE DEF n, q, C
<1>5. PICK f : FlattenSeq(q) = f[n] /\ \A i \in 1..n : f[i] = FlatAt(q, f, i)  BY <1>1, <1>3, Flattened
<1> DEFINE s(i) == IF i = 0 THEN <<>> ELSE f[i]
           J(k) == /\ s(k) \in Seq(C)
                   /\ \A i \in 0..k : Len(s(i)) <= Len(s(k)) /\ Len(s(i)) \in Nat
                   /\ \A i \in 1..k : /\ Len(s(i)) = Len(s(i - 1)) + Width(p[i])
                                      /\ \A x \in (Len(s(i - 1)) + 1)..Len(s(i)) : s(k)[x] = Sign(p[i])
           T == {k \in Nat : k <= n => J(k)}
<1>6. ASSUME NEW i \in 1..n PROVE s(i) = s(i - 1) \o Piece(p[i])
  <2>1. "-" \in C /\ p[i] \in C /\ q[i] = Piece(p[i])  BY <1>2 DEF C
  <2>2. CASE i = 1
    <3>1. Piece(p[i]) \in Seq(C)  BY <2>1, PieceShape
    <3>2. f[i] = Piece(p[i])  BY <1>5, <2>1, <2>2 DEF FlatAt
    <3>3. <<>> \o Piece(p[i]) = Piece(p[i])
      <4> DEFINE b == Piece(p[i])
      <4>1. b \in Seq(C)  BY <3>1
      <4> HIDE DEF b
      <4>2. <<>> \o b = b  BY <4>1
      <4> QED  BY <4>2 DEF b
    <3> QED  BY <2>2, <3>2, <3>3
  <2>3. CASE i # 1
    <3>1. i - 1 # 0 /\ i # 0  BY <2>3
    <3> QED  BY <1>5, <2>1, <2>3, <3>1 DEF FlatAt
  <2> QED  BY <2>2, <2>3
<1>7. 0 \in T
  <2>1. s(0) = <<>>  OBVIOUS
  <2>2. s(0) \in Seq(C) /\ Len(s(0)) = 0  BY <2>1
  <2>3. J(0)
    <3> HIDE DEF s
    <3> QED  BY <2>2
  <2> QED  BY <2>3
<1> HIDE DEF s
<1>8. ASSUME NEW k \in Nat, k \in T PROVE k + 1 \in T
  <2> SUFFICES ASSUME k + 1 <= n PROVE J(k + 1)  OBVIOUS
  <2>1. J(k)  BY <1>1, <1>8
  <2>2. k + 1 \in 1..n /\ (k + 1) - 1 = k  BY <1>1
  <2>3. s(k + 1) = s(k) \o Piece(p[k + 1])
    <3>1. s(k + 1) = s((k + 1) - 1) \o Piece(p[k + 1])  BY <1>6, <2>2
    <3> QED  BY <2>2, <3>1
  <2>4. "-" \in C /\ p[k + 1] \in C /\ s(k) \in Seq(C)  BY <1>2, <2>1, <2>2 DEF C
  <2>5. /\ s(k + 1) \in Seq(C) /\ Len(s(k + 1)) = Len(s(k)) + Width(p[k + 1]) /\ Width(p[k + 1]) \in Nat
        /\ \A x \in 1..Len(s(k)) : s(k + 1)[x] = s(k)[x]
        /\ \A x \in (Len(s(k)) + 1)..(Len(s(k)) + Width(p[k + 1])) : s(k + 1)[x] = Sign(p[k + 1])
    <3>1. s(k + 1) \in Seq(C) /\ Extended(s(k), s(k + 1), p[k + 1])  BY <2>3, <2>4, PieceAdded
    <3> QED  BY <3>1 DEF Extended
  <2>6. \A i \in 0..k : Len(s(i)) <= Len(s(k)) /\ Len(s(i)) \in Nat  BY <2>1
  <2>7. \A i \in 0..(k + 1) : Len(s(i)) <= Len(s(k + 1)) /\ Len(s(i)) \in Nat
    <3> SUFFICES ASSUME NEW i \in 0..(k + 1) PROVE Len(s(i)) <= Len(s(k + 1)) /\ Len(s(i)) \in Nat  OBVIOUS
    <3>0. Len(s(k)) \in Nat  BY <2>6
    <3>1. CASE i = k + 1  BY <2>5, <3>0, <3>1
    <3>2. CASE i # k + 1
      <4>1. i \in 0..k  BY <3>2
      <4> QED  BY <2>5, <2>6, <3>0, <4>1
    <3> QED  BY <3>1, <3>2
  <2>8. ASSUME NEW i \in 1..(k + 1)
        PROVE  /\ Len(s(i)) = Len(s(i - 1)) + Width(p[i])
               /\ \A x \in (Len(s(i - 1)) + 1)..Len(s(i)) : s(k + 1)[x] = Sign(p[i])
    <3>1. CASE i = k + 1  BY <2>2, <2>5, <3>1
    <3>2. CASE i # k + 1
      <4>1. i \in 1..k /\ i \in 0..k /\ i - 1 \in 0..k  BY <3>2
      <4>2. /\ Len(s(i)) = Len(s(i - 1)) + Width(p[i])
            /\ \A x \in (Len(s(i - 1)) + 1)..Len(s(i)) : s(k)[x] = Sign(p[i])  BY <2>1, <4>1
      <4>3. Len(s(i)) <= Len(s(k)) /\ Len(s(i)) \in Nat /\ Len(s(i - 1)) \in Nat /\ Len(s(k)) \in Nat  BY <2>6, <4>1
      <4>4. ASSUME NEW x \in (Len(s(i - 1)) + 1)..Len(s(i)) PROVE x \in 1..Len(s(k))  BY <4>3
      <4> QED  BY <2>5, <4>2, <4>4
    <3> QED  BY <3>1, <3>2
  <2> QED  BY <2>5, <2>7, <2>8
<1>9. J(n)
  <2>1. n \in T
    <3> HIDE DEF T
    <3> QED  BY <1>1, <1>7, <1>8, NatSet
  <2> QED  BY <2>1
<1>10. slug(p) = s(n)  BY <1>1, <1>4, <1>5 DEF s
<1> DEFINE at == [i \in 0..n |-> Len(s(i))]
<1>11. \A i \in 0..n : at[i] = Len(s(i)) /\ Len(s(i)) \in Nat /\ Len(s(i)) <= Len(s(n))  BY <1>9
<1>12. at \in [0..n -> Nat]  BY <1>11
<1>13. at[0] = 0 /\ at[n] = Len(slug(p))
  <2>1. s(0) = <<>>  BY DEF s
  <2>2. Len(s(0)) = 0  BY <2>1
  <2> QED  BY <1>1, <1>10, <2>2
<1>14. ASSUME NEW i \in 1..n
       PROVE  /\ at[i] = at[i - 1] + Width(p[i]) /\ at[i] <= Len(slug(p))
              /\ \A k \in (at[i - 1] + 1)..at[i] : slug(p)[k] = Sign(p[i])
  <2>1. i \in 0..n /\ i - 1 \in 0..n  BY <1>1
  <2>2. at[i] = Len(s(i)) /\ at[i - 1] = Len(s(i - 1)) /\ at[i] <= Len(slug(p))  BY <1>10, <1>11, <2>1
  <2> HIDE DEF at
  <2> QED  BY <1>9, <1>10, <2>2
<1> HIDE DEF at
<1>15. Standing(p, slug(p), at)  BY <1>12, <1>13, <1>14 DEF Standing, n
<1> QED  BY <1>9, <1>10, <1>15 DEF C

\* What is left of a pipeline from a place on.
Remainder(p, i) == [x \in 1..(Len(p) + 1 - i) |-> p[i + x - 1]]

\* A character in front of what is left behind it,
LEMMA RestCons ==
  ASSUME NEW p, p \in Seq(Elems(p)), NEW i \in 1..Len(p)
  PROVE  /\ <<p[i]>> \o Remainder(p, i + 1) = Remainder(p, i)
         /\ Remainder(p, i) \in Seq(Elems(p))
<1>1. DOMAIN p = 1..Len(p) /\ Len(p) \in Nat /\ \A x \in 1..Len(p) : p[x] \in Elems(p)  BY DEF Elems
<1> DEFINE C == Elems(p)
           n == Len(p)
<1> HIDE DEF C, n
<1>2. n \in Nat /\ i \in 1..n /\ \A x \in 1..n : p[x] \in C  BY <1>1 DEF C, n
<1>3. ASSUME NEW j \in 1..(n + 1) PROVE Remainder(p, j) \in [1..(n + 1 - j) -> C] /\ n + 1 - j \in Nat
  <2>1. \A x \in 1..(n + 1 - j) : j + x - 1 \in 1..n  BY <1>2
  <2>2. Remainder(p, j) = [x \in 1..(n + 1 - j) |-> p[j + x - 1]]  BY DEF Remainder, n
  <2> QED  BY <1>2, <2>1, <2>2
<1>4. ASSUME NEW j \in 1..(n + 1) PROVE Remainder(p, j) \in Seq(C) /\ Len(Remainder(p, j)) = n + 1 - j
  <2>1. Remainder(p, j) \in [1..(n + 1 - j) -> C] /\ n + 1 - j \in Nat  BY <1>3
  <2> QED  BY <2>1
<1>5. i \in 1..(n + 1) /\ i + 1 \in 1..(n + 1) /\ p[i] \in C  BY <1>2
<1> DEFINE a == <<p[i]>>
           b == Remainder(p, i + 1)
<1>6. a \in Seq(C) /\ Len(a) = 1 /\ a[1] = p[i]  BY <1>5
<1>7. b \in Seq(C) /\ Len(b) = n - i /\ \A x \in 1..(n - i) : b[x] = p[i + x]
  <2>1. n + 1 - (i + 1) = n - i /\ \A x \in 1..(n - i) : (i + 1) + x - 1 = i + x  BY <1>2
  <2>2. b = [x \in 1..(n + 1 - (i + 1)) |-> p[(i + 1) + x - 1]]  BY DEF Remainder, n
  <2> QED  BY <1>4, <1>5, <2>1, <2>2
<1> HIDE DEF a, b
<1>8. /\ DOMAIN (a \o b) = 1..(1 + (n - i)) /\ DOMAIN a = 1..1 /\ a \o b \in Seq(C)
      /\ (a \o b)[1] = p[i] /\ \A x \in 1..(n - i) : (a \o b)[1 + x] = p[i + x]
  <2>1. /\ DOMAIN (a \o b) = 1..(Len(a) + Len(b)) /\ DOMAIN a = 1..Len(a) /\ a \o b \in Seq(C)
        /\ \A x \in DOMAIN a : (a \o b)[x] = a[x]
        /\ \A x \in 1..Len(b) : (a \o b)[Len(a) + x] = b[x]
    BY <1>6, <1>7, Concatenated
  <2> QED  BY <1>6, <1>7, <2>1
<1>9. ASSUME NEW x \in 1..(n + 1 - i) PROVE (a \o b)[x] = p[i + x - 1]
  <2>1. CASE x = 1  BY <1>2, <1>8, <2>1
  <2>2. CASE x # 1
    <3>1. x - 1 \in 1..(n - i) /\ 1 + (x - 1) = x /\ i + (x - 1) = i + x - 1  BY <1>2, <2>2
    <3> QED  BY <1>8, <3>1
  <2> QED  BY <2>1, <2>2
<1>10. a \o b = [x \in 1..(n + 1 - i) |-> p[i + x - 1]]
  <2>1. 1 + (n - i) = n + 1 - i  BY <1>2
  <2>2. DOMAIN (a \o b) = 1..(n + 1 - i)  BY <1>8, <2>1
  <2>3. a \o b = [x \in DOMAIN (a \o b) |-> (a \o b)[x]]
    <3>1. a \o b \in Seq(C)  BY <1>8
    <3> DEFINE s == a \o b
    <3> HIDE DEF s
    <3>2. s \in Seq(C) => s = [x \in DOMAIN s |-> s[x]]  OBVIOUS
    <3> QED  BY <3>1, <3>2 DEF s
  <2> QED  BY <1>9, <2>2, <2>3
<1> QED  BY <1>4, <1>5, <1>10 DEF Remainder, n, a, b, C

\* and at the two ends.
LEMMA RestEnds ==
  ASSUME NEW p, p \in Seq(Elems(p))
  PROVE  Remainder(p, 1) = p /\ Remainder(p, Len(p) + 1) = <<>>
<1>1. DOMAIN p = 1..Len(p) /\ Len(p) \in Nat /\ p = [x \in 1..Len(p) |-> p[x]]  OBVIOUS
<1>2. Remainder(p, 1) = [x \in 1..Len(p) |-> p[x]]
  <2>1. Len(p) + 1 - 1 = Len(p) /\ \A x \in 1..Len(p) : 1 + x - 1 = x  BY <1>1
  <2> QED  BY <2>1 DEF Remainder
<1>3. Remainder(p, Len(p) + 1) = <<>>
  <2>1. 1..(Len(p) + 1 - (Len(p) + 1)) = {}  BY <1>1
  <2> QED  BY <2>1 DEF Remainder
<1> QED  BY <1>1, <1>2, <1>3

\* One step of the decoding.
DecodeAt(v, f, i) ==
  CASE i > Len(v)      -> <<>>
    [] Dashes(v, i, 3) -> <<"-", "/">> \o f[i + 3]
    [] Dashes(v, i, 2) /\ ~Dashes(v, i, 3) -> <<"/">> \o f[i + 2]
    [] OTHER           -> <<v[i]>> \o f[i + 1]

\* A step of the decoding looks only at what is decoded behind it.
LEMMA DecodeSame ==
  ASSUME NEW v, Len(v) \in Nat, NEW f, NEW g, NEW i \in 1..(Len(v) + 1), \A x \in (i + 1)..(Len(v) + 1) : f[x] = g[x]
  PROVE  DecodeAt(v, f, i) = DecodeAt(v, g, i)
<1>1. CASE i > Len(v)
  <2>1. ~Dashes(v, i, 3) /\ ~Dashes(v, i, 2)  BY <1>1 DEF Dashes
  <2> QED  BY <1>1, <2>1 DEF DecodeAt
<1>2. CASE Dashes(v, i, 3)
  <2>1. i + 3 \in (i + 1)..(Len(v) + 1) /\ ~(i > Len(v))  BY <1>2 DEF Dashes
  <2>2. f[i + 3] = g[i + 3]  BY <2>1
  <2> QED  BY <1>2, <2>1, <2>2 DEF DecodeAt
<1>3. CASE Dashes(v, i, 2) /\ ~Dashes(v, i, 3)
  <2>1. i + 2 \in (i + 1)..(Len(v) + 1) /\ ~(i > Len(v))  BY <1>3 DEF Dashes
  <2>2. f[i + 2] = g[i + 2]  BY <2>1
  <2> QED  BY <1>3, <2>1, <2>2 DEF DecodeAt
<1>4. CASE ~(i > Len(v)) /\ ~Dashes(v, i, 2) /\ ~Dashes(v, i, 3)
  <2>1. i + 1 \in (i + 1)..(Len(v) + 1)  BY <1>4
  <2>2. f[i + 1] = g[i + 1]  BY <2>1
  <2> QED  BY <1>4, <2>2 DEF DecodeAt
<1> QED  BY <1>1, <1>2, <1>3, <1>4

\* The decoding of a slug is what its definition says.
LEMMA DecodesDefined ==
  ASSUME NEW v, Len(v) \in Nat
  PROVE  \A i \in 1..(Len(v) + 1) : Decodes(v)[i] = DecodeAt(v, Decodes(v), i)
<1> DEFINE L == Len(v) + 1
           Unfold(f) == [i \in 1..L |-> DecodeAt(v, f, i)]
           Fits(f, k) == \A i \in 1..L : i + k > L => f[i] = DecodeAt(v, f, i)
           T == {k \in Nat : \E f : Fits(f, k)}
<1>0. L \in Nat  OBVIOUS
<1> HIDE DEF L
<1>1. 0 \in T  BY <1>0
<1>2. ASSUME NEW k \in Nat, k \in T PROVE k + 1 \in T
  <2>1. PICK f : Fits(f, k)  BY <1>2
  <2> DEFINE g == [i \in 1..L |-> IF i + k > L THEN f[i] ELSE DecodeAt(v, f, i)]
  <2>2. \A i \in 1..L : g[i] = DecodeAt(v, f, i)  BY <2>1
  <2>3. \A i \in 1..L : i + k > L => g[i] = f[i]  OBVIOUS
  <2> HIDE DEF g
  <2>4. ASSUME NEW i \in 1..L, i + (k + 1) > L PROVE DecodeAt(v, f, i) = DecodeAt(v, g, i)
    <3>1. \A x \in (i + 1)..L : x \in 1..L /\ x + k > L  BY <1>0, <2>4
    <3>2. \A x \in (i + 1)..L : f[x] = g[x]  BY <2>3, <3>1
    <3> QED  BY <3>2, DecodeSame DEF L
  <2>5. Fits(g, k + 1)  BY <2>2, <2>4
  <2> HIDE DEF Fits
  <2> QED  BY <2>5
<1>3. L \in T
  <2> HIDE DEF T
  <2> QED  BY <1>0, <1>1, <1>2, NatSet
<1>4. PICK f : \A i \in 1..L : f[i] = DecodeAt(v, f, i)  BY <1>0, <1>3
<1> DEFINE g == [i \in 1..L |-> f[i]]
<1>5. g = Unfold(g)
  <2>1. ASSUME NEW i \in 1..L PROVE g[i] = DecodeAt(v, g, i)
    <3>1. \A x \in (i + 1)..L : x \in 1..L  BY <1>0
    <3>2. \A x \in (i + 1)..L : f[x] = g[x]  BY <3>1
    <3>3. g[i] = DecodeAt(v, f, i)  BY <1>4
    <3> HIDE DEF g
    <3> QED  BY <3>2, <3>3, DecodeSame DEF L
  <2> QED  BY <2>1
<1>6. Decodes(v) = CHOOSE h : h = Unfold(h)  BY Zenon DEF Decodes, DecodeAt, L
<1> HIDE DEF Unfold, g
<1>7. Decodes(v) = Unfold(Decodes(v))  BY <1>5, <1>6, Zenon
<1> USE DEF Unfold
<1>8. ASSUME NEW i \in 1..L PROVE Decodes(v)[i] = DecodeAt(v, Decodes(v), i)
  <2>1. \A F : F = Unfold(F) => F[i] = DecodeAt(v, F, i)  OBVIOUS
  <2> HIDE DEF Unfold
  <2> QED  BY <1>7, <2>1
<1> QED  BY <1>8 DEF L

\* Two signs are one after the other.
LEMMA TwoSigns ==
  ASSUME NEW C, NEW x \in C, NEW y \in C, NEW r \in Seq(C)
  PROVE  <<x, y>> \o r = <<x>> \o (<<y>> \o r)
<1> DEFINE a == <<x>>
           b == <<y>>
<1>1. a \in Seq(C) /\ b \in Seq(C) /\ Len(a) = 1 /\ Len(b) = 1 /\ a[1] = x /\ b[1] = y  OBVIOUS
<1> HIDE DEF a, b
<1>2. \A s, t, u \in Seq(C) : (s \o t) \o u = s \o (t \o u)  BY ConcatAssociative
<1>3. (a \o b) \o r = a \o (b \o r)  BY <1>1, <1>2
<1>4. /\ a \o b \in Seq(C) /\ Len(a \o b) = 2
      /\ \A i \in 1..2 : (a \o b)[i] = IF i <= 1 THEN a[i] ELSE b[i - 1]
  BY <1>1, ConcatProperties
<1>5. a \o b = <<x, y>>
  <2> DEFINE s == a \o b
  <2>1. s \in Seq(C) /\ Len(s) = 2 /\ s[1] = x /\ s[2] = y  BY <1>1, <1>4
  <2> HIDE DEF s
  <2>2. s = <<x, y>>  BY <2>1
  <2> QED  BY <2>2 DEF s
<1> QED  BY <1>3, <1>5 DEF a, b

\* Two characters in front of what is left behind them.
LEMMA RestPair ==
  ASSUME NEW p, p \in Seq(Elems(p)), NEW i \in 1..Len(p), i < Len(p)
  PROVE  <<p[i], p[i + 1]>> \o Remainder(p, i + 2) = Remainder(p, i)
<1> DEFINE C == Elems(p)
<1>1. i + 1 \in 1..Len(p) /\ (i + 1) + 1 = i + 2  OBVIOUS
<1>2. <<p[i]>> \o Remainder(p, i + 1) = Remainder(p, i)  BY RestCons
<1>3. <<p[i + 1]>> \o Remainder(p, i + 2) = Remainder(p, i + 1)
  <2>1. <<p[i + 1]>> \o Remainder(p, (i + 1) + 1) = Remainder(p, i + 1)  BY <1>1, RestCons
  <2> QED  BY <1>1, <2>1
<1>4. p[i] \in C /\ p[i + 1] \in C
  <2>1. DOMAIN p = 1..Len(p)  OBVIOUS
  <2> QED  BY <1>1, <2>1 DEF Elems
<1>5. Remainder(p, i + 2) \in Seq(C)
  <2>1. CASE i + 2 \in 1..Len(p)  BY <2>1, RestCons
  <2>2. CASE i + 2 \notin 1..Len(p)
    <3>1. i + 2 = Len(p) + 1  BY <2>2
    <3>2. Remainder(p, i + 2) = <<>>  BY <3>1, RestEnds
    <3>3. <<>> \in Seq(C)  OBVIOUS
    <3> QED  BY <3>2, <3>3
  <2> QED  BY <2>1, <2>2
<1> HIDE DEF C
<1>6. <<p[i], p[i + 1]>> \o Remainder(p, i + 2) = <<p[i]>> \o (<<p[i + 1]>> \o Remainder(p, i + 2))
  <2> DEFINE x == p[i]
             y == p[i + 1]
             r == Remainder(p, i + 2)
  <2>1. x \in C /\ y \in C /\ r \in Seq(C)  BY <1>4, <1>5
  <2> HIDE DEF x, y, r
  <2>2. <<x, y>> \o r = <<x>> \o (<<y>> \o r)  BY <2>1, TwoSigns
  <2> QED  BY <2>2 DEF x, y, r
<1> QED  BY <1>2, <1>3, <1>6

\* The letters and digits, which are neither signs nor separators.
Letters == Lower \cup Digits

\* No letter is a dash or a slash.
LEMMA LettersAreNoSigns == \A c \in Letters : c # "-" /\ c # "/"
BY DEF Letters, Lower, Digits

\* The characters of a pipeline.
LEMMA PipelineShape ==
  ASSUME NEW p, p \in Seq(Elems(p)), PipelineOK(p)
  PROVE  /\ p # <<>> /\ Len(p) \in Nat \ {0} /\ DOMAIN p = 1..Len(p) /\ p[Len(p)] # "/"
         /\ \A i \in 1..Len(p) : p[i] \in Letters \cup {"-", "/"}
         /\ \A i \in 1..Len(p) : i < Len(p) /\ p[i] = "-" => p[i + 1] # "-"
         /\ \A i \in 1..Len(p) : i < Len(p) /\ p[i] = "/" => p[i + 1] \in Letters
<1>1. p # <<>> /\ p[Len(p)] # "/"  BY DEF PipelineOK
<1>2. DOMAIN p = 1..Len(p) /\ Len(p) \in Nat \ {0}  BY <1>1
<1>3. \A i \in 1..Len(p) : /\ p[i] \in Letters \cup {"-", "/"}
                           /\ i < Len(p) /\ p[i] = "-" => p[i + 1] # "-"
                           /\ i = 1 \/ p[i - 1] = "/" => p[i] \in Letters
  BY <1>2 DEF PipelineOK, Letters
<1>4. ASSUME NEW i \in 1..Len(p), i < Len(p), p[i] = "/" PROVE p[i + 1] \in Letters
  <2>1. i + 1 \in 1..Len(p) /\ (i + 1) - 1 = i  BY <1>2, <1>4
  <2>2. p[(i + 1) - 1] = "/"  BY <1>4, <2>1
  <2> QED  BY <1>3, <2>1, <2>2
<1> QED  BY <1>1, <1>2, <1>3, <1>4

\* A place of a pipeline at which its decoding starts anew: any but the "/" of a
\* run of three dashes.
Clean(p, i) == i = 1 \/ i = Len(p) + 1 \/ p[i - 1] # "-" \/ p[i] # "/"

\* One step of the decoding of a slug reads one or two characters.
LEMMA DecodesOne ==
  ASSUME NEW p, p \in Seq(Elems(p)), PipelineOK(p), NEW v, Len(v) \in Nat, NEW at, Standing(p, v, at), NEW f,
         NEW i \in 1..Len(p), Clean(p, i),
         \A j \in (i + 1)..(Len(p) + 1) : Clean(p, j) => f[at[j - 1] + 1] = Remainder(p, j)
  PROVE  DecodeAt(v, f, at[i - 1] + 1) = Remainder(p, i)
<1> DEFINE n == Len(p)
           k == at[i - 1] + 1
<1>1. /\ n \in Nat \ {0} /\ p[n] # "/"
      /\ \A x \in 1..n : p[x] \in Letters \cup {"-", "/"}
      /\ \A x \in 1..n : x < n /\ p[x] = "-" => p[x + 1] # "-"
      /\ \A x \in 1..n : x < n /\ p[x] = "/" => p[x + 1] \in Letters
  BY PipelineShape
<1>2. /\ at \in [0..n -> Nat] /\ at[n] = Len(v)
      /\ \A x \in 1..n : /\ at[x] = at[x - 1] + Width(p[x]) /\ at[x] <= Len(v)
                         /\ \A y \in (at[x - 1] + 1)..at[x] : v[y] = Sign(p[x])
  BY DEF Standing
<1> HIDE DEF n
<1>3. i \in 1..n /\ i - 1 \in 0..n /\ i \in 0..n /\ at[i - 1] \in Nat /\ at[i] \in Nat  BY <1>1, <1>2 DEF n
<1>4. \A j \in (i + 1)..(n + 1) : Clean(p, j) => f[at[j - 1] + 1] = Remainder(p, j)  BY DEF n
<1>5. i < n => i + 1 \in 1..n /\ at[i + 1] = at[i] + Width(p[i + 1]) /\ at[i + 1] <= Len(v)
               /\ \A y \in (at[i] + 1)..at[i + 1] : v[y] = Sign(p[i + 1])
  <2> SUFFICES ASSUME i < n
               PROVE  i + 1 \in 1..n /\ at[i + 1] = at[i] + Width(p[i + 1]) /\ at[i + 1] <= Len(v)
                      /\ \A y \in (at[i] + 1)..at[i + 1] : v[y] = Sign(p[i + 1])
    OBVIOUS
  <2>1. i + 1 \in 1..n /\ (i + 1) - 1 = i  BY <1>1, <1>3
  <2> QED  BY <1>2, <2>1
<1>6. CASE p[i] \in Letters \/ (p[i] = "-" /\ (i = n \/ p[i + 1] # "/"))
  <2>1. p[i] # "/" /\ at[i] = k /\ v[k] = p[i] /\ k <= Len(v)
    <3>1. p[i] # "/"  BY <1>6, LettersAreNoSigns
    <3>2. at[i] = k /\ k \in (at[i - 1] + 1)..at[i]  BY <1>2, <1>3, <3>1 DEF Width
    <3> QED  BY <1>2, <1>3, <3>1, <3>2 DEF Sign
  <2>2. ~Dashes(v, k, 2)
    <3> SUFFICES ASSUME k + 1 <= Len(v), v[k] = "-", v[k + 1] = "-" PROVE FALSE
      BY <1>3 DEF Dashes
    <3>1. p[i] = "-"  BY <2>1
    <3>2. i # n  BY <1>2, <2>1, <1>3
    <3>3. i < n /\ p[i + 1] # "/" /\ p[i + 1] # "-"  BY <1>1, <1>3, <1>6, <3>1, <3>2, LettersAreNoSigns
    <3>4. at[i + 1] = k + 1 /\ v[k + 1] = p[i + 1]  BY <1>3, <1>5, <2>1, <3>3 DEF Width, Sign
    <3> QED  BY <3>3, <3>4
  <2>3. ~Dashes(v, k, 3)  BY <1>3, <2>2 DEF Dashes
  <2>4. DecodeAt(v, f, k) = <<v[k]>> \o f[k + 1]  BY <2>1, <2>2, <2>3, <1>3 DEF DecodeAt
  <2>5. i + 1 \in (i + 1)..(n + 1) /\ (i + 1) - 1 = i  BY <1>1, <1>3
  <2>6. Clean(p, i + 1)
    <3>1. CASE i = n  BY <3>1 DEF Clean, n
    <3>2. CASE p[i] \in Letters
      <4>1. p[i] # "-"  BY <3>2, LettersAreNoSigns
      <4> QED  BY <2>5, <4>1 DEF Clean
    <3>3. CASE p[i + 1] # "/"  BY <3>3 DEF Clean
    <3> QED  BY <1>6, <3>1, <3>2, <3>3
  <2>7. f[k + 1] = Remainder(p, i + 1)
    <3>1. f[at[(i + 1) - 1] + 1] = Remainder(p, i + 1)  BY <1>4, <2>5, <2>6
    <3> QED  BY <2>1, <2>5, <3>1
  <2> QED  BY <2>1, <2>4, <2>7, RestCons DEF k
<1>7. CASE p[i] = "-" /\ i # n /\ p[i + 1] = "/"
  <2>1. i < n /\ at[i] = k /\ k \in (at[i - 1] + 1)..at[i]
    <3>1. i < n  BY <1>1, <1>3, <1>7
    <3>2. at[i] = k  BY <1>2, <1>3, <1>7 DEF Width
    <3> QED  BY <1>3, <3>1, <3>2
  <2>2. v[k] = "-"  BY <1>2, <1>3, <1>7, <2>1 DEF Sign
  <2>3. at[i + 1] = k + 2 /\ k + 2 <= Len(v) /\ v[k + 1] = "-" /\ v[k + 2] = "-"
    <3>1. at[i + 1] = k + 2 /\ k + 2 <= Len(v)  BY <1>5, <1>7, <2>1 DEF Width
    <3>2. k + 1 \in (at[i] + 1)..at[i + 1] /\ k + 2 \in (at[i] + 1)..at[i + 1]  BY <1>3, <2>1, <3>1
    <3> QED  BY <1>5, <1>7, <2>1, <3>1, <3>2 DEF Sign
  <2>4. Dashes(v, k, 3)
    <3>1. k \in Nat  BY <1>3
    <3>2. \A y \in k..(k + 3 - 1) : y = k \/ y = k + 1 \/ y = k + 2  BY <3>1
    <3> HIDE DEF k
    <3> QED  BY <2>2, <2>3, <3>1, <3>2 DEF Dashes
  <2>5. DecodeAt(v, f, k) = <<"-", "/">> \o f[k + 3]
    <3>1. ~(k > Len(v))  BY <1>3, <2>3
    <3> QED  BY <2>4, <3>1 DEF DecodeAt
  <2>6. i + 2 \in (i + 1)..(n + 1) /\ (i + 2) - 1 = i + 1  BY <1>1, <1>3, <2>1
  <2>7. Clean(p, i + 2)  BY <1>7, <2>6 DEF Clean
  <2>8. f[k + 3] = Remainder(p, i + 2)
    <3>1. f[at[(i + 2) - 1] + 1] = Remainder(p, i + 2)  BY <1>4, <2>6, <2>7
    <3>2. at[i + 1] + 1 = k + 3  BY <1>3, <2>3
    <3> QED  BY <2>6, <3>1, <3>2
  <2>9. <<p[i], p[i + 1]>> \o Remainder(p, i + 2) = Remainder(p, i)  BY <2>1, RestPair DEF n
  <2> QED  BY <1>7, <2>5, <2>8, <2>9 DEF k
<1>8. CASE p[i] = "/"
  <2>1. i < n /\ p[i + 1] \in Letters  BY <1>1, <1>3, <1>8
  <2>2. at[i] = k + 1 /\ v[k] = "-" /\ v[k + 1] = "-" /\ k + 1 <= Len(v)
    <3>1. at[i] = k + 1 /\ k + 1 <= Len(v)  BY <1>2, <1>3, <1>8 DEF Width
    <3>2. k \in (at[i - 1] + 1)..at[i] /\ k + 1 \in (at[i - 1] + 1)..at[i]  BY <1>3, <3>1
    <3> QED  BY <1>2, <1>3, <1>8, <3>1, <3>2 DEF Sign
  <2>3. v[k + 2] # "-" /\ k + 2 <= Len(v)
    <3>1. p[i + 1] # "/" /\ p[i + 1] # "-"  BY <2>1, LettersAreNoSigns
    <3>2. at[i + 1] = k + 2 /\ k + 2 \in (at[i] + 1)..at[i + 1]  BY <1>3, <1>5, <2>1, <2>2, <3>1 DEF Width
    <3> QED  BY <1>5, <2>1, <3>1, <3>2 DEF Sign
  <2>4. Dashes(v, k, 2) /\ ~Dashes(v, k, 3) /\ ~(k > Len(v))
    <3>1. k \in Nat  BY <1>3
    <3>2. \A y \in k..(k + 2 - 1) : y = k \/ y = k + 1  BY <3>1
    <3>3. k + 2 \in k..(k + 3 - 1)  BY <3>1
    <3> HIDE DEF k
    <3>4. Dashes(v, k, 2)  BY <2>2, <3>1, <3>2 DEF Dashes
    <3>5. ~Dashes(v, k, 3)  BY <2>3, <3>3 DEF Dashes
    <3> QED  BY <2>2, <3>1, <3>4, <3>5
  <2>5. DecodeAt(v, f, k) = <<"/">> \o f[k + 2]  BY <2>4 DEF DecodeAt
  <2>6. i + 1 \in (i + 1)..(n + 1) /\ (i + 1) - 1 = i  BY <1>1, <1>3
  <2>7. Clean(p, i + 1)  BY <1>8, <2>6 DEF Clean
  <2>8. f[k + 2] = Remainder(p, i + 1)
    <3>1. f[at[(i + 1) - 1] + 1] = Remainder(p, i + 1)  BY <1>4, <2>6, <2>7
    <3>2. at[i] + 1 = k + 2  BY <1>3, <2>2
    <3> QED  BY <2>6, <3>1, <3>2
  <2> QED  BY <1>8, <2>5, <2>8, RestCons DEF k
<1> QED  BY <1>1, <1>3, <1>6, <1>7, <1>8

\* Decoding a slug gives the pipeline back.
LEMMA SlugDecodes ==
  ASSUME NEW p, p \in Seq(Elems(p)), PipelineOK(p)
  PROVE  unslug(slug(p)) = p
<1> DEFINE n == Len(p)
           v == slug(p)
           f == Decodes(v)
<1>1. n \in Nat \ {0} /\ p # <<>>  BY PipelineShape
<1>2. Len(v) \in Nat /\ \E at : Standing(p, v, at)
  <2>1. v \in Seq(Elems(p) \cup {"-"}) /\ \E at : Standing(p, v, at)  BY <1>1, SlugPlaces
  <2> HIDE DEF v
  <2> QED  BY <2>1
<1> HIDE DEF v
<1>3. PICK at : Standing(p, v, at)  BY <1>2
<1>4. at \in [0..n -> Nat] /\ at[0] = 0 /\ at[n] = Len(v) /\ \A i \in 1..n : at[i] = at[i - 1] + Width(p[i]) /\ at[i] <= Len(v)
  BY <1>3 DEF Standing
<1>5. \A i \in 1..(Len(v) + 1) : f[i] = DecodeAt(v, f, i)  BY <1>2, DecodesDefined
<1> HIDE DEF f, n
<1> DEFINE T == {k \in Nat : \A i \in 1..(n + 1) : i + k >= n + 1 /\ Clean(p, i) => f[at[i - 1] + 1] = Remainder(p, i)}
<1>6. 0 \in T
  <2>1. at[n] + 1 \in 1..(Len(v) + 1) /\ at[n] + 1 > Len(v)  BY <1>2, <1>4
  <2>2. ~Dashes(v, at[n] + 1, 3) /\ ~Dashes(v, at[n] + 1, 2)  BY <1>2, <2>1 DEF Dashes
  <2>3. f[at[n] + 1] = <<>>  BY <1>5, <2>1, <2>2 DEF DecodeAt
  <2>4. Remainder(p, n + 1) = <<>>  BY RestEnds DEF n
  <2>5. \A i \in 1..(n + 1) : i + 0 >= n + 1 => i = n + 1 /\ i - 1 = n  BY <1>1
  <2> QED  BY <2>3, <2>4, <2>5
<1>7. ASSUME NEW k \in Nat, k \in T PROVE k + 1 \in T
  <2> SUFFICES ASSUME NEW i \in 1..(n + 1), i + (k + 1) >= n + 1, Clean(p, i) PROVE f[at[i - 1] + 1] = Remainder(p, i)  OBVIOUS
  <2>1. CASE i + k >= n + 1  BY <1>7, <2>1
  <2>2. CASE ~(i + k >= n + 1)
    <3>1. i \in 1..n /\ i - 1 \in 0..n  BY <1>1, <2>2
    <3>2. \A j \in (i + 1)..(n + 1) : j \in 1..(n + 1) /\ j + k >= n + 1  BY <1>1, <2>2
    <3>3. \A j \in (i + 1)..(n + 1) : Clean(p, j) => f[at[j - 1] + 1] = Remainder(p, j)  BY <1>7, <3>2
    <3>4. at[i - 1] + 1 \in 1..(Len(v) + 1)
      <4>1. at[i - 1] \in Nat /\ at[i] = at[i - 1] + Width(p[i]) /\ at[i] <= Len(v)  BY <1>4, <3>1
      <4>2. Width(p[i]) \in {1, 2}  BY DEF Width
      <4> QED  BY <1>2, <4>1, <4>2
    <3>5. DecodeAt(v, f, at[i - 1] + 1) = Remainder(p, i)
      <4> HIDE DEF T
      <4> QED  BY <1>2, <1>3, <3>1, <3>3, DecodesOne DEF n
    <3> QED  BY <1>5, <3>4, <3>5
  <2> QED  BY <2>1, <2>2
<1>8. n \in T
  <2> HIDE DEF T
  <2> QED  BY <1>1, <1>6, <1>7, NatSet
<1>9. f[1] = Remainder(p, 1)
  <2>1. 1 \in 1..(n + 1) /\ 1 + n >= n + 1 /\ 1 - 1 = 0  BY <1>1
  <2>2. Clean(p, 1)  BY DEF Clean
  <2>3. f[at[1 - 1] + 1] = Remainder(p, 1)  BY <1>8, <2>1, <2>2
  <2> QED  BY <1>4, <2>1, <2>3
<1>10. Remainder(p, 1) = p  BY RestEnds
<1> QED  BY <1>9, <1>10 DEF unslug, f, v
================================================================================
