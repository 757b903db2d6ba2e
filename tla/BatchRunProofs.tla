---------------------------- MODULE BatchRunProofs ----------------------------
(***************************************************************************)
(* What is proved of BatchRun for any feed: types, the promises that rest  *)
(* on the guards of the stages, that a completed batch has lost no row,    *)
(* and that the runner implements Record.                                  *)
(***************************************************************************)
EXTENDS BatchRun, RecordProofs

Stage == {"pre_check", "post_check"}

-------------------------------------------------------------------------------
\* The invariant

TablesOK ==
  /\ facts \subseteq Fact /\ state \subseteq facts
  /\ quarantine \subseteq [batch : Batch, stage : Stage, row : Row]
  /\ markers \subseteq Batch \X (TableSet \cup {Completion})
  /\ snapshots \subseteq [batch : Batch, try : Nat, target : TableSet \cup {"raw"} \cup Stage]
  /\ events \subseteq {"batch-started", "batch-completed"} \X Batch
  /\ attempts \in [Batch -> Nat]
  /\ basis \in [Batch \X TableSet -> SUBSET Batch]

\* A snapshot of a stage or of a fact table has left rows for the guard to see.
SnapshotsVisible ==
  \A s \in snapshots :
    /\ s.target \in Stage => \E q \in quarantine : q.batch = s.batch /\ q.stage = s.target
    /\ s.target \in TableSet => \E f \in facts : f.batch = s.batch /\ Table(f) = s.target

\* An attempt s of b, against the quarantine Q, the facts F and the markers M:
\* past a check it carries no row which that check quarantined, and what it is
\* about to append belongs to a table that has nothing of b, and has its twin.
AttemptOK(b, s, Q, F, M) ==
  /\ s \in AttemptState /\ s.rows \subseteq RowsOf[b]
  /\ \A q \in Q : q.batch = b /\ q.row \in s.rows =>
       \/ s.pc \in {"land", "announce", "pre_check"}
       \/ s.pc = "post_check" /\ q.stage = "post_check"
  /\ s.pc \notin {"twin", "append"} => s.novel = {}
  /\ \A r \in s.novel : r \in s.rows /\ TableOf[r] = Tables[s.next]
  /\ s.novel # {} => ~\E f \in F : f.batch = b /\ Table(f) = Tables[s.next]
  /\ s.pc = "append" => s.novel # {} /\ <<b, Tables[s.next]>> \in M

AttemptsOK ==
  /\ run = [b \in Batch |-> run[b]]
  /\ \A b \in Batch : run[b] # None => AttemptOK(b, run[b], quarantine, facts, markers)

\* The tables alone, which most steps of an attempt leave as they are.
DataOK == TablesOK /\ SnapshotsVisible /\ OneSnapshot /\ TwinBeforeFacts /\ OneJudgment

Inv == DataOK /\ AttemptsOK

LEMMA InvTypeOK == Inv => TypeOK
  BY DEF Inv, DataOK, TablesOK, AttemptsOK, AttemptOK, TypeOK, Stage

LEMMA InitInv == BatchInit => Inv
  BY DEF BatchInit, Init, Inv, DataOK, TablesOK, SnapshotsVisible, OneSnapshot, HoldsRows, TwinBeforeFacts,
         OneJudgment, AttemptsOK

\* The tables stay as they are.
LEMMA DataStays ==
  ASSUME DataOK, UNCHANGED <<facts, state, quarantine, markers, snapshots>>,
         attempts' \in [Batch -> Nat], basis' \in [Batch \X TableSet -> SUBSET Batch],
         events' \subseteq {"batch-started", "batch-completed"} \X Batch
  PROVE  DataOK'
  BY DEF DataOK, TablesOK, SnapshotsVisible, OneSnapshot, TwinBeforeFacts, OneJudgment, Table

\* b moves to the attempt s or ends, and writes rows of its own only.
LEMMA AttemptMoves ==
  ASSUME AttemptsOK, NEW b \in Batch, NEW s, run' = [run EXCEPT ![b] = s],
         s # None => AttemptOK(b, s, quarantine', facts', markers'),
         \A q \in quarantine' : q \in quarantine \/ q.batch = b,
         \A f \in facts' : f \in facts \/ f.batch = b,
         markers \subseteq markers'
  PROVE  AttemptsOK'
<1>1. run' = [c \in Batch |-> run'[c]]  BY DEF AttemptsOK
<1>2. ASSUME NEW c \in Batch, run'[c] # None
      PROVE  AttemptOK(c, run'[c], quarantine', facts', markers')
  <2>1. CASE c = b  BY <1>2, <2>1 DEF AttemptsOK
  <2>2. CASE c # b
    <3>1. run'[c] = run[c]  BY <2>2 DEF AttemptsOK
    <3>2. AttemptOK(c, run[c], quarantine, facts, markers)  BY <1>2, <3>1 DEF AttemptsOK
    <3> QED  BY <2>2, <3>1, <3>2 DEF AttemptOK
  <2> QED  BY <2>1, <2>2
<1> QED  BY <1>1, <1>2 DEF AttemptsOK

-------------------------------------------------------------------------------
\* Steps that write nothing a guard reads

LEMMA BeginInv == ASSUME Inv, NEW b \in Batch, Begin(b) PROVE Inv'
<1> DEFINE s == [pc |-> "land", next |-> 1, rows |-> {}, completed |-> {},
                 seen |-> {}, preds |-> {}, novel |-> {}]
<1>1. 1 \in 1..Len(Tables)  BY BatchRunAssumption
<1>2. AttemptOK(b, s, quarantine, facts, markers)  BY <1>1 DEF AttemptOK, AttemptState
<1>3. run' = [run EXCEPT ![b] = s]  BY DEF Begin
<1>4. AttemptsOK'  BY <1>2, <1>3, AttemptMoves DEF Inv, Begin
<1>5. attempts' \in [Batch -> Nat]  BY DEF Inv, DataOK, TablesOK, Begin
<1>6. DataOK'  BY <1>5, DataStays DEF Inv, DataOK, TablesOK, Begin
<1> QED  BY <1>4, <1>6 DEF Inv

LEMMA DieInv == ASSUME Inv, NEW b \in Batch, Die(b) PROVE Inv'
<1>1. AttemptsOK'  BY AttemptMoves DEF Inv, Die
<1>2. DataOK'  BY DataStays DEF Inv, DataOK, TablesOK, Die
<1> QED  BY <1>1, <1>2 DEF Inv

LEMMA AnnounceInv == ASSUME Inv, NEW b \in Batch, Announce(b) PROVE Inv'
<1> DEFINE rows == RowsOf[b]
           s == [run[b] EXCEPT !.pc = "pre_check", !.rows = rows]
<1>1. run[b] # None /\ run[b].pc = "announce" /\ run' = [run EXCEPT ![b] = s]
  BY DEF Announce, At, Inv, AttemptsOK
<1>2. /\ rows \subseteq Row /\ rows \subseteq RowsOf[b]
      /\ AttemptOK(b, run[b], quarantine, facts, markers)
  BY <1>1, BatchRunAssumption DEF Inv, AttemptsOK
<1> HIDE DEF rows
<1>3. AttemptOK(b, s, quarantine, facts, markers)
  BY <1>1, <1>2 DEF AttemptOK, AttemptState
<1>4. AttemptsOK'  BY <1>1, <1>3, AttemptMoves DEF Inv, Announce
<1>5. events' \subseteq {"batch-started", "batch-completed"} \X Batch
  BY DEF Inv, DataOK, TablesOK, Announce
<1>6. DataOK'  BY <1>5, DataStays DEF Inv, DataOK, TablesOK, Announce
<1> QED  BY <1>4, <1>6 DEF Inv

LEMMA ReadCompletionsInv == ASSUME Inv, NEW b \in Batch, ReadCompletions(b) PROVE Inv'
<1> DEFINE others == Completed \ {b}
           s == [run[b] EXCEPT !.completed = others, !.pc = "resolve"]
<1>1. run[b] # None /\ run[b].pc = "completions" /\ run' = [run EXCEPT ![b] = s]
  BY DEF ReadCompletions, At, Inv, AttemptsOK
<1>2. others \subseteq Batch /\ AttemptOK(b, run[b], quarantine, facts, markers)
  BY <1>1 DEF Inv, AttemptsOK, Completed
<1> HIDE DEF others
<1>3. AttemptOK(b, s, quarantine, facts, markers)
  BY <1>1, <1>2 DEF AttemptOK, AttemptState
<1>4. AttemptsOK'  BY <1>1, <1>3, AttemptMoves DEF Inv, ReadCompletions
<1>5. DataOK'  BY DataStays DEF Inv, DataOK, TablesOK, ReadCompletions
<1> QED  BY <1>4, <1>5 DEF Inv

LEMMA ResolveInv == ASSUME Inv, NEW b \in Batch, Resolve(b) PROVE Inv'
<1> DEFINE preds == Predecessors(b, run[b].completed, Twinned \ {b})
           seen == run[b].completed \cup (Twinned \ {b})
           s == [run[b] EXCEPT !.preds = preds, !.seen = seen, !.pc = "filter"]
<1>1. run[b] # None /\ run[b].pc = "resolve" /\ run' = [run EXCEPT ![b] = s]
  BY DEF Resolve, At, Inv, AttemptsOK
<1>2. run[b].completed \subseteq Batch /\ AttemptOK(b, run[b], quarantine, facts, markers)
  BY <1>1 DEF Inv, AttemptsOK, AttemptOK, AttemptState
<1>3. preds \subseteq Batch /\ seen \subseteq Batch
  BY <1>2 DEF Predecessors, LatestCompleted, Twinned
<1> HIDE DEF preds, seen
<1>4. AttemptOK(b, s, quarantine, facts, markers)
  BY <1>1, <1>2, <1>3 DEF AttemptOK, AttemptState
<1>5. AttemptsOK'  BY <1>1, <1>4, AttemptMoves DEF Inv, Resolve
<1>6. DataOK'  BY DataStays DEF Inv, DataOK, TablesOK, Resolve
<1> QED  BY <1>5, <1>6 DEF Inv

LEMMA PublishInv == ASSUME Inv, NEW b \in Batch, Publish(b) PROVE Inv'
<1>1. AttemptsOK'  BY AttemptMoves DEF Inv, Publish
<1>2. events' \subseteq {"batch-started", "batch-completed"} \X Batch
  BY DEF Inv, DataOK, TablesOK, Publish
<1>3. DataOK'  BY <1>2, DataStays DEF Inv, DataOK, TablesOK, Publish
<1> QED  BY <1>1, <1>3 DEF Inv

-------------------------------------------------------------------------------
\* Steps that write

\* The commit or fold loop goes on with nothing in hand.
LEMMA LoopMoves ==
  ASSUME AttemptsOK, NEW b \in Batch, run[b] # None,
         run[b].pc \in {"filter", "twin", "append", "fold"},
         NEW first \in {"filter", "fold"}, NEW exit \in {"complete", "publish"},
         NextTable(b, first, exit), quarantine' = quarantine,
         \A f \in facts' : f \in facts \/ f.batch = b,
         markers \subseteq markers'
  PROVE  AttemptsOK'
<1> DEFINE pc == IF run[b].next < Len(Tables) THEN first ELSE exit
           next == IF run[b].next < Len(Tables) THEN run[b].next + 1 ELSE 1
           s == [run[b] EXCEPT !.pc = pc, !.next = next, !.novel = {}]
<1>1. AttemptOK(b, run[b], quarantine, facts, markers)  BY DEF AttemptsOK
<1>2. run[b].next \in 1..Len(Tables)  BY <1>1 DEF AttemptOK, AttemptState
<1>3. next \in 1..Len(Tables)  BY <1>2, BatchRunAssumption
<1>4. run' = [run EXCEPT ![b] = s]  BY DEF NextTable, AttemptsOK
<1>5. pc \in {"filter", "fold", "complete", "publish"}  OBVIOUS
<1> HIDE DEF pc, next
<1>6. AttemptOK(b, s, quarantine, facts', markers')
  BY <1>1, <1>3, <1>5 DEF AttemptOK, AttemptState
<1> QED  BY <1>4, <1>6, AttemptMoves

LEMMA LandInv == ASSUME Inv, NEW b \in Batch, Land(b) PROVE Inv'
<1> DEFINE s == [run[b] EXCEPT !.pc = "announce"]
<1>1. run[b] # None /\ run[b].pc = "land" /\ run' = [run EXCEPT ![b] = s]
  BY DEF Land, At, Goto, Inv, AttemptsOK
<1>2. AttemptOK(b, run[b], quarantine, facts, markers)  BY <1>1 DEF Inv, AttemptsOK
<1>3. AttemptOK(b, s, quarantine, facts, markers)  BY <1>1, <1>2 DEF AttemptOK, AttemptState
<1>4. AttemptsOK'  BY <1>1, <1>3, AttemptMoves DEF Inv, Land
<1>5. CASE Landed(b)
  BY <1>4, <1>5, DataStays DEF Inv, DataOK, TablesOK, Land
<1>6. CASE ~Landed(b)
  <2>1. snapshots' = snapshots \cup {Snapshot(b, "raw")}  BY <1>6 DEF Land
  <2>2. TablesOK'  BY <2>1 DEF Inv, DataOK, TablesOK, Land, Snapshot
  <2>3. SnapshotsVisible'
    BY <2>1, BatchRunAssumption
    DEF Inv, DataOK, SnapshotsVisible, Land, Snapshot, Stage, Table
  <2>4. OneSnapshot'  BY <1>6, <2>1 DEF Inv, DataOK, OneSnapshot, HoldsRows, Landed, Snapshot
  <2>5. TwinBeforeFacts' /\ OneJudgment'
    BY DEF Inv, DataOK, TwinBeforeFacts, OneJudgment, Land, Table
  <2> QED  BY <1>4, <2>2, <2>3, <2>4, <2>5 DEF Inv, DataOK
<1> QED  BY <1>5, <1>6

LEMMA TwinInv == ASSUME Inv, NEW b \in Batch, Twin(b) PROVE Inv'
<1>1. /\ run[b] # None /\ run[b].pc = "twin"
      /\ AttemptOK(b, run[b], quarantine, facts, markers)
  BY DEF Twin, At, Inv, AttemptsOK
<1>2. Current(b) \in TableSet  BY <1>1 DEF Current, TableSet, AttemptOK, AttemptState
<1>3. markers' = markers \cup {<<b, Current(b)>>}  BY DEF Twin
<1>4. DataOK'
  BY <1>2, <1>3 DEF Inv, DataOK, TablesOK, SnapshotsVisible, OneSnapshot, TwinBeforeFacts,
                    OneJudgment, Table, Twin
<1>5. CASE run[b].novel = {}
  BY <1>1, <1>3, <1>4, <1>5, LoopMoves DEF Inv, Twin
<1>6. CASE run[b].novel # {}
  <2> DEFINE s == [run[b] EXCEPT !.pc = "append"]
  <2>1. run' = [run EXCEPT ![b] = s]  BY <1>6 DEF Twin, Goto, Inv, AttemptsOK
  <2>2. AttemptOK(b, s, quarantine, facts, markers')
    BY <1>1, <1>3, <1>6 DEF AttemptOK, AttemptState, Current
  <2>3. AttemptsOK'  BY <1>3, <2>1, <2>2, AttemptMoves DEF Inv, Twin
  <2> QED  BY <1>4, <2>3 DEF Inv
<1> QED  BY <1>5, <1>6

LEMMA CompleteInv == ASSUME Inv, NEW b \in Batch, Complete(b) PROVE Inv'
<1> DEFINE s == [run[b] EXCEPT !.pc = "fold"]
<1>1. run[b] # None /\ run[b].pc = "complete" /\ run' = [run EXCEPT ![b] = s]
  BY DEF Complete, At, Goto, Inv, AttemptsOK
<1>2. AttemptOK(b, run[b], quarantine, facts, markers)  BY <1>1 DEF Inv, AttemptsOK
<1>3. AttemptOK(b, s, quarantine, facts, markers')
  BY <1>1, <1>2 DEF AttemptOK, AttemptState
<1>4. AttemptsOK'  BY <1>1, <1>3, AttemptMoves DEF Inv, Complete
<1>5. DataOK'
  BY DEF Inv, DataOK, TablesOK, SnapshotsVisible, OneSnapshot, TwinBeforeFacts,
         OneJudgment, Table, Complete
<1> QED  BY <1>4, <1>5 DEF Inv

LEMMA FoldTableInv == ASSUME Inv, NEW b \in Batch, FoldTable(b) PROVE Inv'
<1>1. run[b] # None /\ run[b].pc = "fold"  BY DEF FoldTable, At
<1>2. AttemptsOK'  BY <1>1, LoopMoves DEF Inv, FoldTable
<1>3. state' \subseteq facts'
  BY DEF Inv, DataOK, TablesOK, FoldTable, Merged, Winners, FactsOf
<1>4. DataOK'
  BY <1>3 DEF Inv, DataOK, TablesOK, SnapshotsVisible, OneSnapshot, TwinBeforeFacts,
              OneJudgment, Table, FoldTable
<1> QED  BY <1>2, <1>4 DEF Inv

\* What b is to append belongs to the table its loop has reached.
LEMMA NovelOfTable ==
  ASSUME NEW b \in Batch, AttemptOK(b, run[b], quarantine, facts, markers)
  PROVE  /\ Current(b) \in TableSet
         /\ \A r \in run[b].novel : r \in Row /\ TableOf[r] = Current(b)
  BY DEF Current, TableSet, AttemptOK, AttemptState

LEMMA FilterInv == ASSUME Inv, NEW b \in Batch, Filter(b) PROVE Inv'
<1> DEFINE t == Current(b)
           novel == Novel(b, t)
<1>1. /\ run[b] # None /\ run[b].pc = "filter"
      /\ AttemptOK(b, run[b], quarantine, facts, markers)
  BY DEF Filter, At, Inv, AttemptsOK
<1>2. t \in TableSet  BY <1>1, NovelOfTable
<1>3. \A r \in novel : r \in run[b].rows /\ r \in Row /\ TableOf[r] = t
  BY <1>1 DEF Novel, AttemptOK, AttemptState
<1>4. UNCHANGED <<facts, state, quarantine, markers, snapshots, events, attempts>>
  BY DEF Filter
<1>5. basis' \in [Batch \X TableSet -> SUBSET Batch]
  BY <1>1, <1>2 DEF Filter, Decided, Inv, DataOK, TablesOK, AttemptOK, AttemptState
<1>6. DataOK'  BY <1>4, <1>5, DataStays DEF Inv, DataOK, TablesOK
<1>7. CASE HasBatch(b, t) /\ Goto(b, "twin")
  <2> DEFINE s == [run[b] EXCEPT !.pc = "twin"]
  <2>1. run' = [run EXCEPT ![b] = s]  BY <1>7 DEF Goto, Inv, AttemptsOK
  <2>2. AttemptOK(b, s, quarantine, facts, markers)
    BY <1>1 DEF AttemptOK, AttemptState
  <2> QED  BY <1>4, <1>6, <2>1, <2>2, AttemptMoves DEF Inv
<1>8. CASE NextTable(b, "filter", "complete")
  BY <1>1, <1>4, <1>6, <1>8, LoopMoves DEF Inv
<1>9. CASE ~HasBatch(b, t) /\ run' = [run EXCEPT ![b].novel = novel, ![b].pc = "twin"]
  <2> DEFINE s == [run[b] EXCEPT !.novel = novel, !.pc = "twin"]
  <2>1. run' = [run EXCEPT ![b] = s]  BY <1>9 DEF Inv, AttemptsOK
  <2>2. ~\E f \in facts : f.batch = b /\ Table(f) = Tables[run[b].next]
    BY <1>9 DEF HasBatch, FactsOf, Current
  <2>3. Tables[run[b].next] = t  BY DEF Current
  <2> HIDE DEF novel, t
  <2>4. AttemptOK(b, s, quarantine, facts, markers)
    BY <1>1, <1>3, <2>2, <2>3 DEF AttemptOK, AttemptState
  <2> QED  BY <1>4, <1>6, <2>1, <2>4, AttemptMoves DEF Inv
<1> QED  BY <1>7, <1>8, <1>9 DEF Filter

LEMMA AppendFactsInv == ASSUME Inv, NEW b \in Batch, AppendFacts(b) PROVE Inv'
<1> DEFINE t == Current(b)
           new == {[batch |-> b, row |-> r] : r \in run[b].novel}
<1>1. /\ run[b] # None /\ run[b].pc = "append"
      /\ AttemptOK(b, run[b], quarantine, facts, markers)
  BY DEF AppendFacts, At, Inv, AttemptsOK
<1>2. t \in TableSet /\ \A r \in run[b].novel : r \in Row /\ TableOf[r] = t
  BY <1>1, NovelOfTable
<1>3. /\ run[b].novel # {} /\ <<b, t>> \in markers
      /\ ~\E f \in facts : f.batch = b /\ Table(f) = t
  BY <1>1 DEF AttemptOK, Current
<1>4. /\ facts' = facts \cup new /\ snapshots' = snapshots \cup {Snapshot(b, t)}
      /\ UNCHANGED <<state, quarantine, markers, events, attempts>>
  BY DEF AppendFacts
<1>5. \A f \in new : f \in Fact /\ f.batch = b /\ Table(f) = t /\ f.row \in run[b].novel
  BY <1>2 DEF Fact, Table
<1>6. PICK n \in new : TRUE  BY <1>3
<1> HIDE DEF t, new
<1>7. TablesOK'
  <2>1. basis' \in [Batch \X TableSet -> SUBSET Batch]
    BY <1>1, <1>2
    DEF AppendFacts, Decided, Inv, DataOK, TablesOK, AttemptOK, AttemptState, t
  <2> QED  BY <1>2, <1>4, <1>5, <2>1 DEF Inv, DataOK, TablesOK, Snapshot
<1>8. SnapshotsVisible'
  <2>1. t \notin Stage  BY <1>2, BatchRunAssumption DEF Stage
  <2> QED
    BY <1>4, <1>5, <1>6, <2>1 DEF Inv, DataOK, SnapshotsVisible, Snapshot, Table
<1>9. OneSnapshot'
  <2>1. ~\E s \in snapshots : s.batch = b /\ s.target = t
    BY <1>2, <1>3 DEF Inv, DataOK, SnapshotsVisible
  <2> QED  BY <1>4, <2>1 DEF Inv, DataOK, OneSnapshot, Snapshot
<1>10. TwinBeforeFacts'
  BY <1>3, <1>4, <1>5 DEF Inv, DataOK, TwinBeforeFacts, Table
<1>11. OneJudgment'
  <2>1. \A q \in quarantine : q.batch = b => q.row \notin run[b].novel
    BY <1>1 DEF AttemptOK
  <2> QED  BY <1>4, <1>5, <2>1 DEF Inv, DataOK, OneJudgment
<1>12. AttemptsOK'
  <2>1. \A f \in facts' : f \in facts \/ f.batch = b  BY <1>4, <1>5
  <2> QED  BY <1>1, <1>4, <2>1, LoopMoves DEF Inv, AppendFacts
<1> QED  BY <1>7, <1>8, <1>9, <1>10, <1>11, <1>12 DEF Inv, DataOK

\* Without a fact in any table the batch has none at all.
LEMMA NoFact ==
  ASSUME TablesOK, NEW b \in Batch, ~AnyFactPresent(b)
  PROVE  \A f \in facts : f.batch # b
<1>1. ASSUME NEW f \in facts, f.batch = b PROVE FALSE
  <2>1. f.row \in Row  BY DEF TablesOK, Fact
  <2>2. Table(f) \in TableSet  BY <2>1, BatchRunAssumption DEF Table
  <2>3. f \in FactsOf(b, Table(f))  BY <1>1 DEF FactsOf
  <2> QED  BY <2>2, <2>3 DEF AnyFactPresent
<1> QED  BY <1>1

\* Whichever door the stage takes: it admits none of the rows it quarantined,
\* and quarantines rows only when it never did before and no fact exists.
LEMMA AdmitInv ==
  ASSUME Inv, NEW b \in Batch, NEW stage \in Stage, At(b, stage),
         NEW rows \in SUBSET run[b].rows, NEW violating \in SUBSET Row,
         rows \cap violating = {}, rows \cap Quarantined(b, stage) = {},
         violating # {} => Quarantined(b, stage) = {} /\ ~AnyFactPresent(b),
         Admit(b, stage, rows, violating),
         UNCHANGED <<facts, state, markers, events, attempts, basis>>
  PROVE  Inv'
<1> DEFINE new == {[batch |-> b, stage |-> stage, row |-> r] : r \in violating}
           next == IF stage = "pre_check" THEN "post_check" ELSE "completions"
           s == [run[b] EXCEPT !.rows = rows, !.pc = next]
<1>1. /\ run[b] # None /\ run[b].pc = stage
      /\ AttemptOK(b, run[b], quarantine, facts, markers)
  BY DEF At, Inv, AttemptsOK
<1>2. run' = [run EXCEPT ![b] = s]  BY DEF Admit, Inv, AttemptsOK
<1>3. quarantine' = quarantine \cup new  BY DEF Admit
<1>4. \A q \in new : q.batch = b /\ q.stage = stage /\ q.row \in violating
  OBVIOUS
<1>5. new \subseteq [batch : Batch, stage : Stage, row : Row]  OBVIOUS
<1>6. \A q \in quarantine : q.batch = b /\ q.stage = stage => q.row \in Quarantined(b, stage)
  BY DEF Quarantined
<1>7. AttemptOK(b, s, quarantine', facts, markers)
  <2>1. s \in AttemptState  BY <1>1 DEF AttemptOK, AttemptState
  <2>2. ASSUME NEW q \in quarantine', q.batch = b, q.row \in rows
        PROVE  next = "post_check" /\ q.stage = "post_check"
    <3>1. q \in quarantine  BY <1>3, <1>4, <2>2
    <3>2. q.stage # stage  BY <1>6, <2>2, <3>1
    <3>3. q.stage \in Stage  BY <3>1 DEF Inv, DataOK, TablesOK
    <3>4. q.row \in run[b].rows  BY <2>2
    <3>5. stage = "pre_check" \/ q.stage = "post_check"
      BY <1>1, <2>2, <3>1, <3>4 DEF AttemptOK, Stage
    <3> QED  BY <3>2, <3>3, <3>5 DEF Stage
  <2>3. run[b].novel = {}  BY <1>1 DEF AttemptOK, Stage
  <2>4. s.pc = next /\ s.rows = rows /\ rows \subseteq RowsOf[b] /\ s.novel = {}
    BY <1>1, <2>3 DEF AttemptOK, AttemptState
  <2>5. next \in {"post_check", "completions"}  OBVIOUS
  <2> HIDE DEF s, next
  <2> QED  BY <2>1, <2>2, <2>4, <2>5 DEF AttemptOK
<1>8. AttemptsOK'  BY <1>2, <1>3, <1>4, <1>7, AttemptMoves DEF Inv
<1> HIDE DEF new, s, next
<1>9. CASE violating = {}
  <2>1. new = {} /\ snapshots' = snapshots  BY <1>9 DEF Admit, new
  <2>2. DataOK'  BY <1>3, <2>1, DataStays DEF Inv, DataOK, TablesOK
  <2> QED  BY <1>8, <2>2 DEF Inv
<1>10. CASE violating # {}
  <2>1. snapshots' = snapshots \cup {Snapshot(b, stage)}  BY <1>10 DEF Admit
  <2>2. TablesOK'
    BY <1>3, <1>5, <2>1 DEF Inv, DataOK, TablesOK, Snapshot
  <2>3. \E q \in new : TRUE  BY <1>10 DEF new
  <2>4. SnapshotsVisible'
    <3>1. stage \notin TableSet  BY BatchRunAssumption DEF Stage
    <3> QED
      BY <1>3, <1>4, <2>1, <2>3, <3>1 DEF Inv, DataOK, SnapshotsVisible, Snapshot, Table
  <2>5. OneSnapshot'
    <3>1. ~\E q \in quarantine : q.batch = b /\ q.stage = stage  BY <1>6, <1>10
    <3>2. ~\E q \in snapshots : q.batch = b /\ q.target = stage
      BY <3>1 DEF Inv, DataOK, SnapshotsVisible
    <3> QED  BY <2>1, <3>2 DEF Inv, DataOK, OneSnapshot, Snapshot
  <2>6. OneJudgment'
    <3>1. \A f \in facts : f.batch # b  BY <1>10, NoFact DEF Inv, DataOK
    <3> QED  BY <1>3, <1>4, <3>1 DEF Inv, DataOK, OneJudgment
  <2>7. TwinBeforeFacts'  BY DEF Inv, DataOK, TwinBeforeFacts, Table
  <2> QED  BY <1>8, <2>2, <2>4, <2>5, <2>6, <2>7 DEF Inv, DataOK
<1> QED  BY <1>9, <1>10

LEMMA CheckInv == ASSUME Inv, NEW b \in Batch, NEW stage \in Stage, Check(b, stage) PROVE Inv'
<1> DEFINE rows == run[b].rows
<1>1. At(b, stage) /\ UNCHANGED <<facts, state, markers, events, attempts, basis>>
  BY DEF Check
<1>2. rows \subseteq Row  BY <1>1 DEF At, Inv, AttemptsOK, AttemptOK, AttemptState
<1>3. Shaped(stage, rows) \subseteq rows  BY DEF Shaped
<1> HIDE DEF rows
<1>4. CASE DurableSubtract(b, stage)
  <2> DEFINE admitted == Shaped(stage, rows) \ Quarantined(b, stage)
  <2>1. Admit(b, stage, admitted, {})  BY <1>4 DEF DurableSubtract, rows
  <2>2. admitted \in SUBSET rows /\ admitted \cap Quarantined(b, stage) = {}  BY <1>3
  <2> HIDE DEF admitted
  <2> QED  BY <1>1, <2>1, <2>2, AdmitInv DEF rows
<1>5. CASE DurableAuthority(b, stage)
  BY <1>1, <1>3, <1>5, AdmitInv DEF DurableAuthority, rows
<1>6. CASE Fresh(b, stage)
  <2>1. PICK V \in Violations(stage, rows) : Admit(b, stage, rows \ V, V)
    BY <1>6 DEF Fresh, rows
  <2>2. V \subseteq Row  BY <1>2 DEF Violations
  <2>3. Quarantined(b, stage) = {} /\ ~AnyFactPresent(b)  BY <1>6 DEF Fresh
  <2> DEFINE admitted == rows \ V
  <2>4. admitted \in SUBSET rows /\ admitted \cap V = {}  OBVIOUS
  <2>5. Admit(b, stage, admitted, V)  BY <2>1
  <2> HIDE DEF admitted
  <2> QED  BY <1>1, <2>2, <2>3, <2>4, <2>5, AdmitInv DEF rows
<1> QED  BY <1>4, <1>5, <1>6 DEF Check

-------------------------------------------------------------------------------
LEMMA StepInv == ASSUME Inv, [BatchNext]_vars PROVE Inv'
<1>1. ASSUME NEW b \in Batch, Begin(b) PROVE Inv'  BY <1>1, BeginInv
<1>2. ASSUME NEW b \in Batch, Die(b) PROVE Inv'  BY <1>2, DieInv
<1>3. ASSUME NEW b \in Batch, Advance(b) PROVE Inv'
  <2>1. ASSUME NEW stage \in Stage, Check(b, stage) PROVE Inv'  BY <2>1, CheckInv
  <2> QED
    BY <1>3, <2>1, LandInv, AnnounceInv, ReadCompletionsInv, ResolveInv, FilterInv, TwinInv,
       AppendFactsInv, CompleteInv, FoldTableInv, PublishInv DEF Advance, Stage
<1>4. CASE UNCHANGED vars
  BY <1>4 DEF vars, Inv, DataOK, TablesOK, SnapshotsVisible, OneSnapshot, TwinBeforeFacts,
              OneJudgment, Table, AttemptsOK
<1> QED  BY <1>1, <1>2, <1>3, <1>4 DEF BatchNext

LEMMA Invariant == BatchSpec => []Inv
  BY InitInv, StepInv, PTL DEF BatchSpec

\* Every variable holds what the code stores in it.
THEOREM BatchTypes == BatchSpec => []TypeOK
  BY Invariant, InvTypeOK, PTL

\* Each batch writes at most one snapshot that holds rows per stage and table,
\* however often it is run again and wherever its attempts died.
THEOREM SnapshotsUnique == BatchSpec => []OneSnapshot
<1>1. Inv => OneSnapshot  BY DEF Inv, DataOK
<1> QED  BY <1>1, Invariant, PTL

\* No fact is in a table without the twin that shows it to sibling batches.
THEOREM FactsHaveTwins == BatchSpec => []TwinBeforeFacts
<1>1. Inv => TwinBeforeFacts  BY DEF Inv, DataOK
<1> QED  BY <1>1, Invariant, PTL

\* No row of a batch is both admitted as a fact and quarantined, though later
\* attempts may judge differently.
THEOREM JudgedOnce == BatchSpec => []OneJudgment
<1>1. Inv => OneJudgment  BY DEF Inv, DataOK
<1> QED  BY <1>1, Invariant, PTL

-------------------------------------------------------------------------------
\* What has become of a row

\* The row r of b is quarantined, or it is a fact of b, or that of a batch of C
\* which none of the batches seen is later than.
Accounted(b, r, seen, Q, F, C) ==
  \/ \E q \in Q : q.batch = b /\ q.row = r
  \/ \E f \in F : f.row = r /\ (f.batch = b \/ (f.batch \in C /\ \A c \in seen : c <= f.batch))

\* Every row of b in table t is accounted for, by what b had seen when it decided.
TableAccounted(b, t, B, Q, F, C) ==
  \A r \in RowsOf[b] : TableOf[r] = t => Accounted(b, r, B[<<b, t>>], Q, F, C)

\* pre_check has quarantined the malformed rows of b.
MalformedOut(b, Q) ==
  \A r \in RowsOf[b] \cap Malformed : \E q \in Q : q.batch = b /\ q.row = r

BeforeCheck == {"land", "announce", "pre_check"}

InCommit == {"filter", "twin", "append"}

\* The attempt s of b: no batch it has seen is later than its predecessors; what
\* it no longer carries is quarantined; of a table in hand each row is to be
\* appended or accounted for; the tables behind are.
CarriesAll(b, s, B, Q, F, C) ==
  /\ s.completed \subseteq C /\ s.preds \subseteq C
  /\ \A p \in s.preds : \A c \in s.seen : c <= p
  /\ s.pc = "pre_check" => s.rows = RowsOf[b]
  /\ s.pc \notin BeforeCheck =>
       /\ MalformedOut(b, Q)
       /\ \A r \in RowsOf[b] \ s.rows : \E q \in Q : q.batch = b /\ q.row = r
  /\ s.pc \notin InCommit \cup {"fold"} => s.next = 1
  /\ s.pc = "twin" /\ s.novel = {} => TableAccounted(b, Tables[s.next], B, Q, F, C)
  /\ s.pc \in {"twin", "append"} /\ s.novel # {} =>
       \A r \in RowsOf[b] : TableOf[r] = Tables[s.next] => r \in s.novel \/ Accounted(b, r, s.seen, Q, F, C)
  /\ s.pc \in InCommit =>
       \A i \in 1..Len(Tables) : i < s.next => TableAccounted(b, Tables[i], B, Q, F, C)
  /\ s.pc \in {"complete", "fold", "publish"} =>
       \A t \in TableSet : TableAccounted(b, t, B, Q, F, C)

\* What outlives the attempts: who judged b, judged its malformed rows; a table
\* that has b accounts for its rows there; a completed batch for all.
KeepsAll(b, B, Q, F, C) ==
  /\ (\E q \in Q : q.batch = b) \/ (\E f \in F : f.batch = b) => MalformedOut(b, Q)
  /\ \A t \in TableSet : b \in C \/ (\E f \in F : f.batch = b /\ Table(f) = t)
       => TableAccounted(b, t, B, Q, F, C)

AllKept ==
  \A b \in Batch :
    /\ KeepsAll(b, basis, quarantine, facts, Completed)
    /\ run[b] # None => CarriesAll(b, run[b], basis, quarantine, facts, Completed)

LossInv == Inv /\ AllKept

-------------------------------------------------------------------------------
\* Quarantine, facts and completions only grow, and a row stays accounted for.
LEMMA AccountedGrows ==
  ASSUME NEW b, NEW r, NEW seen, NEW Q, NEW F, NEW C, NEW Q2, NEW F2, NEW C2,
         Q \subseteq Q2, F \subseteq F2, C \subseteq C2, Accounted(b, r, seen, Q, F, C)
  PROVE  Accounted(b, r, seen, Q2, F2, C2)
  BY DEF Accounted

LEMMA TableStays ==
  ASSUME NEW b, NEW t, basis'[<<b, t>>] = basis[<<b, t>>],
         quarantine \subseteq quarantine', facts \subseteq facts', Completed \subseteq Completed',
         TableAccounted(b, t, basis, quarantine, facts, Completed)
  PROVE  TableAccounted(b, t, basis', quarantine', facts', Completed')
  BY AccountedGrows DEF TableAccounted

\* A step of b keeps what the other batches keep.
LEMMA OthersKeep ==
  ASSUME LossInv, NEW b \in Batch,
         \A c \in Batch \ {b} : run'[c] = run[c],
         \A c \in Batch \ {b} : \A t \in TableSet : basis'[<<c, t>>] = basis[<<c, t>>],
         \A q \in quarantine' : q \in quarantine \/ q.batch = b,
         \A f \in facts' : f \in facts \/ f.batch = b,
         quarantine \subseteq quarantine', facts \subseteq facts',
         Completed \subseteq Completed', Completed' \subseteq Completed \cup {b},
         KeepsAll(b, basis', quarantine', facts', Completed'),
         run'[b] # None => CarriesAll(b, run'[b], basis', quarantine', facts', Completed')
  PROVE  AllKept'
<1>1. ASSUME NEW c \in Batch, c # b
      PROVE  /\ KeepsAll(c, basis', quarantine', facts', Completed')
             /\ run'[c] # None => CarriesAll(c, run'[c], basis', quarantine', facts', Completed')
  <2>1. KeepsAll(c, basis, quarantine, facts, Completed)  BY DEF LossInv, AllKept
  <2>2. \A r, seen : Accounted(c, r, seen, quarantine, facts, Completed)
                     => Accounted(c, r, seen, quarantine', facts', Completed')
    BY AccountedGrows
  <2>3. \A t \in TableSet : TableAccounted(c, t, basis, quarantine, facts, Completed)
                            => TableAccounted(c, t, basis', quarantine', facts', Completed')
    BY <1>1, TableStays
  <2>4. MalformedOut(c, quarantine) => MalformedOut(c, quarantine')  BY DEF MalformedOut
  <2>5. KeepsAll(c, basis', quarantine', facts', Completed')
    BY <1>1, <2>1, <2>3, <2>4 DEF KeepsAll
  <2>6. ASSUME run'[c] # None
        PROVE  CarriesAll(c, run'[c], basis', quarantine', facts', Completed')
    <3> DEFINE s == run[c]
    <3>1. run'[c] = s /\ CarriesAll(c, s, basis, quarantine, facts, Completed)
      BY <1>1, <2>6 DEF LossInv, AllKept
    <3>2. \A i \in 1..Len(Tables) : Tables[i] \in TableSet  BY DEF TableSet
    <3>3. s.pc = "twin" => s.next \in 1..Len(Tables)
      BY <1>1, <2>6, <3>1 DEF LossInv, Inv, AttemptsOK, AttemptOK, AttemptState
    <3> HIDE DEF s
    <3> QED  BY <2>2, <2>3, <2>4, <3>1, <3>2, <3>3 DEF CarriesAll
  <2> QED  BY <2>5, <2>6
<1> QED  BY <1>1 DEF AllKept

\* A step of b that writes none of the tables a row is accounted for by.
LEMMA ControlStep ==
  ASSUME LossInv, NEW b \in Batch, \A c \in Batch \ {b} : run'[c] = run[c],
         UNCHANGED <<quarantine, facts, markers, basis>>,
         run'[b] # None => CarriesAll(b, run'[b], basis, quarantine, facts, Completed)
  PROVE  AllKept'
<1>1. Completed' = Completed  BY DEF Completed
<1>2. KeepsAll(b, basis, quarantine, facts, Completed)  BY DEF LossInv, AllKept
<1> QED  BY <1>1, <1>2, OthersKeep

-------------------------------------------------------------------------------
\* The steps

LEMMA BeginKeeps == ASSUME LossInv, NEW b \in Batch, Begin(b) PROVE AllKept'
<1> DEFINE s == [pc |-> "land", next |-> 1, rows |-> {}, completed |-> {},
                 seen |-> {}, preds |-> {}, novel |-> {}]
<1>1. run = [c \in Batch |-> run[c]] /\ run' = [run EXCEPT ![b] = s]
  BY DEF Begin, LossInv, Inv, AttemptsOK
<1>2. run'[b] = s /\ \A c \in Batch \ {b} : run'[c] = run[c]  BY <1>1
<1>3. CarriesAll(b, s, basis, quarantine, facts, Completed)
  BY DEF CarriesAll, BeforeCheck, InCommit
<1> HIDE DEF s
<1> QED  BY <1>2, <1>3, ControlStep DEF Begin

LEMMA EndKeeps == ASSUME LossInv, NEW b \in Batch, Die(b) \/ Publish(b) PROVE AllKept'
<1>1. run = [c \in Batch |-> run[c]] /\ run' = [run EXCEPT ![b] = None]
  BY DEF Die, Publish, LossInv, Inv, AttemptsOK
<1>2. run'[b] = None /\ \A c \in Batch \ {b} : run'[c] = run[c]  BY <1>1
<1>3. UNCHANGED <<quarantine, facts, markers, basis>>  BY DEF Die, Publish
<1> QED  BY <1>2, <1>3, ControlStep

\* What is known of the attempt before its step.
LEMMA Running ==
  ASSUME LossInv, NEW b \in Batch, run[b] # None
  PROVE  /\ run = [c \in Batch |-> run[c]] /\ run[b] \in AttemptState
         /\ AttemptOK(b, run[b], quarantine, facts, markers)
         /\ KeepsAll(b, basis, quarantine, facts, Completed)
         /\ CarriesAll(b, run[b], basis, quarantine, facts, Completed)
  BY DEF LossInv, AllKept, Inv, AttemptsOK, AttemptOK

LEMMA LandKeeps == ASSUME LossInv, NEW b \in Batch, Land(b) PROVE AllKept'
<1> DEFINE s == [run[b] EXCEPT !.pc = "announce"]
<1>1. run[b] # None /\ run[b].pc = "land"  BY DEF Land, At
<1>2. run' = [run EXCEPT ![b] = s] /\ UNCHANGED <<quarantine, facts, markers, basis>>
  BY <1>1, Running DEF Land, Goto
<1>3. run'[b] = s /\ \A c \in Batch \ {b} : run'[c] = run[c]  BY <1>1, <1>2, Running
<1>4. /\ s.pc = "announce" /\ s.next = run[b].next /\ s.completed = run[b].completed
      /\ s.preds = run[b].preds /\ s.seen = run[b].seen
  BY <1>1, Running DEF AttemptState
<1> HIDE DEF s
<1>5. CarriesAll(b, s, basis, quarantine, facts, Completed)
  BY <1>1, <1>4, Running DEF CarriesAll, BeforeCheck, InCommit
<1> QED  BY <1>2, <1>3, <1>5, ControlStep

LEMMA AnnounceKeeps == ASSUME LossInv, NEW b \in Batch, Announce(b) PROVE AllKept'
<1> DEFINE s == [run[b] EXCEPT !.pc = "pre_check", !.rows = RowsOf[b]]
<1>1. run[b] # None /\ run[b].pc = "announce"  BY DEF Announce, At
<1>2. run' = [run EXCEPT ![b] = s] /\ UNCHANGED <<quarantine, facts, markers, basis>>
  BY <1>1, Running DEF Announce
<1>3. run'[b] = s /\ \A c \in Batch \ {b} : run'[c] = run[c]  BY <1>1, <1>2, Running
<1>4. /\ s.pc = "pre_check" /\ s.next = run[b].next /\ s.completed = run[b].completed
      /\ s.preds = run[b].preds /\ s.seen = run[b].seen /\ s.rows = RowsOf[b]
  BY <1>1, Running DEF AttemptState
<1> HIDE DEF s
<1>5. CarriesAll(b, s, basis, quarantine, facts, Completed)
  BY <1>1, <1>4, Running DEF CarriesAll, BeforeCheck, InCommit
<1> QED  BY <1>2, <1>3, <1>5, ControlStep

LEMMA ReadCompletionsKeeps == ASSUME LossInv, NEW b \in Batch, ReadCompletions(b) PROVE AllKept'
<1> DEFINE others == Completed \ {b}
           s == [run[b] EXCEPT !.completed = others, !.pc = "resolve"]
<1>1. run[b] # None /\ run[b].pc = "completions"  BY DEF ReadCompletions, At
<1>2. run' = [run EXCEPT ![b] = s] /\ UNCHANGED <<quarantine, facts, markers, basis>>
  BY <1>1, Running DEF ReadCompletions
<1>3. run'[b] = s /\ \A c \in Batch \ {b} : run'[c] = run[c]  BY <1>1, <1>2, Running
<1>4. others \subseteq Completed  OBVIOUS
<1> HIDE DEF others
<1>5. /\ s.pc = "resolve" /\ s.next = run[b].next /\ s.completed = others
      /\ s.preds = run[b].preds /\ s.seen = run[b].seen /\ s.rows = run[b].rows
  BY <1>1, Running DEF AttemptState
<1> HIDE DEF s
<1>6. CarriesAll(b, s, basis, quarantine, facts, Completed)
  BY <1>1, <1>4, <1>5, Running DEF CarriesAll, BeforeCheck, InCommit
<1> QED  BY <1>2, <1>3, <1>6, ControlStep

LEMMA ResolveKeeps == ASSUME LossInv, NEW b \in Batch, Resolve(b) PROVE AllKept'
<1> DEFINE preds == Predecessors(b, run[b].completed, Twinned \ {b})
           seen == run[b].completed \cup (Twinned \ {b})
           s == [run[b] EXCEPT !.preds = preds, !.seen = seen, !.pc = "filter"]
<1>1. run[b] # None /\ run[b].pc = "resolve"  BY DEF Resolve, At
<1>2. run' = [run EXCEPT ![b] = s] /\ UNCHANGED <<quarantine, facts, markers, basis>>
  BY <1>1, Running DEF Resolve
<1>3. run'[b] = s /\ \A c \in Batch \ {b} : run'[c] = run[c]  BY <1>1, <1>2, Running
<1>4. preds \subseteq run[b].completed /\ \A p \in preds : \A c \in seen : c <= p
  BY DEF Predecessors, LatestCompleted
<1> HIDE DEF preds, seen
<1>5. /\ s.pc = "filter" /\ s.next = run[b].next /\ s.completed = run[b].completed
      /\ s.preds = preds /\ s.seen = seen /\ s.rows = run[b].rows
  BY <1>1, Running DEF AttemptState
<1> HIDE DEF s
<1>6. s.next = 1 /\ s.preds \subseteq Completed
  BY <1>1, <1>4, <1>5, Running DEF CarriesAll, BeforeCheck, InCommit
<1>7. CarriesAll(b, s, basis, quarantine, facts, Completed)
  BY <1>1, <1>4, <1>5, <1>6, Running DEF CarriesAll, BeforeCheck, InCommit
<1> QED  BY <1>2, <1>3, <1>7, ControlStep

\* Whichever door is taken: the rows a stage does not admit are quarantined.
LEMMA AdmitKeeps ==
  ASSUME LossInv, NEW b \in Batch, NEW stage \in Stage, At(b, stage), NEW rows, NEW V,
         Admit(b, stage, rows, V), UNCHANGED <<facts, markers, basis>>,
         MalformedOut(b, quarantine'),
         \A r \in RowsOf[b] \ rows : \E q \in quarantine' : q.batch = b /\ q.row = r
  PROVE  AllKept'
<1> DEFINE next == IF stage = "pre_check" THEN "post_check" ELSE "completions"
           s == [run[b] EXCEPT !.rows = rows, !.pc = next]
<1>1. run[b] # None /\ run[b].pc = stage /\ stage \in {"pre_check", "post_check"}
  BY DEF At, Stage
<1>2. run' = [run EXCEPT ![b] = s]  BY <1>1, Running DEF Admit
<1>3. run'[b] = s /\ \A c \in Batch \ {b} : run'[c] = run[c]  BY <1>1, <1>2, Running
<1>4. /\ s.pc = next /\ s.rows = rows /\ s.next = run[b].next
      /\ s.completed = run[b].completed /\ s.preds = run[b].preds /\ s.seen = run[b].seen
  BY <1>1, Running DEF AttemptState
<1>5. next \in {"post_check", "completions"}  OBVIOUS
<1> HIDE DEF s, next
<1>6. quarantine \subseteq quarantine' /\ \A q \in quarantine' : q \in quarantine \/ q.batch = b
  BY DEF Admit
<1>7. Completed' = Completed  BY DEF Completed
<1>8. CarriesAll(b, s, basis', quarantine', facts', Completed')
  BY <1>1, <1>4, <1>5, <1>7, Running DEF CarriesAll, BeforeCheck, InCommit
<1>9. KeepsAll(b, basis', quarantine', facts', Completed')
  <2>1. \A t : TableAccounted(b, t, basis, quarantine, facts, Completed)
                => TableAccounted(b, t, basis', quarantine', facts', Completed')
    BY <1>6, <1>7, TableStays
  <2> QED  BY <1>1, <1>7, <2>1, Running DEF KeepsAll
<1> QED  BY <1>3, <1>6, <1>7, <1>8, <1>9, OthersKeep

LEMMA CheckKeeps ==
  ASSUME LossInv, NEW b \in Batch, NEW stage \in Stage, Check(b, stage)
  PROVE  AllKept'
<1> DEFINE Out(r) == \E q \in quarantine : q.batch = b /\ q.row = r
           rows == run[b].rows
<1>1. /\ At(b, stage) /\ run[b] # None /\ run[b].pc = stage /\ UNCHANGED <<facts, markers, basis>>
  BY DEF Check, At
<1>2. \A r \in RowsOf[b] \ rows : Out(r)
  BY <1>1, Running DEF CarriesAll, BeforeCheck, Stage
<1>3. stage = "post_check" => MalformedOut(b, quarantine)
  BY <1>1, Running DEF CarriesAll, BeforeCheck
<1>4. \A r \in rows \ Shaped(stage, rows) : stage = "pre_check" /\ r \in Malformed  BY DEF Shaped
<1>5. \A r \in Quarantined(b, stage) : Out(r)  BY DEF Quarantined
<1>6. rows \subseteq RowsOf[b]  BY <1>1, Running DEF AttemptOK
<1>7. CASE DurableSubtract(b, stage)
  <2>1. Admit(b, stage, Shaped(stage, rows) \ Quarantined(b, stage), {})
    BY <1>7 DEF DurableSubtract
  <2>2. quarantine' = quarantine  BY <2>1 DEF Admit
  <2>3. MalformedOut(b, quarantine)
    <3>1. \E q \in quarantine : q.batch = b  BY <1>7 DEF DurableSubtract, Quarantined
    <3> QED  BY <1>1, <3>1, Running DEF KeepsAll
  <2>4. \A r \in RowsOf[b] \ (Shaped(stage, rows) \ Quarantined(b, stage)) : Out(r)
    BY <1>2, <1>4, <1>5, <2>3 DEF MalformedOut
  <2> QED  BY <1>1, <2>1, <2>2, <2>3, <2>4, AdmitKeeps
<1>8. CASE DurableAuthority(b, stage)
  <2>1. Admit(b, stage, Shaped(stage, rows), {})  BY <1>8 DEF DurableAuthority
  <2>2. quarantine' = quarantine  BY <2>1 DEF Admit
  <2>3. MalformedOut(b, quarantine)
    <3>1. \E f \in facts : f.batch = b  BY <1>8 DEF DurableAuthority, AnyFactPresent, FactsOf
    <3> QED  BY <1>1, <3>1, Running DEF KeepsAll
  <2>4. \A r \in RowsOf[b] \ Shaped(stage, rows) : Out(r)
    BY <1>2, <1>4, <2>3 DEF MalformedOut
  <2> QED  BY <1>1, <2>1, <2>2, <2>3, <2>4, AdmitKeeps
<1>9. CASE Fresh(b, stage)
  <2>1. PICK V \in Violations(stage, rows) : Admit(b, stage, rows \ V, V)
    BY <1>9 DEF Fresh
  <2>2. rows \ Shaped(stage, rows) \subseteq V /\ V \subseteq rows
    BY DEF Violations, Shaped
  <2>3. /\ quarantine \subseteq quarantine'
        /\ \A r \in V : [batch |-> b, stage |-> stage, row |-> r] \in quarantine'
    BY <2>1 DEF Admit
  <2>4. \A r \in V : \E q \in quarantine' : q.batch = b /\ q.row = r
    <3>1. ASSUME NEW r \in V PROVE \E q \in quarantine' : q.batch = b /\ q.row = r
      <4> DEFINE q == [batch |-> b, stage |-> stage, row |-> r]
      <4>1. q \in quarantine' /\ q.batch = b /\ q.row = r  BY <2>3
      <4> QED  BY <4>1
    <3> QED  BY <3>1
  <2>5. \A r : Out(r) => \E q \in quarantine' : q.batch = b /\ q.row = r  BY <2>3
  <2>6. \A r \in RowsOf[b] \ (rows \ V) : \E q \in quarantine' : q.batch = b /\ q.row = r
    BY <1>2, <2>4, <2>5
  <2>7. MalformedOut(b, quarantine')
    <3>1. CASE stage = "pre_check"
      <4>1. RowsOf[b] \cap Malformed \cap rows \subseteq V  BY <2>2, <3>1 DEF Shaped
      <4> QED  BY <1>2, <2>4, <2>5, <4>1 DEF MalformedOut
    <3>2. CASE stage = "post_check"  BY <1>3, <2>5, <3>2 DEF MalformedOut
    <3> QED  BY <3>1, <3>2 DEF Stage
  <2> QED  BY <1>1, <2>1, <2>6, <2>7, AdmitKeeps
<1> QED  BY <1>7, <1>8, <1>9 DEF Check

\* The commit loop leaves its table with every row accounted for, whether b has
\* decided again what to add there or not.
LEMMA TableDone ==
  ASSUME LossInv, NEW b \in Batch, run[b] # None, run[b].pc \in InCommit,
         NextTable(b, "filter", "complete"),
         quarantine' = quarantine, facts \subseteq facts', Completed' = Completed,
         \A f \in facts' : f \in facts \/ (f.batch = b /\ Table(f) = Current(b)),
         Decided(b) \/ basis' = basis,
         TableAccounted(b, Current(b), basis', quarantine', facts', Completed')
  PROVE  AllKept'
<1> DEFINE n == run[b].next
           pc == IF n < Len(Tables) THEN "filter" ELSE "complete"
           next == IF n < Len(Tables) THEN n + 1 ELSE 1
           s == [run[b] EXCEPT !.pc = pc, !.next = next, !.novel = {}]
           Ready(t) == TableAccounted(b, t, basis', quarantine', facts', Completed')
<1>1. run' = [run EXCEPT ![b] = s]  BY Running DEF NextTable
<1>2. run'[b] = s /\ \A c \in Batch \ {b} : run'[c] = run[c]  BY <1>1, Running
<1>3. n \in 1..Len(Tables) /\ n \in Nat /\ Len(Tables) \in Nat
  BY Running, BatchRunAssumption DEF AttemptState
<1>4. /\ s.pc = pc /\ s.next = next /\ s.rows = run[b].rows
      /\ s.completed = run[b].completed /\ s.preds = run[b].preds /\ s.seen = run[b].seen
  BY Running DEF AttemptState
<1> HIDE DEF s
<1>5. \A c \in Batch : \A t \in TableSet :
        c # b \/ t # Current(b) => basis'[<<c, t>>] = basis[<<c, t>>]
  <2>1. basis = [bt \in Batch \X TableSet |-> basis[bt]]
    BY DEF LossInv, Inv, DataOK, TablesOK
  <2> QED  BY <2>1 DEF Decided
<1>6. ASSUME NEW t \in TableSet, TableAccounted(b, t, basis, quarantine, facts, Completed)
      PROVE  Ready(t)
  BY <1>5, <1>6, TableStays
<1>7. ASSUME NEW i \in 1..Len(Tables), i <= n PROVE Ready(Tables[i])
  <2>1. CASE i = n  BY <2>1 DEF Current
  <2>2. CASE i < n
    <3>1. Tables[i] \in TableSet  BY DEF TableSet
    <3>2. TableAccounted(b, Tables[i], basis, quarantine, facts, Completed)
      BY <2>2, Running DEF CarriesAll
    <3> QED  BY <1>6, <3>1, <3>2
  <2> QED  BY <1>3, <1>7, <2>1, <2>2
<1>8. CarriesAll(b, s, basis', quarantine', facts', Completed')
  <2>1. CASE n < Len(Tables)
    <3>1. pc = "filter" /\ \A i \in 1..Len(Tables) : i < next => i <= n  BY <1>3, <2>1
    <3> HIDE DEF next, pc, n
    <3> QED
      BY <1>4, <1>7, <3>1, Running DEF CarriesAll, BeforeCheck, InCommit
  <2>2. CASE ~(n < Len(Tables))
    <3>1. pc = "complete" /\ next = 1 /\ \A i \in 1..Len(Tables) : i <= n  BY <1>3, <2>2
    <3> HIDE DEF next, pc, n
    <3>2. \A t \in TableSet : Ready(t)  BY <1>7, <3>1 DEF TableSet
    <3> QED
      BY <1>4, <3>1, <3>2, Running DEF CarriesAll, BeforeCheck, InCommit
  <2> QED  BY <2>1, <2>2
<1>9. KeepsAll(b, basis', quarantine', facts', Completed')
  <2>1. MalformedOut(b, quarantine)  BY Running DEF CarriesAll, BeforeCheck, InCommit
  <2>2. ASSUME NEW t \in TableSet, b \in Completed \/ \E f \in facts' : f.batch = b /\ Table(f) = t
        PROVE  Ready(t)
    <3>1. CASE t = Current(b)  BY <3>1
    <3>2. CASE t # Current(b)
      <4>1. TableAccounted(b, t, basis, quarantine, facts, Completed)
        BY <2>2, <3>2, Running DEF KeepsAll
      <4> QED  BY <1>6, <4>1
    <3> QED  BY <3>1, <3>2
  <2> QED  BY <2>1, <2>2 DEF KeepsAll
<1> QED  BY <1>2, <1>5, <1>8, <1>9, OthersKeep

\* A candidate that the filter drops is the fact of a predecessor.
LEMMA DroppedAccounted ==
  ASSUME LossInv, NEW b \in Batch, At(b, "filter"),
         NEW r \in RowsOf[b], TableOf[r] = Current(b), r \notin Novel(b, Current(b))
  PROVE  Accounted(b, r, run[b].seen, quarantine, facts, Completed)
<1>1. run[b] # None /\ run[b].pc = "filter"  BY DEF At
<1>2. CASE r \notin run[b].rows
  BY <1>1, <1>2, Running DEF CarriesAll, BeforeCheck, Accounted
<1>3. CASE r \in run[b].rows
  <2>1. PICK p \in run[b].preds : \E f \in FactsOf(p, Current(b)) : f.row = r
    BY <1>3 DEF Novel, Unchanged
  <2>2. p \in Completed /\ \A c \in run[b].seen : c <= p  BY <1>1, Running DEF CarriesAll
  <2> QED  BY <2>1, <2>2 DEF FactsOf, Accounted
<1> QED  BY <1>2, <1>3

LEMMA FilterKeeps == ASSUME LossInv, NEW b \in Batch, Filter(b) PROVE AllKept'
<1> DEFINE t == Current(b)
<1>1. /\ At(b, "filter") /\ run[b] # None /\ run[b].pc = "filter"
      /\ UNCHANGED <<quarantine, facts, markers>>
  BY DEF Filter, At
<1>2. Completed' = Completed  BY <1>1 DEF Completed
<1>3. t \in TableSet  BY <1>1, Running DEF Current, TableSet, AttemptState
<1>4. CASE HasBatch(b, t) /\ Goto(b, "twin") /\ UNCHANGED basis
  <2> DEFINE s == [run[b] EXCEPT !.pc = "twin"]
  <2>1. run' = [run EXCEPT ![b] = s]  BY <1>1, <1>4, Running DEF Goto
  <2>2. run'[b] = s /\ \A c \in Batch \ {b} : run'[c] = run[c]  BY <1>1, <2>1, Running
  <2>3. /\ s.pc = "twin" /\ s.next = run[b].next /\ s.rows = run[b].rows /\ s.novel = {}
        /\ s.completed = run[b].completed /\ s.preds = run[b].preds /\ s.seen = run[b].seen
    BY <1>1, Running DEF AttemptState, AttemptOK
  <2> HIDE DEF s
  <2>4. TableAccounted(b, t, basis, quarantine, facts, Completed)
    BY <1>1, <1>3, <1>4, Running DEF HasBatch, FactsOf, KeepsAll
  <2>5. CarriesAll(b, s, basis, quarantine, facts, Completed)
    BY <1>1, <2>3, <2>4, Running DEF CarriesAll, BeforeCheck, InCommit, Current
  <2> QED  BY <1>1, <1>4, <2>2, <2>5, ControlStep
<1>5. CASE Novel(b, t) = {} /\ Decided(b) /\ NextTable(b, "filter", "complete")
  <2>1. basis'[<<b, t>>] = run[b].seen
    BY <1>3, <1>5 DEF Decided, LossInv, Inv, DataOK, TablesOK
  <2>2. TableAccounted(b, t, basis', quarantine, facts, Completed)
    BY <1>1, <1>5, <2>1, DroppedAccounted DEF TableAccounted
  <2> QED  BY <1>1, <1>2, <1>5, <2>2, TableDone DEF InCommit
<1>6. CASE run' = [run EXCEPT ![b].novel = Novel(b, t), ![b].pc = "twin"] /\ Novel(b, t) # {} /\ UNCHANGED basis
  <2> DEFINE novel == Novel(b, t)
             s == [run[b] EXCEPT !.novel = novel, !.pc = "twin"]
  <2>1. run' = [run EXCEPT ![b] = s]  BY <1>1, <1>6, Running
  <2>2. run'[b] = s /\ \A c \in Batch \ {b} : run'[c] = run[c]  BY <1>1, <2>1, Running
  <2>3. \A r \in RowsOf[b] : TableOf[r] = t =>
          r \in novel \/ Accounted(b, r, run[b].seen, quarantine, facts, Completed)
    BY <1>1, DroppedAccounted
  <2>4. novel # {}  BY <1>6
  <2> HIDE DEF novel
  <2>5. /\ s.pc = "twin" /\ s.next = run[b].next /\ s.rows = run[b].rows
        /\ s.completed = run[b].completed /\ s.preds = run[b].preds
        /\ s.seen = run[b].seen /\ s.novel = novel
    BY <1>1, Running DEF AttemptState
  <2> HIDE DEF s
  <2>6. CarriesAll(b, s, basis, quarantine, facts, Completed)
    BY <1>1, <2>3, <2>4, <2>5, Running DEF CarriesAll, BeforeCheck, InCommit, Current
  <2> QED  BY <1>1, <1>6, <2>2, <2>6, ControlStep
<1> QED  BY <1>4, <1>5, <1>6 DEF Filter

LEMMA TwinKeeps == ASSUME LossInv, NEW b \in Batch, Twin(b) PROVE AllKept'
<1>1. /\ run[b] # None /\ run[b].pc = "twin" /\ UNCHANGED <<quarantine, facts, basis>>
      /\ markers' = markers \cup {<<b, Current(b)>>}
  BY DEF Twin, At
<1>2. Current(b) # Completion
  BY <1>1, Running, BatchRunAssumption DEF Current, TableSet, AttemptState
<1>3. Completed' = Completed  BY <1>1, <1>2 DEF Completed
<1>4. KeepsAll(b, basis', quarantine', facts', Completed')  BY <1>1, <1>3, Running
<1>5. CASE run[b].novel = {}
  <2>1. NextTable(b, "filter", "complete")  BY <1>5 DEF Twin
  <2>2. TableAccounted(b, Current(b), basis, quarantine, facts, Completed)
    BY <1>1, <1>5, Running DEF CarriesAll, Current
  <2> QED  BY <1>1, <1>3, <2>1, <2>2, TableDone DEF InCommit
<1>6. CASE run[b].novel # {}
  <2> DEFINE s == [run[b] EXCEPT !.pc = "append"]
  <2>1. run' = [run EXCEPT ![b] = s]  BY <1>1, <1>6, Running DEF Twin, Goto
  <2>2. run'[b] = s /\ \A c \in Batch \ {b} : run'[c] = run[c]  BY <1>1, <2>1, Running
  <2>3. /\ s.pc = "append" /\ s.next = run[b].next /\ s.rows = run[b].rows
        /\ s.completed = run[b].completed /\ s.preds = run[b].preds
        /\ s.seen = run[b].seen /\ s.novel = run[b].novel
    BY <1>1, Running DEF AttemptState
  <2> HIDE DEF s
  <2>4. CarriesAll(b, s, basis, quarantine, facts, Completed)
    BY <1>1, <1>6, <2>3, Running DEF CarriesAll, BeforeCheck, InCommit
  <2> QED  BY <1>1, <1>3, <1>4, <2>2, <2>4, OthersKeep
<1> QED  BY <1>5, <1>6

LEMMA AppendFactsKeeps == ASSUME LossInv, NEW b \in Batch, AppendFacts(b) PROVE AllKept'
<1> DEFINE t == Current(b)
           new == {[batch |-> b, row |-> r] : r \in run[b].novel}
<1>1. /\ run[b] # None /\ run[b].pc = "append" /\ UNCHANGED <<quarantine, markers>>
      /\ facts' = facts \cup new /\ NextTable(b, "filter", "complete") /\ Decided(b)
  BY DEF AppendFacts, At
<1>2. Completed' = Completed  BY <1>1 DEF Completed
<1>3. \A r \in run[b].novel : \E f \in new : f.batch = b /\ f.row = r
  <2>1. ASSUME NEW r \in run[b].novel PROVE \E f \in new : f.batch = b /\ f.row = r
    <3>1. [batch |-> b, row |-> r] \in new  OBVIOUS
    <3> QED  BY <3>1
  <2> QED  BY <2>1
<1>4. /\ \A f \in new : f.batch = b /\ Table(f) = t
      /\ t \in TableSet /\ run[b].novel # {}
  <2>1. run[b].novel # {}  BY <1>1, Running DEF AttemptOK
  <2>2. \A f \in new : f.batch = b /\ Table(f) = t
    BY <1>1, Running, NovelOfTable DEF Table
  <2>3. t \in TableSet  BY <1>1, Running, NovelOfTable
  <2> QED  BY <2>1, <2>2, <2>3
<1>5. basis'[<<b, t>>] = run[b].seen
  BY <1>1, <1>4 DEF Decided, LossInv, Inv, DataOK, TablesOK
<1> HIDE DEF new, t
<1>6. ASSUME NEW r \in RowsOf[b], TableOf[r] = t
      PROVE  Accounted(b, r, run[b].seen, quarantine', facts', Completed')
  <2>1. r \in run[b].novel \/ Accounted(b, r, run[b].seen, quarantine, facts, Completed)
    BY <1>1, <1>4, <1>6, Running DEF CarriesAll, Current, t
  <2>2. CASE r \in run[b].novel  BY <1>1, <1>3, <2>2 DEF Accounted
  <2>3. CASE Accounted(b, r, run[b].seen, quarantine, facts, Completed)
    BY <1>1, <1>2, <2>3, AccountedGrows
  <2> QED  BY <2>1, <2>2, <2>3
<1>7. TableAccounted(b, t, basis', quarantine', facts', Completed')
  BY <1>5, <1>6 DEF TableAccounted
<1>8. \A f \in facts' : f \in facts \/ (f.batch = b /\ Table(f) = t)  BY <1>1, <1>4
<1> QED  BY <1>1, <1>2, <1>7, <1>8, TableDone DEF InCommit, t

LEMMA CompleteKeeps == ASSUME LossInv, NEW b \in Batch, Complete(b) PROVE AllKept'
<1> DEFINE s == [run[b] EXCEPT !.pc = "fold"]
<1>1. /\ run[b] # None /\ run[b].pc = "complete" /\ UNCHANGED <<quarantine, facts, basis>>
      /\ markers' = markers \cup {<<b, Completion>>}
  BY DEF Complete, At
<1>2. Completed' = Completed \cup {b}  BY <1>1 DEF Completed
<1>3. run' = [run EXCEPT ![b] = s]  BY <1>1, Running DEF Complete, Goto
<1>4. run'[b] = s /\ \A c \in Batch \ {b} : run'[c] = run[c]  BY <1>1, <1>3, Running
<1>5. /\ s.pc = "fold" /\ s.rows = run[b].rows
      /\ s.completed = run[b].completed /\ s.preds = run[b].preds /\ s.seen = run[b].seen
  BY <1>1, Running DEF AttemptState
<1> HIDE DEF s
<1>6. \A t : TableAccounted(b, t, basis, quarantine, facts, Completed)
              => TableAccounted(b, t, basis', quarantine', facts', Completed')
  BY <1>1, <1>2, TableStays
<1>7. \A t \in TableSet : TableAccounted(b, t, basis', quarantine', facts', Completed')
  BY <1>1, <1>6, Running DEF CarriesAll
<1>8. KeepsAll(b, basis', quarantine', facts', Completed')
  BY <1>1, <1>6, <1>7, Running DEF KeepsAll
<1>9. CarriesAll(b, s, basis', quarantine', facts', Completed')
  BY <1>1, <1>2, <1>5, <1>7, Running DEF CarriesAll, BeforeCheck, InCommit
<1> QED  BY <1>1, <1>2, <1>4, <1>8, <1>9, OthersKeep

LEMMA FoldTableKeeps == ASSUME LossInv, NEW b \in Batch, FoldTable(b) PROVE AllKept'
<1> DEFINE pc == IF run[b].next < Len(Tables) THEN "fold" ELSE "publish"
           next == IF run[b].next < Len(Tables) THEN run[b].next + 1 ELSE 1
           s == [run[b] EXCEPT !.pc = pc, !.next = next, !.novel = {}]
<1>1. /\ run[b] # None /\ run[b].pc = "fold" /\ UNCHANGED <<quarantine, facts, markers, basis>>
      /\ NextTable(b, "fold", "publish")
  BY DEF FoldTable, At
<1>2. run' = [run EXCEPT ![b] = s]  BY <1>1, Running DEF NextTable
<1>3. run'[b] = s /\ \A c \in Batch \ {b} : run'[c] = run[c]  BY <1>1, <1>2, Running
<1>4. /\ s.pc = pc /\ s.next = next /\ s.rows = run[b].rows
      /\ s.completed = run[b].completed /\ s.preds = run[b].preds /\ s.seen = run[b].seen
  BY <1>1, Running DEF AttemptState
<1>5. pc = "fold" \/ (pc = "publish" /\ next = 1)  OBVIOUS
<1> HIDE DEF s, pc, next
<1>6. CarriesAll(b, s, basis, quarantine, facts, Completed)
  BY <1>1, <1>4, <1>5, Running DEF CarriesAll, BeforeCheck, InCommit
<1> QED  BY <1>1, <1>3, <1>6, ControlStep

-------------------------------------------------------------------------------
LEMMA StepLossInv == ASSUME LossInv, [BatchNext]_vars PROVE LossInv'
<1>1. Inv'  BY StepInv DEF LossInv
<1>2. ASSUME NEW b \in Batch, Begin(b) \/ Die(b) \/ Advance(b) PROVE AllKept'
  <2>1. ASSUME NEW stage \in Stage, Check(b, stage) PROVE AllKept'  BY <2>1, CheckKeeps
  <2> QED
    BY <1>2, <2>1, BeginKeeps, EndKeeps, LandKeeps, AnnounceKeeps, ReadCompletionsKeeps,
       ResolveKeeps, FilterKeeps, TwinKeeps, AppendFactsKeeps, CompleteKeeps, FoldTableKeeps
    DEF Advance, Stage
<1>3. CASE UNCHANGED vars
  <2>1. Completed' = Completed  BY <1>3 DEF vars, Completed
  <2> QED  BY <1>1, <1>3, <2>1 DEF vars, LossInv, AllKept
<1> QED  BY <1>1, <1>2, <1>3 DEF BatchNext, LossInv

\* Every row that a completed batch landed is quarantined, is its fact, or was
\* dropped for the same fact of a completed batch.
THEOREM RowsKept == BatchSpec => []NothingLost
<1>1. BatchInit => LossInv
  <2>1. BatchInit => AllKept  BY DEF BatchInit, Init, AllKept, KeepsAll, Completed
  <2> QED  BY <2>1, InitInv DEF LossInv
<1>2. LossInv => NothingLost
  <2> SUFFICES ASSUME LossInv, NEW b \in Completed, NEW r \in RowsOf[b]
               PROVE  \/ \E q \in quarantine : q.batch = b /\ q.row = r
                      \/ \E f \in facts : f.row = r /\ f.batch \in Completed
    BY DEF NothingLost
  <2>1. b \in Batch  BY DEF Completed
  <2>2. TableOf[r] \in TableSet  BY <2>1, BatchRunAssumption
  <2>3. KeepsAll(b, basis, quarantine, facts, Completed)  BY <2>1 DEF LossInv, AllKept
  <2>4. Accounted(b, r, basis[<<b, TableOf[r]>>], quarantine, facts, Completed)
    BY <2>2, <2>3 DEF KeepsAll, TableAccounted
  <2> QED  BY <2>4 DEF Accounted
<1> QED  BY <1>1, <1>2, StepLossInv, PTL DEF BatchSpec

-------------------------------------------------------------------------------
(***************************************************************************)
(* BatchRun implements Record, for any feed: each step of a run commits    *)
(* one batch's facts to one table, absorbs committed facts into the state, *)
(* or leaves both alone.                                                   *)
(***************************************************************************)

\* No row of the state is beaten by another of its domain.
StateReduced == state = Winners(state)

RecordInv == Inv /\ StateReduced

LEMMA InitRecordInv == BatchInit => RecordInv
<1>1. BatchInit => StateReduced  BY DEF BatchInit, Init, StateReduced, Winners
<1> QED  BY <1>1, InitInv DEF RecordInv

LEMMA FoldTableAbsorbs ==
  ASSUME RecordInv, NEW b \in Batch, FoldTable(b)
  PROVE  Absorb /\ StateReduced'
<1> DEFINE W == Winners(FactsOf(b, Current(b)))
<1>1. state \subseteq Fact /\ facts \subseteq Fact /\ state \subseteq facts
  BY DEF RecordInv, Inv, DataOK, TablesOK
<1>2. W \subseteq facts  BY DEF Winners, FactsOf
<1>3. W = Winners(W)  BY WinnersIdempotent
<1>4. state' = Merged(state, W) /\ facts' = facts  BY DEF FoldTable
<1> HIDE DEF W
<1>5. state' = Winners(state \cup state')
  BY <1>1, <1>2, <1>3, <1>4, MergeAbsorbs DEF RecordInv, StateReduced
<1>6. state' \subseteq state \cup facts  BY <1>2, <1>4 DEF Merged
<1>7. state' = Winners(state')  BY <1>5, WinnersOfUnion
<1>8. StateReduced'  BY <1>7 DEF StateReduced, Winners, SameDomain, Table, Beats
<1> QED  BY <1>4, <1>5, <1>6, <1>8 DEF Absorb

LEMMA AppendFactsCommits ==
  ASSUME RecordInv, NEW b \in Batch, AppendFacts(b)
  PROVE  Commit
<1> DEFINE t == Current(b)
           new == {[batch |-> b, row |-> r] : r \in run[b].novel}
<1>1. /\ run[b].pc = "append"
      /\ AttemptOK(b, run[b], quarantine, facts, markers)
  BY DEF AppendFacts, At, RecordInv, Inv, AttemptsOK
<1>2. run[b].novel # {} /\ ~\E f \in facts : f.batch = b /\ Table(f) = t
  BY <1>1 DEF AttemptOK, Current
<1>3. \A f \in new : f.batch = b /\ Table(f) = t
  BY <1>1, NovelOfTable DEF Table
<1>4. facts' = facts \cup new /\ state' = state  BY DEF AppendFacts
<1>5. PICK n \in new : TRUE  BY <1>2
<1> HIDE DEF new, t
<1>6. facts' \ facts = new  BY <1>2, <1>3, <1>4
<1>7. FactsOf(n.batch, Table(n)) = {}  BY <1>2, <1>3 DEF FactsOf
<1> QED  BY <1>3, <1>4, <1>5, <1>6, <1>7 DEF Commit

LEMMA StepRecord ==
  ASSUME RecordInv, [BatchNext]_vars
  PROVE  RecordInv' /\ [Next]_<<facts, state>>
<1>1. Inv'  BY StepInv DEF RecordInv
<1>2. ASSUME NEW b \in Batch, FoldTable(b) PROVE StateReduced' /\ Next
  BY <1>2, FoldTableAbsorbs DEF Next
<1>3. ASSUME NEW b \in Batch, AppendFacts(b) PROVE StateReduced' /\ Next
  <2>1. Next  BY <1>3, AppendFactsCommits DEF Next
  <2>2. state' = state  BY <1>3 DEF AppendFacts
  <2> QED
    BY <2>1, <2>2 DEF RecordInv, StateReduced, Winners, SameDomain, Table, Beats
<1>4. ASSUME UNCHANGED <<facts, state>> PROVE StateReduced'
  BY <1>4 DEF RecordInv, StateReduced, Winners, SameDomain, Table, Beats
<1>5. ASSUME NEW b \in Batch, Begin(b) \/ Die(b) \/ Advance(b)
      PROVE  FoldTable(b) \/ AppendFacts(b) \/ UNCHANGED <<facts, state>>
  BY <1>5 DEF Begin, Die, Advance, Land, Announce, Check, ReadCompletions, Resolve, Filter, Twin,
              Complete, Publish
<1>6. CASE UNCHANGED vars  BY <1>1, <1>4, <1>6 DEF vars, RecordInv
<1>7. CASE BatchNext  BY <1>1, <1>2, <1>3, <1>4, <1>5, <1>7 DEF BatchNext, RecordInv
<1> QED  BY <1>6, <1>7

\* Attempts that die anywhere, verdicts that change and folds in any order do
\* not break the record: a batch adds facts to a table once, and nothing leaves
\* the state but to a fact that beats it.
THEOREM BatchImplementsRecord == BatchSpec => RecordSpec
<1>1. BatchInit => Init  BY DEF BatchInit
<1>2. BatchSpec => []RecordInv  BY InitRecordInv, StepRecord, PTL DEF BatchSpec
<1>3. RecordInv /\ [BatchNext]_vars => [Next]_<<facts, state>>  BY StepRecord
<1> QED  BY <1>1, <1>2, <1>3, PTL DEF BatchSpec, RecordSpec, Spec

-------------------------------------------------------------------------------
\* What an announced batch shows in the state

\* The attempt s of b, when the batches C are completed, the facts are F and the
\* state is S: of the tables the fold has passed, S covers what b committed.
FoldOK(b, s, C, F, S) ==
  /\ s.pc = "complete" => s.next = 1
  /\ s.pc \in {"fold", "publish"} => b \in C
  /\ s.pc \in {"fold", "publish"} => \A i \in 1..Len(Tables) :
       s.pc = "publish" \/ i < s.next =>
         Covers(S, {f \in F : f.batch = b /\ Table(f) = Tables[i]})

FoldsOK == \A b \in Batch : run[b] # None => FoldOK(b, run[b], Completed, facts, state)

FoldInv == RecordInv /\ IsFiniteSet(facts) /\ FoldsOK

\* A step of b, after which the state covers what it was.
LEMMA FoldMoves ==
  ASSUME RecordInv, RecordInv', FoldsOK, NEW b \in Batch,
         \A c \in Batch \ {b} : run'[c] = run[c],
         run'[b] # None => FoldOK(b, run'[b], Completed', facts', state'),
         \A f \in facts' : f \in facts \/ f.batch = b,
         facts \subseteq facts', Completed \subseteq Completed', Covers(state', state)
  PROVE  FoldsOK'
<1>1. ASSUME NEW c \in Batch, c # b, run'[c] # None
      PROVE  FoldOK(c, run'[c], Completed', facts', state')
  <2>1. run'[c] = run[c] /\ FoldOK(c, run[c], Completed, facts, state)
    BY <1>1 DEF FoldsOK
  <2>2. ASSUME NEW i \in 1..Len(Tables),
               Covers(state, {f \in facts : f.batch = c /\ Table(f) = Tables[i]})
        PROVE  Covers(state', {f \in facts' : f.batch = c /\ Table(f) = Tables[i]})
    <3> DEFINE F == {f \in facts : f.batch = c /\ Table(f) = Tables[i]}
    <3>1. F = {f \in facts' : f.batch = c /\ Table(f) = Tables[i]}  BY <1>1
    <3>2. F \subseteq Fact /\ state \subseteq Fact /\ state' \subseteq Fact
      BY DEF RecordInv, Inv, DataOK, TablesOK
    <3>3. Covers(state, F)  BY <2>2
    <3> HIDE DEF F
    <3>4. Covers(state', F)  BY <3>2, <3>3, CoversTransitive
    <3> QED  BY <3>1, <3>4
  <2> QED  BY <2>1, <2>2 DEF FoldOK
<1> QED  BY <1>1 DEF FoldsOK

\* A set of facts covers itself.
LEMMA CoversItself == ASSUME NEW F \in SUBSET Fact PROVE Covers(F, F)
<1>1. \A f \in F : SameDomain(f, f) /\ ~Beats(f, f)
  BY BeatsAsymmetric DEF SameDomain
<1> QED  BY <1>1 DEF Covers

\* Every step but these two leaves b before its fold.
LEMMA BeforeFold ==
  ASSUME Inv, NEW b \in Batch, Begin(b) \/ Die(b) \/ Advance(b), ~Complete(b), ~FoldTable(b)
  PROVE  /\ \A c \in Batch \ {b} : run'[c] = run[c]
         /\ run'[b] # None => FoldOK(b, run'[b], Completed', facts', state')
         /\ \A f \in facts' : f \in facts \/ f.batch = b
         /\ facts \subseteq facts' /\ Completed \subseteq Completed' /\ state' = state
<1> DEFINE Early == /\ \A c \in Batch \ {b} : run'[c] = run[c]
                    /\ \/ run'[b] = None
                       \/ run'[b].pc \notin {"complete", "fold", "publish"}
                       \/ run'[b].pc = "complete" /\ run'[b].next = 1
<1>1. run = [c \in Batch |-> run[c]] /\ (run[b] # None => run[b] \in AttemptState)
  BY DEF Inv, AttemptsOK, AttemptOK
<1>2. ASSUME Begin(b) PROVE Early  BY <1>1, <1>2 DEF Begin
<1>3. ASSUME Die(b) \/ Publish(b) PROVE Early  BY <1>1, <1>3 DEF Die, Publish
<1>4. ASSUME Land(b) \/ Announce(b) \/ ReadCompletions(b) \/ Resolve(b) PROVE Early
  BY <1>1, <1>4 DEF Land, Announce, ReadCompletions, Resolve, Goto, At, AttemptState
<1>5. ASSUME \E stage \in Stage : Check(b, stage) PROVE Early
  <2>1. PICK stage \in Stage : Check(b, stage)  BY <1>5
  <2>2. \E rows, V : Admit(b, stage, rows, V)
    <3>1. DurableSubtract(b, stage) \/ DurableAuthority(b, stage) \/ Fresh(b, stage)
      BY <2>1 DEF Check
    <3> QED  BY <3>1 DEF DurableSubtract, DurableAuthority, Fresh
  <2>3. PICK rows, V : Admit(b, stage, rows, V)  BY <2>2
  <2>4. run[b] # None  BY <2>1 DEF Check, At
  <2> QED  BY <1>1, <2>3, <2>4 DEF Admit, AttemptState
<1>6. ASSUME NextTable(b, "filter", "complete"), run[b] # None PROVE Early
  BY <1>1, <1>6 DEF NextTable, AttemptState
<1>7. ASSUME Filter(b) \/ Twin(b) \/ AppendFacts(b) PROVE Early
  BY <1>1, <1>6, <1>7 DEF Filter, Twin, AppendFacts, Goto, At, AttemptState
<1>8. Early  BY <1>2, <1>3, <1>4, <1>5, <1>7 DEF Advance, Stage
<1>9. /\ UNCHANGED <<state>> /\ markers \subseteq markers'
      /\ facts' = facts \/ facts' = facts \cup {[batch |-> b, row |-> r] : r \in run[b].novel}
  BY DEF Begin, Die, Advance, Land, Announce, Check, DurableSubtract, DurableAuthority, Fresh,
         Admit, ReadCompletions, Resolve, Filter, Twin, AppendFacts, Publish
<1>10. facts \subseteq facts' /\ \A f \in facts' : f \in facts \/ f.batch = b  BY <1>9
<1>11. Completed \subseteq Completed'  BY <1>9 DEF Completed
<1>12. run'[b] # None => FoldOK(b, run'[b], Completed', facts', state')
  BY <1>8 DEF FoldOK
<1> QED  BY <1>8, <1>9, <1>10, <1>11, <1>12

LEMMA FactsFinite ==
  ASSUME Inv, IsFiniteSet(facts), [BatchNext]_vars
  PROVE  IsFiniteSet(facts')
<1>1. ASSUME NEW b \in Batch, AppendFacts(b) PROVE IsFiniteSet(facts')
  <2> DEFINE novel == run[b].novel
             new == {[batch |-> b, row |-> r] : r \in novel}
             f == [r \in novel |-> [batch |-> b, row |-> r]]
  <2>1. novel \subseteq RowsOf[b]
    BY <1>1 DEF AppendFacts, At, Inv, AttemptsOK, AttemptOK
  <2>2. IsFiniteSet(RowsOf[b])  BY BatchRunAssumption
  <2>3. facts' = facts \cup new  BY <1>1 DEF AppendFacts
  <2> HIDE DEF novel
  <2>4. IsFiniteSet(novel)  BY <2>1, <2>2, FS_Subset
  <2>5. f \in Surjection(novel, new)  BY DEF Surjection
  <2>6. IsFiniteSet(new)  BY <2>4, <2>5, FS_Surjection
  <2> QED  BY <2>3, <2>6, FS_Union
<1>2. (~\E b \in Batch : AppendFacts(b)) => facts' = facts
  BY DEF vars, BatchNext, Begin, Die, Advance, Land, Announce, Check, ReadCompletions, Resolve,
         Filter, Twin, Complete, FoldTable, Publish
<1> QED  BY <1>1, <1>2

LEMMA CompleteFolds ==
  ASSUME FoldInv, RecordInv', NEW b \in Batch, Complete(b)
  PROVE  FoldsOK'
<1>1. /\ run[b] # None /\ run[b].pc = "complete" /\ run' = [run EXCEPT ![b].pc = "fold"]
      /\ markers' = markers \cup {<<b, Completion>>} /\ UNCHANGED <<facts, state>>
  BY DEF Complete, At, Goto
<1>2. run = [c \in Batch |-> run[c]] /\ run[b] \in AttemptState /\ FoldOK(b, run[b], Completed, facts, state)
  BY <1>1 DEF FoldInv, RecordInv, Inv, AttemptsOK, AttemptOK, FoldsOK
<1>3. run'[b].pc = "fold" /\ run'[b].next = 1 /\ \A c \in Batch \ {b} : run'[c] = run[c]
  BY <1>1, <1>2 DEF FoldOK, AttemptState
<1>4. b \in Completed' /\ Completed \subseteq Completed'  BY <1>1 DEF Completed
<1>5. FoldOK(b, run'[b], Completed', facts', state')  BY <1>3, <1>4 DEF FoldOK
<1>6. Covers(state', state)
  BY <1>1, CoversItself DEF FoldInv, RecordInv, Inv, DataOK, TablesOK
<1> QED  BY <1>1, <1>3, <1>4, <1>5, <1>6, FoldMoves DEF FoldInv

LEMMA FoldTableFolds ==
  ASSUME FoldInv, RecordInv', NEW b \in Batch, FoldTable(b)
  PROVE  FoldsOK'
<1> DEFINE n == run[b].next
           Of(i) == {f \in facts : f.batch = b /\ Table(f) = Tables[i]}
           W == Winners(Of(n))
<1>1. /\ run[b] # None /\ run[b].pc = "fold" /\ NextTable(b, "fold", "publish")
      /\ UNCHANGED <<facts, markers>>
  BY DEF FoldTable, At
<1>2. state' = Merged(state, W)  BY DEF FoldTable, Current, FactsOf
<1>3. run = [c \in Batch |-> run[c]] /\ run[b] \in AttemptState /\ FoldOK(b, run[b], Completed, facts, state)
  BY <1>1 DEF FoldInv, RecordInv, Inv, AttemptsOK, AttemptOK, FoldsOK
<1>4. /\ facts \subseteq Fact /\ state \subseteq Fact /\ state' \subseteq Fact
      /\ state = Winners(state) /\ IsFiniteSet(facts)
  BY DEF FoldInv, RecordInv, StateReduced, Inv, DataOK, TablesOK
<1>5. \A i \in 1..Len(Tables) : Of(i) \subseteq Fact /\ IsFiniteSet(Of(i))
  BY <1>4, FS_Subset
<1>6. n \in 1..Len(Tables) /\ n \in Nat  BY <1>3, BatchRunAssumption DEF AttemptState
<1>7. W \subseteq Fact /\ Covers(W, Of(n))  BY <1>5, <1>6, WinnersCover DEF Winners
<1>8. \A i \in 1..Len(Tables) : i < n => Covers(state, Of(i))
  BY <1>1, <1>3 DEF FoldOK
<1> HIDE DEF Of, W
<1>9. Covers(state', state) /\ Covers(state', W)
  <2>1. Covers(state', state \cup W)  BY <1>2, <1>4, <1>7, MergeCovers
  <2> QED  BY <2>1 DEF Covers
<1>10. Covers(state', Of(n))  BY <1>4, <1>5, <1>6, <1>7, <1>9, CoversTransitive
<1>11. \A i \in 1..Len(Tables) : i < n => Covers(state', Of(i))
  BY <1>4, <1>5, <1>8, <1>9, CoversTransitive
<1>12. /\ run'[b].pc = (IF n < Len(Tables) THEN "fold" ELSE "publish")
       /\ run'[b].next = (IF n < Len(Tables) THEN n + 1 ELSE 1)
       /\ \A c \in Batch \ {b} : run'[c] = run[c]
  BY <1>1, <1>3 DEF NextTable, AttemptState
<1>13. ASSUME NEW i \in 1..Len(Tables), run'[b].pc = "publish" \/ i < run'[b].next
       PROVE  Covers(state', Of(i))
  <2>1. i < n \/ i = n  BY <1>6, <1>12, <1>13, BatchRunAssumption
  <2> QED  BY <1>10, <1>11, <2>1
<1>14. Completed' = Completed  BY <1>1 DEF Completed
<1>15. FoldOK(b, run'[b], Completed', facts', state')
  BY <1>1, <1>3, <1>12, <1>13, <1>14 DEF FoldOK, Of
<1> QED  BY <1>1, <1>9, <1>12, <1>14, <1>15, FoldMoves DEF FoldInv

LEMMA StepFoldInv ==
  ASSUME FoldInv, [BatchNext]_vars
  PROVE  FoldInv'
<1>1. RecordInv' /\ IsFiniteSet(facts')  BY StepRecord, FactsFinite DEF FoldInv, RecordInv
<1>2. Covers(state, state)  BY CoversItself DEF FoldInv, RecordInv, Inv, DataOK, TablesOK
<1>3. ASSUME NEW b \in Batch, Begin(b) \/ Die(b) \/ Advance(b) PROVE FoldsOK'
  <2>1. CASE Complete(b)  BY <1>1, <2>1, CompleteFolds
  <2>2. CASE FoldTable(b)  BY <1>1, <2>2, FoldTableFolds
  <2>3. CASE ~Complete(b) /\ ~FoldTable(b)
    BY <1>1, <1>2, <1>3, <2>3, BeforeFold, FoldMoves DEF FoldInv, RecordInv
  <2> QED  BY <2>1, <2>2, <2>3
<1>4. CASE UNCHANGED vars
  BY <1>1, <1>4 DEF vars, FoldInv, FoldsOK, Completed
<1> QED  BY <1>1, <1>3, <1>4 DEF FoldInv, BatchNext

\* Before batch-completed is emitted the batch is completed and the state shows
\* what it committed, or what beats it, whatever its siblings folded.
THEOREM AnnouncedAfterFold == BatchSpec => []AnnouncedIsFolded
<1>1. BatchInit => FoldInv
  <2>1. BatchInit => facts = {} /\ FoldsOK  BY DEF BatchInit, Init, FoldsOK
  <2> QED  BY <2>1, InitRecordInv, FS_EmptySet DEF FoldInv
<1>2. FoldInv => AnnouncedIsFolded
  <2> SUFFICES ASSUME FoldInv, NEW b \in Batch, At(b, "publish")
               PROVE  /\ b \in Completed
                      /\ \A f \in facts : f.batch = b => \E s \in state : SameDomain(f, s) /\ ~Beats(f, s)
    BY DEF AnnouncedIsFolded
  <2>1. FoldOK(b, run[b], Completed, facts, state) /\ run[b].pc = "publish"
    BY DEF At, FoldInv, FoldsOK
  <2>2. ASSUME NEW f \in facts, f.batch = b
        PROVE  \E s \in state : SameDomain(f, s) /\ ~Beats(f, s)
    <3>1. f.row \in Row  BY DEF FoldInv, RecordInv, Inv, DataOK, TablesOK, Fact
    <3>2. PICK i \in 1..Len(Tables) : Table(f) = Tables[i]
      BY <3>1, BatchRunAssumption DEF Table, TableSet
    <3>3. Covers(state, {g \in facts : g.batch = b /\ Table(g) = Tables[i]})
      BY <2>1 DEF FoldOK
    <3> QED  BY <2>2, <3>2, <3>3 DEF Covers
  <2> QED  BY <2>1, <2>2 DEF FoldOK
<1> QED  BY <1>1, <1>2, StepFoldInv, PTL DEF BatchSpec

-------------------------------------------------------------------------------
\* What the state shows although unchanged candidates were dropped

\* No batch has two rows of one domain that the declared columns do not order.
NoTies ==
  \A b \in Batch : \A r \in RowsOf[b] : \A q \in RowsOf[b] :
    r # q /\ TableOf[r] = TableOf[q] /\ DomainOf[r] = DomainOf[q] => Ordering[r] # Ordering[q]

FactsOfRows == \A f \in facts : f.row \in RowsOf[f.batch]

ShownInv == RecordInv /\ AllKept /\ FactsOfRows /\ IsFiniteSet(Completed)

LEMMA InitShownInv == BatchInit => ShownInv
<1>1. BatchInit => AllKept /\ FactsOfRows /\ Completed = {}
  BY DEF BatchInit, Init, AllKept, KeepsAll, Completed, FactsOfRows
<1> QED  BY <1>1, InitRecordInv, FS_EmptySet DEF ShownInv

LEMMA StepShownInv == ASSUME ShownInv, [BatchNext]_vars PROVE ShownInv'
<1>1. RecordInv'  BY StepRecord DEF ShownInv
<1>2. AllKept'  BY StepLossInv DEF ShownInv, LossInv, RecordInv
<1>3. FactsOfRows'
  <2>1. ASSUME NEW b \in Batch, AppendFacts(b) PROVE FactsOfRows'
    <3>1. run[b].novel \subseteq RowsOf[b]
      BY <2>1 DEF AppendFacts, At, ShownInv, RecordInv, Inv, AttemptsOK, AttemptOK
    <3>2. facts' = facts \cup {[batch |-> b, row |-> r] : r \in run[b].novel}
      BY <2>1 DEF AppendFacts
    <3> QED  BY <3>1, <3>2 DEF ShownInv, FactsOfRows
  <2>2. (~\E b \in Batch : AppendFacts(b)) => facts' = facts
    BY DEF vars, BatchNext, Begin, Die, Advance, Land, Announce, Check, ReadCompletions, Resolve,
           Filter, Twin, Complete, FoldTable, Publish
  <2> QED  BY <2>1, <2>2 DEF ShownInv, FactsOfRows
<1>4. IsFiniteSet(Completed')
  <2>1. ASSUME NEW b \in Batch, Complete(b) \/ Twin(b) PROVE Completed' \subseteq Completed \cup {b}
    BY <2>1 DEF Complete, Twin, Completed
  <2>2. (~\E b \in Batch : Complete(b) \/ Twin(b)) => Completed' = Completed
    BY DEF vars, BatchNext, Begin, Die, Advance, Land, Announce, Check, ReadCompletions, Resolve,
           Filter, AppendFacts, FoldTable, Publish, Completed
  <2>3. \A b \in Batch : IsFiniteSet(Completed \cup {b})
    BY FS_AddElement DEF ShownInv
  <2> QED  BY <2>1, <2>2, <2>3, FS_Subset DEF ShownInv
<1> QED  BY <1>1, <1>2, <1>3, <1>4 DEF ShownInv

\* What the completed batches assert is a finite set of facts.
LEMMA AssertedFinite ==
  ASSUME ShownInv
  PROVE  Asserted \subseteq Fact /\ IsFiniteSet(Asserted)
<1> DEFINE Of(b) == {[batch |-> b, row |-> r] : r \in RowsOf[b]}
           Sets == {Of(b) : b \in Completed}
<1>1. Completed \subseteq Batch  BY DEF Completed
<1>2. ASSUME NEW b \in Completed PROVE IsFiniteSet(Of(b))
  <2> DEFINE f == [r \in RowsOf[b] |-> [batch |-> b, row |-> r]]
  <2>1. f \in Surjection(RowsOf[b], Of(b))  BY DEF Surjection
  <2>2. IsFiniteSet(RowsOf[b])  BY <1>1, BatchRunAssumption
  <2> QED  BY <2>1, <2>2, FS_Surjection
<1>3. IsFiniteSet(Sets)
  <2> DEFINE f == [b \in Completed |-> Of(b)]
  <2>1. f \in Surjection(Completed, Sets)  BY DEF Surjection
  <2> QED  BY <2>1, FS_Surjection DEF ShownInv
<1>4. Asserted \subseteq UNION Sets
  <2>1. ASSUME NEW a \in Asserted PROVE \E S \in Sets : a \in S
    <3>1. a \in Of(a.batch) /\ a.batch \in Completed  BY DEF Asserted
    <3> QED  BY <3>1
  <2> QED  BY <2>1
<1> HIDE DEF Of, Sets
<1>5. IsFiniteSet(UNION Sets)
  <2>1. \A S \in Sets : IsFiniteSet(S)  BY <1>2 DEF Sets
  <2> QED  BY <1>3, <2>1, FS_UNION
<1>6. IsFiniteSet(Asserted)  BY <1>4, <1>5, FS_Subset
<1>7. Asserted \subseteq Fact  BY <1>1 DEF Asserted, Fact
<1> QED  BY <1>6, <1>7

\* Once nothing is half committed every fact is asserted.
LEMMA FactsAsserted ==
  ASSUME ShownInv, Quiet
  PROVE  facts \subseteq Asserted
<1> SUFFICES ASSUME NEW f \in facts PROVE f \in Asserted  OBVIOUS
<1>1. f \in Fact /\ f.row \in RowsOf[f.batch]
  BY DEF ShownInv, FactsOfRows, RecordInv, Inv, DataOK, TablesOK
<1>2. f.batch \in Completed
  <2>1. f.batch \in Batch /\ f.row \in Row  BY <1>1 DEF Fact
  <2>2. Table(f) \in TableSet  BY <2>1, BatchRunAssumption DEF Table
  <2>3. <<f.batch, Table(f)>> \in markers
    BY DEF ShownInv, RecordInv, Inv, DataOK, TwinBeforeFacts
  <2>4. f.batch \in Twinned  BY <2>1, <2>2, <2>3 DEF Twinned
  <2> QED  BY <2>4 DEF Quiet
<1>3. ~\E q \in quarantine : q.batch = f.batch /\ q.row = f.row
  BY DEF ShownInv, RecordInv, Inv, DataOK, OneJudgment
<1>4. f \in [batch : Completed, row : Row]  BY <1>1, <1>2 DEF Fact
<1> QED  BY <1>1, <1>3, <1>4 DEF Asserted

\* At rest the state is the reduction of all facts.
LEMMA StateAtRest ==
  ASSUME ShownInv, Quiet
  PROVE  state = Winners(facts)
<1>1. facts \in SUBSET Fact /\ state \in SUBSET facts /\ state = Winners(state)
  BY DEF ShownInv, RecordInv, StateReduced, Inv, DataOK, TablesOK
<1>2. Covers(state, facts)  BY DEF Quiet, Covers
<1> QED  BY <1>1, <1>2, ReducedCover

\* The fact that an asserted winner was dropped for wins among the facts: what
\* would beat it was seen, and then the batch would not have been its successor.
LEMMA DroppedWinner ==
  ASSUME NoTies, ShownInv, Quiet, NoLateBatch,
         NEW w \in Winners(Asserted)
  PROVE  \E f \in Winners(facts) : f.row = w.row /\ SameDomain(f, w)
<1> DEFINE b == w.batch
           r == w.row
           t == TableOf[r]
<1>1. w \in Asserted /\ \A g \in Asserted : SameDomain(w, g) => ~Beats(g, w)
  BY DEF Winners
<1>2. /\ w \in Fact /\ b \in Completed /\ b \in Batch /\ r \in Row /\ r \in RowsOf[b] /\ t \in TableSet
      /\ ~\E q \in quarantine : q.batch = b /\ q.row = r
  BY <1>1, BatchRunAssumption DEF Asserted, Completed, Fact
<1>3. Accounted(b, r, basis[<<b, t>>], quarantine, facts, Completed)
  BY <1>2 DEF ShownInv, AllKept, KeepsAll, TableAccounted
<1>4. facts \subseteq Asserted /\ facts \subseteq Fact
  BY FactsAsserted DEF ShownInv, RecordInv, Inv, DataOK, TablesOK
<1>5. CASE w \in facts
  <2>1. w \in Winners(facts)  BY <1>1, <1>4, <1>5 DEF Winners
  <2> QED  BY <2>1 DEF SameDomain
<1>6. CASE w \notin facts
  <2>1. PICK f \in facts : /\ f.row = r
                           /\ \/ f.batch = b
                              \/ f.batch \in Completed /\ \A c \in basis[<<b, t>>] : c <= f.batch
    BY <1>2, <1>3 DEF Accounted
  <2>2. f \in Fact /\ f.batch \in Batch /\ f.batch \in Nat /\ b \in Nat /\ r \in Nat /\ Ordering[r] \in Nat
    BY <1>2, <1>4, FactFields DEF Fact
  <2>3. SameDomain(f, w) /\ SameDomain(w, f)  BY <2>1 DEF SameDomain, Table
  <2>4. f.batch < b
    <3>1. f.batch # b  BY <1>2, <1>6, <2>1, <2>2 DEF Fact
    <3>2. ~Beats(f, w)  BY <1>1, <1>4, <2>3
    <3> QED  BY <2>1, <2>2, <3>1, <3>2 DEF Beats
  <2>5. ASSUME NEW g \in facts, SameDomain(f, g), Beats(g, f) PROVE FALSE
    <3>1. /\ g \in Fact /\ g.batch \in Nat /\ g.batch \in Batch /\ g.row \in Nat
          /\ Ordering[g.row] \in Nat /\ g.row \in RowsOf[g.batch]
      BY <1>4, FactFields DEF Fact, ShownInv, FactsOfRows
    <3>2. SameDomain(w, g)  BY <2>3, <2>5 DEF SameDomain
    <3>3. ~Beats(g, w)  BY <1>1, <1>4, <3>2
    <3>4. TableOf[g.row] = t /\ DomainOf[g.row] = DomainOf[r]
      BY <3>2 DEF SameDomain, Table
    <3>5. Ordering[g.row] = Ordering[r]
      BY <2>1, <2>2, <2>5, <3>1, <3>3 DEF Beats
    <3>6. g.batch # b
      <4>1. g.batch = b => g.row = r  BY <1>2, <3>1, <3>4, <3>5 DEF NoTies
      <4> QED  BY <1>2, <1>6, <3>1, <4>1 DEF Fact
    <3>7. g.batch # f.batch
      <4>1. r \in RowsOf[f.batch]  BY <2>1 DEF ShownInv, FactsOfRows
      <4>2. g.batch = f.batch => g.row = r  BY <2>2, <3>1, <3>4, <3>5, <4>1 DEF NoTies
      <4> QED  BY <2>1, <2>2, <2>5, <3>1, <4>2 DEF Beats
    <3>8. g.batch > f.batch  BY <2>1, <2>2, <2>5, <3>1, <3>5, <3>7 DEF Beats
    <3>9. g.batch < b  BY <2>2, <3>1, <3>3, <3>5, <3>6 DEF Beats
    <3>10. g.batch \in Completed  BY <1>4 DEF Asserted
    <3>11. g.batch \in basis[<<b, t>>]  BY <1>2, <3>9, <3>10 DEF NoLateBatch
    <3> QED  BY <2>1, <2>2, <2>4, <3>1, <3>8, <3>11
  <2>6. f \in Winners(facts)  BY <2>5 DEF Winners
  <2> QED  BY <2>1, <2>3, <2>6
<1> QED  BY <1>5, <1>6

\* Dropping unchanged candidates costs no state: for every feed whose batches
\* have no ties, the state at rest shows what it would show had every batch
\* committed all it asserts.
THEOREM DropsCostNoState ==
  ASSUME NoTies
  PROVE  BatchSpec => []StateAsAsserted
<1>1. ASSUME ShownInv, Quiet, NoLateBatch
      PROVE  Content(state) = Content(Winners(Asserted))
  <2> DEFINE A == Winners(Asserted)
             W == Winners(facts)
  <2>1. /\ Asserted \in SUBSET Fact /\ IsFiniteSet(Asserted) /\ facts \subseteq Asserted
        /\ state = W
    BY <1>1, AssertedFinite, FactsAsserted, StateAtRest
  <2>2. \A w \in A : \E f \in W : f.row = w.row /\ SameDomain(f, w)
    BY <1>1, DroppedWinner
  <2>3. ASSUME NEW f \in W PROVE \E w \in A : w.row = f.row
    <3>1. f \in facts /\ \A g \in facts : SameDomain(f, g) => ~Beats(g, f)  BY DEF Winners
    <3>2. Covers(A, Asserted)  BY <2>1, WinnersCover
    <3>3. PICK w \in A : SameDomain(f, w)  BY <2>1, <3>1, <3>2 DEF Covers
    <3>4. PICK g \in W : g.row = w.row /\ SameDomain(g, w)  BY <2>2
    <3>5. g \in facts /\ \A h \in facts : SameDomain(g, h) => ~Beats(h, g)  BY DEF Winners
    <3>6. SameDomain(f, g) /\ SameDomain(g, f)  BY <3>3, <3>4 DEF SameDomain
    <3>7. f = g  BY <2>1, <3>1, <3>5, <3>6, BeatsTotal
    <3> QED  BY <3>4, <3>7
  <2> HIDE DEF A, W
  <2>4. Content(W) = Content(A)
    <3>1. ASSUME NEW x \in Content(W) PROVE x \in Content(A)  BY <2>3, <3>1 DEF Content
    <3>2. ASSUME NEW x \in Content(A) PROVE x \in Content(W)
      <4>1. PICK w \in A : x = w.row  BY DEF Content
      <4>2. PICK f \in W : f.row = w.row  BY <2>2
      <4> QED  BY <4>1, <4>2 DEF Content
    <3> QED  BY <3>1, <3>2
  <2> QED  BY <2>1, <2>4 DEF A
<1>2. ShownInv => StateAsAsserted  BY <1>1 DEF StateAsAsserted
<1> QED  BY <1>2, InitShownInv, StepShownInv, PTL DEF BatchSpec

================================================================================
