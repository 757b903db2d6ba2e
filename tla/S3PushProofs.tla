----------------------------- MODULE S3PushProofs -----------------------------
(***************************************************************************)
(* What is proved of S3Push for every value of its constants: types and    *)
(* the safety of the turnstile, then what depends on the clock and on the  *)
(* order of the ledger (takeovers, re-registrations, corrections and the   *)
(* weekly reconciliation).                                                 *)
(***************************************************************************)
EXTENDS S3Push, LedgerFoldsProofs

-------------------------------------------------------------------------------
\* Type correctness

\* The state of a live run is typed, and the slots it names have been filled.
RunOK(s) ==
  /\ s \in RunState
  /\ s.kind = "none" <=> s.pc \in {"claim", "read", "take"}
  /\ slot[s.msg.slot] # None /\ slot[s.req.slot] # None /\ slot[s.id.slot] # None

ClaimOK(b) == claims[b] \in Claim /\ claims[b].id.batch = b /\ slot[claims[b].id.slot] # None

RunsOK == run = [p \in Run |-> run[p]] /\ \A p \in Live : RunOK(run[p])

ClaimsOK ==
  /\ claims = [b \in Content |-> claims[b]]
  /\ \A b \in Content : claims[b] # None => ClaimOK(b)

RestOK ==
  /\ clock \in Nat /\ stamp \in Nat
  /\ slot \in [Slot -> Content \cup {None}]
  /\ \A s \in Slot : slot[s] # None => <<s, slot[s]>> \in Uploads
  /\ inbox \subseteq Message /\ \A m \in inbox : slot[m.slot] # None
  /\ ledger \subseteq Row
  /\ canonical \subseteq Nat \X Content
  /\ events \subseteq Identity
  /\ swept \in [Content -> Int]
  /\ recon \in [busy : BOOLEAN, rows : SUBSET Row, runs : Nat]

\* TypeOK, strengthened to be inductive: whatever names a slot names a filled
\* one, so that a run that reads it reads an object.
TypeInv == RestOK /\ RunsOK /\ ClaimsOK

LEMMA TypeInvTypeOK == TypeInv => TypeOK
<1>1. ASSUME RunsOK PROVE \A p \in Live : run[p].rows \subseteq Row
  BY <1>1 DEF RunsOK, RunOK, RunState
<1> QED  BY <1>1 DEF TypeInv, TypeOK, RestOK, RunsOK, RunOK, ClaimsOK, ClaimOK

LEMMA InitTypeInv == RegistrationInit => TypeInv
  BY ConstantsAssumption DEF RegistrationInit, TypeInv, RestOK, RunsOK, ClaimsOK, Live

\* A run moves to a typed state.
LEMMA RunMoves ==
  ASSUME RunsOK, NEW p \in Live, NEW s, RunOK(s), run' = [run EXCEPT ![p] = s], slot' = slot
  PROVE  RunsOK'
  BY DEF RunsOK, RunOK, Live

\* A run ends.
LEMMA RunEnds ==
  ASSUME RunsOK, NEW p \in Live, run' = [run EXCEPT ![p] = None], slot' = slot
  PROVE  RunsOK'
  BY DEF RunsOK, RunOK, Live

\* A claim becomes a typed claim.
LEMMA ClaimMoves ==
  ASSUME ClaimsOK, NEW b \in Content, NEW c \in Claim, c.id.batch = b, slot[c.id.slot] # None,
         claims' = [claims EXCEPT ![b] = c], slot' = slot
  PROVE  ClaimsOK'
  BY DEF ClaimsOK, ClaimOK

LEMMA ClaimsStay == ASSUME ClaimsOK, UNCHANGED <<claims, slot>> PROVE ClaimsOK'
  BY DEF ClaimsOK, ClaimOK

LEMMA RunsStay == ASSUME RunsOK, UNCHANGED <<run, slot>> PROVE RunsOK'
  BY DEF RunsOK, RunOK, Live

LEMMA RestStays ==
  ASSUME RestOK,
         UNCHANGED <<clock, stamp, slot, inbox, ledger, canonical, events, swept, recon>>
  PROVE  RestOK'
  BY DEF RestOK

LEMMA ClaimWinType == ASSUME TypeInv, NEW p \in Run, ClaimWin(p) PROVE TypeInv'
<1> DEFINE s == [run[p] EXCEPT !.pc = "plan", !.kind = "WON", !.id = run[p].req]
           c == [id |-> run[p].req, owner |-> run[p].msg.rid, status |-> "in_progress",
                 claimedAt |-> clock, expires |-> clock + ClaimTTL]
<1>1. RestOK /\ RunsOK /\ ClaimsOK  BY DEF TypeInv
<1>2. p \in Live /\ RunOK(run[p])  BY <1>1 DEF ClaimWin, At, RunsOK
<1>3. RunOK(s) /\ run' = [run EXCEPT ![p] = s]  BY <1>2 DEF RunOK, RunState, Steps, ClaimWin
<1>4. c \in Claim /\ run[p].req.batch \in Content
  BY <1>1, <1>2, ConstantsAssumption DEF RunOK, RunState, Message, Identity, Claim, RestOK
<1>5. ClaimsOK'  BY <1>1, <1>2, <1>4, ClaimMoves DEF ClaimWin, RunOK
<1>6. RunsOK'  BY <1>1, <1>2, <1>3, RunMoves DEF ClaimWin
<1>7. RestOK'  BY <1>1, RestStays DEF ClaimWin, background
<1> QED  BY <1>5, <1>6, <1>7 DEF TypeInv

LEMMA ClaimReadType == ASSUME TypeInv, NEW p \in Run, ClaimRead(p) PROVE TypeInv'
<1> DEFINE c == claims[run[p].req.batch]
           lost == [run[p] EXCEPT !.pc = "plan", !.kind = "LOST", !.id = run[p].req]
           take == [run[p] EXCEPT !.pc = "take", !.id = c.id, !.owner = c.owner]
<1>1. RestOK /\ RunsOK /\ ClaimsOK  BY DEF TypeInv
<1>2. p \in Live /\ RunOK(run[p]) /\ c # None /\ run[p].pc = "read"
  BY <1>1 DEF ClaimRead, At, RunsOK
<1>3. run[p].req.batch \in Content  BY <1>2 DEF RunOK, RunState, Identity
<1>4. ClaimOK(run[p].req.batch)  BY <1>1, <1>2, <1>3 DEF ClaimsOK
<1>5. RunOK(lost)  BY <1>2 DEF RunOK, RunState, Steps
<1>6. RunOK(take)  BY <1>2, <1>4 DEF RunOK, RunState, Steps, ClaimOK, Claim
<1>7. run' = [run EXCEPT ![p] = lost] \/ run' = [run EXCEPT ![p] = take]
  BY DEF ClaimRead, Lost
<1>8. RunsOK'  BY <1>1, <1>2, <1>5, <1>6, <1>7, RunMoves DEF ClaimRead
<1>9. ClaimsOK' /\ RestOK'  BY <1>1, RestStays, ClaimsStay DEF ClaimRead, background
<1> QED  BY <1>8, <1>9 DEF TypeInv

LEMMA ClaimTakeType == ASSUME TypeInv, NEW p \in Run, ClaimTake(p) PROVE TypeInv'
<1> DEFINE b == run[p].req.batch
           lost == [run[p] EXCEPT !.pc = "plan", !.kind = "LOST", !.id = run[p].req]
           taken == [run[p] EXCEPT !.pc = "plan", !.kind = "TAKEN_OVER"]
           c == [claims[b] EXCEPT !.owner = run[p].msg.rid, !.claimedAt = run[p].at]
<1>1. RestOK /\ RunsOK /\ ClaimsOK  BY DEF TypeInv
<1>2. p \in Live /\ RunOK(run[p])  BY <1>1 DEF ClaimTake, At, RunsOK
<1>3. b \in Content  BY <1>2 DEF RunOK, RunState, Identity
<1>4. RunOK(lost) /\ RunOK(taken)  BY <1>2 DEF RunOK, RunState, Steps
<1>5. RestOK'  BY <1>1, RestStays DEF ClaimTake, background
<1>6. CASE ~OwnerUnchanged(p)
  <2>1. run' = [run EXCEPT ![p] = lost] /\ UNCHANGED <<claims, slot>>
    BY <1>6 DEF ClaimTake, Lost
  <2> QED  BY <1>1, <1>2, <1>4, <1>5, <2>1, RunMoves, ClaimsStay DEF TypeInv
<1>7. CASE OwnerUnchanged(p)
  <2>1. /\ run' = [run EXCEPT ![p] = taken] /\ slot' = slot
        /\ claims' = [claims EXCEPT ![b] = c]
    BY <1>7 DEF ClaimTake
  <2>2. ClaimOK(b)  BY <1>1, <1>3, <1>7 DEF ClaimsOK, OwnerUnchanged
  <2>3. c \in Claim /\ c.id = claims[b].id
    BY <1>2, <2>2 DEF ClaimOK, Claim, RunOK, RunState, Message
  <2>4. ClaimsOK'  BY <1>1, <1>3, <2>1, <2>2, <2>3, ClaimMoves DEF ClaimOK
  <2> QED  BY <1>1, <1>2, <1>4, <1>5, <2>1, <2>4, RunMoves DEF TypeInv
<1> QED  BY <1>6, <1>7

LEMMA ClaimLoseType == ASSUME TypeInv, NEW p \in Run, ClaimLose(p) PROVE TypeInv'
<1> DEFINE s == [run[p] EXCEPT !.pc = "read", !.at = clock]
<1>1. RestOK /\ RunsOK /\ ClaimsOK  BY DEF TypeInv
<1>2. p \in Live /\ RunOK(run[p]) /\ run[p].pc = "claim"  BY <1>1 DEF ClaimLose, At, RunsOK
<1>3. RunOK(s) /\ run' = [run EXCEPT ![p] = s]
  BY <1>1, <1>2 DEF RunOK, RunState, Steps, ClaimLose, RestOK
<1>4. RunsOK'  BY <1>1, <1>2, <1>3, RunMoves DEF ClaimLose
<1>5. ClaimsOK' /\ RestOK'  BY <1>1, RestStays, ClaimsStay DEF ClaimLose, background
<1> QED  BY <1>4, <1>5 DEF TypeInv

\* A failed invocation goes back to the inbox or to the dead-letter queue.
LEMMA RequeueType ==
  ASSUME TypeInv, NEW p \in Live, Requeue(p),
         UNCHANGED <<clock, stamp, slot, claims, ledger, canonical, events, swept, recon>>
  PROVE  TypeInv'
<1> DEFINE m == run[p].msg
<1>1. RestOK /\ RunsOK /\ ClaimsOK  BY DEF TypeInv
<1>2. RunOK(run[p])  BY <1>1 DEF RunsOK
<1>3. [m EXCEPT !.tries = @ + 1] \in Message /\ slot[m.slot] # None
  BY <1>2 DEF RunOK, RunState, Message
<1>4. inbox' \subseteq inbox \cup {[m EXCEPT !.tries = @ + 1]}  BY DEF Requeue
<1>5. /\ inbox' \subseteq Message
      /\ \A i \in inbox' : slot[i.slot] # None
  BY <1>1, <1>3, <1>4 DEF RestOK, Message
<1>6. RestOK'  BY <1>1, <1>5 DEF RestOK
<1>7. RunsOK' /\ ClaimsOK'  BY <1>1, RunEnds, ClaimsStay DEF Requeue
<1> QED  BY <1>6, <1>7 DEF TypeInv

LEMMA ClaimVanishedType == ASSUME TypeInv, NEW p \in Run, ClaimVanished(p) PROVE TypeInv'
  BY RequeueType DEF ClaimVanished, At, background

LEMMA FailType == ASSUME TypeInv, NEW p \in Run, Fail(p) PROVE TypeInv'
  BY RequeueType DEF Fail

\* Every row of a plan is a row.
LEMMA PlannedRowsType == 
  ASSUME TypeInv, NEW p \in Live, run[p].kind # "none" PROVE PlannedRows(p) \subseteq Row
<1>1. /\ run[p].id \in Identity
      /\ run[p].kind \in {"none", "WON", "TAKEN_OVER", "LOST", "incomplete", "unreadable"}
      /\ stamp \in Nat /\ ledger \subseteq Row
  BY DEF TypeInv, RestOK, RunsOK, RunOK, RunState
<1>2. ASSUME NEW id \in Identity PROVE \A r \in Corrected(id) : r \in Row /\ r.id.delivery \in Nat
  BY <1>1 DEF Corrected, LivePrior, RegisteredDeliveries, LatestDispositions, Row, Identity
<1>3. ASSUME NEW id \in Identity, NEW d \in Dispositions, NEW S \in SUBSET Nat
      PROVE  NewRow(id, d, S) \in Row
  BY <1>1 DEF NewRow, Row
<1>4. ASSUME NEW r \in Row PROVE Superseded(r) \in Row
  <2>1. "superseded" \in Dispositions /\ stamp + 1 \in Nat  BY <1>1 DEF Dispositions
  <2> QED  BY <2>1 DEF Superseded, Row
<1>5. ASSUME NEW id \in Identity PROVE RegistrationRows(id) \subseteq Row
  <2>1. {r.id.delivery : r \in Corrected(id)} \in SUBSET Nat  BY <1>2
  <2> QED  BY <1>2, <1>3, <1>4, <2>1 DEF RegistrationRows, Dispositions
<1>6. CASE run[p].kind \in {"WON", "TAKEN_OVER"}  BY <1>1, <1>5, <1>6 DEF PlannedRows
<1>7. CASE run[p].kind = "LOST"
  <2>1. NewRow(run[p].id, "duplicate", {}) \in Row  BY <1>1, <1>3 DEF Dispositions
  <2> QED  BY <1>7, <2>1 DEF PlannedRows
<1>8. CASE run[p].kind \in {"incomplete", "unreadable"}
  <2>1. NewRow(run[p].id, run[p].kind, {}) \in Row  BY <1>1, <1>3, <1>8 DEF Dispositions
  <2> QED  BY <1>8, <2>1 DEF PlannedRows
<1> QED  BY <1>1, <1>6, <1>7, <1>8

LEMMA PlanType == ASSUME TypeInv, NEW p \in Run, Plan(p) PROVE TypeInv'
<1> DEFINE s == [run[p] EXCEPT !.rows = PlannedRows(p), !.pc = AfterPlan(p)]
<1>1. RestOK /\ RunsOK /\ ClaimsOK  BY DEF TypeInv
<1>2. p \in Live /\ RunOK(run[p]) /\ run[p].pc = "plan"  BY <1>1 DEF Plan, At, RunsOK
<1>3. run[p].kind # "none"  BY <1>2 DEF RunOK
<1>4. PlannedRows(p) \subseteq Row  BY <1>2, <1>3, PlannedRowsType
<1>5. AfterPlan(p) \in Steps \ {"claim", "read", "take"}  BY DEF AfterPlan, Steps
<1>6. RunOK(s)  BY <1>2, <1>3, <1>4, <1>5 DEF RunOK, RunState
<1>7. RunsOK'  BY <1>1, <1>2, <1>6, RunMoves DEF Plan
<1>8. RestOK'  BY <1>1 DEF RestOK, Plan, background
<1>9. ClaimsOK'  BY <1>1, ClaimsStay DEF Plan
<1> QED  BY <1>7, <1>8, <1>9 DEF TypeInv

\* A run that only moves to a later step.
LEMMA GotoType ==
  ASSUME RunsOK, NEW p \in Run, NEW step, NEW next \in Steps \ {"claim", "read", "take"},
         Goto(p, step, next), run[p].kind # "none", slot' = slot
  PROVE  RunsOK'
<1> DEFINE s == [run[p] EXCEPT !.pc = next]
<1>1. p \in Live /\ RunOK(run[p])  BY DEF Goto, At, RunsOK
<1>2. RunOK(s) /\ run' = [run EXCEPT ![p] = s]  BY <1>1 DEF RunOK, RunState, Goto
<1> QED  BY <1>1, <1>2, RunMoves

LEMMA ExecuteType ==
  ASSUME TypeInv, NEW p \in Run, Copy(p) \/ AppendRows(p) \/ Emit(p) \/ Complete(p)
  PROVE  TypeInv'
<1> DEFINE b == run[p].id.batch
           c == [claims[b] EXCEPT !.status = "completed", !.expires = clock + ClaimTTL]
<1>1. RestOK /\ RunsOK /\ ClaimsOK  BY DEF TypeInv
<1>2. p \in Live /\ RunOK(run[p]) /\ run[p].pc \in {"copy", "append", "emit", "complete"}
  BY <1>1 DEF Copy, AppendRows, Emit, Complete, Goto, At, RunsOK
<1>3. /\ run[p].kind # "none" /\ run[p].id \in Identity /\ b \in Content
      /\ run[p].id.delivery \in Nat /\ run[p].rows \subseteq Row
  BY <1>2 DEF RunOK, RunState, Identity
<1>4. RunsOK'
  <2>1. CASE Copy(p)  BY <1>1, <1>3, <2>1, GotoType DEF Copy, Steps
  <2>2. CASE AppendRows(p)
    <3>1. PICK next \in {"emit", "done"} : Goto(p, "append", next)
      <4>1. CASE run[p].kind \in {"WON", "TAKEN_OVER"}  BY <2>2, <4>1 DEF AppendRows
      <4>2. CASE run[p].kind \notin {"WON", "TAKEN_OVER"}  BY <2>2, <4>2 DEF AppendRows
      <4> QED  BY <4>1, <4>2
    <3>2. next \in Steps \ {"claim", "read", "take"} /\ slot' = slot  BY <2>2 DEF Steps, AppendRows
    <3> QED  BY <1>1, <1>3, <3>1, <3>2, GotoType
  <2>3. CASE Emit(p)  BY <1>1, <1>3, <2>3, GotoType DEF Emit, Steps
  <2>4. CASE Complete(p)  BY <1>1, <1>3, <2>4, GotoType DEF Complete, Steps
  <2> QED  BY <2>1, <2>2, <2>3, <2>4
<1>5. ClaimsOK'
  <2>1. CASE UNCHANGED <<claims, slot>>  BY <1>1, <2>1, ClaimsStay
  <2>2. CASE Complete(p) /\ Completable(claims[b], run[p].msg.rid)
    <3>1. ClaimOK(b)  BY <1>1, <1>3, <2>2 DEF ClaimsOK, Completable
    <3>2. clock + ClaimTTL \in Nat  BY <1>1, ConstantsAssumption DEF RestOK
    <3>3. c \in Claim /\ c.id = claims[b].id  BY <3>1, <3>2 DEF ClaimOK, Claim
    <3> QED  BY <1>1, <1>3, <2>2, <3>1, <3>3, ClaimMoves DEF Complete, ClaimOK
  <2> QED  BY <2>1, <2>2 DEF Copy, AppendRows, Emit, Complete
<1>6. RestOK'
  <2>1. CASE Copy(p)  BY <1>1, <1>3, <2>1 DEF Copy, CopiedContent, RestOK, background
  <2>2. CASE AppendRows(p)  BY <1>1, <1>3, <2>2 DEF AppendRows, RestOK, background
  <2>3. CASE Emit(p)  BY <1>1, <1>3, <2>3 DEF Emit, RestOK, background
  <2>4. CASE Complete(p)  BY <1>1, <2>4, RestStays DEF Complete, background
  <2> QED  BY <2>1, <2>2, <2>3, <2>4
<1> QED  BY <1>4, <1>5, <1>6 DEF TypeInv

LEMMA ReturnType == ASSUME TypeInv, NEW p \in Run, Return(p) PROVE TypeInv'
<1>1. RestOK /\ RunsOK /\ ClaimsOK /\ p \in Live  BY DEF TypeInv, Return, At
<1> QED  BY <1>1, RunEnds, ClaimsStay, RestStays DEF Return, background, TypeInv

LEMMA PlatformType ==
  ASSUME TypeInv, \/ \E m \in inbox : Expire(m)
                  \/ \E b \in Content : Reap(b)
                  \/ Tick
  PROVE  TypeInv'
<1>1. RestOK /\ RunsOK /\ ClaimsOK  BY DEF TypeInv
<1>2. ASSUME NEW m \in inbox, Expire(m) PROVE TypeInv'
  BY <1>1, <1>2, RunsStay, ClaimsStay DEF Expire, background, TypeInv, RestOK
<1>3. ASSUME NEW b \in Content, Reap(b) PROVE TypeInv'
  <2>1. ClaimsOK'  BY <1>1, <1>3 DEF Reap, ClaimsOK, ClaimOK
  <2> QED  BY <1>1, <1>3, <2>1, RunsStay, RestStays DEF Reap, background, TypeInv
<1>4. CASE Tick
  <2>1. RestOK'  BY <1>1, <1>4 DEF Tick, background, RestOK
  <2> QED  BY <1>1, <1>4, <2>1, RunsStay, ClaimsStay DEF Tick, TypeInv
<1> QED  BY <1>2, <1>3, <1>4

LEMMA ReconcileType ==
  ASSUME TypeInv, ReconcileRead \/ ReconcileAppend \/ ReconcileFail
  PROVE  TypeInv'
<1>1. RestOK /\ RunsOK /\ ClaimsOK  BY DEF TypeInv
<1>2. RunsOK' /\ ClaimsOK'
  BY <1>1, RunsStay, ClaimsStay DEF ReconcileRead, ReconcileAppend, ReconcileFail
<1>3. CASE ReconcileRead
  <2>1. LiveDuplicates(ledger) \subseteq Row
    BY <1>1 DEF RestOK, LiveDuplicates, RegisteredDeliveries, LatestDispositions
  <2> QED  BY <1>1, <1>2, <1>3, <2>1 DEF ReconcileRead, RestOK, TypeInv
<1>4. CASE ReconcileAppend
  <2>1. \A r \in Row : Superseded(r) \in Row
    <3>1. "superseded" \in Dispositions /\ stamp + 1 \in Nat  BY <1>1 DEF RestOK, Dispositions
    <3> QED  BY <3>1 DEF Superseded, Row
  <2>2. {Superseded(r) : r \in AllButNewest(recon.rows)} \subseteq Row
    BY <1>1, <2>1 DEF RestOK, AllButNewest
  <2> QED  BY <1>1, <1>2, <1>4, <2>2 DEF ReconcileAppend, NotReconciling, RestOK, TypeInv
<1>5. CASE ReconcileFail
  BY <1>1, <1>2, <1>5 DEF ReconcileFail, NotReconciling, RestOK, TypeInv
<1> QED  BY <1>3, <1>4, <1>5

LEMMA UploadType ==
  ASSUME TypeInv, NEW u \in Uploads, Upload(u[1], u[2]) PROVE TypeInv'
<1>1. RestOK /\ RunsOK /\ ClaimsOK  BY DEF TypeInv
<1>2. u[1] \in Slot /\ u[2] \in Content /\ u[2] # None /\ u = <<u[1], u[2]>>
  BY S3PushAssumption, ConstantsAssumption
<1>3. slot' = [slot EXCEPT ![u[1]] = u[2]]  BY DEF Upload
<1>4. \A s \in Slot : slot'[s] = IF s = u[1] THEN u[2] ELSE slot[s]
  BY <1>1, <1>3 DEF RestOK
<1>5. slot' \in [Slot -> Content \cup {None}] /\ \A s \in Slot : slot[s] # None => slot'[s] # None
  BY <1>1, <1>2, <1>3, <1>4 DEF RestOK
<1>6. \A s \in Slot : slot'[s] # None => <<s, slot'[s]>> \in Uploads
  BY <1>1, <1>2, <1>4 DEF RestOK
<1>7. Event(u[1]) \in Message /\ slot'[Event(u[1]).slot] # None
  BY <1>1, <1>2, <1>4 DEF Event, Message, RestOK
<1>8. RestOK'
  BY <1>1, <1>5, <1>6, <1>7 DEF Upload, RestOK, Message
<1>9. RunsOK'  BY <1>1, <1>5 DEF Upload, RunsOK, RunOK, RunState, Message, Identity, Live
<1>10. ClaimsOK'  BY <1>1, <1>5 DEF Upload, ClaimsOK, ClaimOK, Claim, Identity
<1> QED  BY <1>8, <1>9, <1>10 DEF TypeInv

LEMMA RedeliverType ==
  ASSUME TypeInv, NEW m \in inbox, Redeliver(m) PROVE TypeInv'
<1>1. RestOK /\ RunsOK /\ ClaimsOK  BY DEF TypeInv
<1>2. [m EXCEPT !.rid = stamp + 1] \in Message /\ slot[m.slot] # None
  BY <1>1 DEF RestOK, Message
<1>3. RestOK'  BY <1>1, <1>2 DEF RestOK, Redeliver, Message
<1> QED  BY <1>1, <1>3, RunsStay, ClaimsStay DEF Redeliver, TypeInv

LEMMA StartType ==
  ASSUME TypeInv, NEW p \in Run, NEW m \in inbox, Start(p, m) PROVE TypeInv'
<1> DEFINE verdict == Verdict[slot[m.slot]]
           s == [pc |-> IF verdict = "complete" THEN "claim" ELSE "plan",
                 msg |-> m, req |-> Acquired(m), id |-> Acquired(m),
                 kind |-> IF verdict = "complete" THEN "none" ELSE verdict,
                 owner |-> 0, at |-> 0, started |-> clock, rows |-> {}]
<1>1. RestOK /\ RunsOK /\ ClaimsOK  BY DEF TypeInv
<1>2. m \in Message /\ m.slot \in Slot /\ slot[m.slot] # None  BY <1>1 DEF RestOK, Message
<1>3. slot[m.slot] \in Content /\ <<m.slot, slot[m.slot]>> \in Uploads  BY <1>1, <1>2 DEF RestOK
<1>4. Acquired(m) \in Identity /\ Acquired(m).slot = m.slot
  BY <1>1, <1>2, <1>3, S3PushAssumption DEF Acquired, Identity, RestOK
<1>5. verdict \in {"complete", "incomplete", "unreadable"}  BY <1>3, S3PushAssumption
<1>6. s \in RunState
  BY <1>1, <1>2, <1>4, <1>5 DEF RunState, Steps, RestOK
<1>7. RunOK(s)  BY <1>2, <1>4, <1>5, <1>6 DEF RunOK
<1>8. run' = [run EXCEPT ![p] = s] /\ inbox' = inbox \ {m}  BY DEF Start, Invoked
<1> HIDE DEF s
<1>9. RunsOK'  BY <1>1, <1>7, <1>8 DEF Start, RunsOK, RunOK, Live
<1>10. ClaimsOK'  BY <1>1, ClaimsStay DEF Start
<1>11. RestOK'  BY <1>1, <1>8 DEF Start, background, RestOK
<1> QED  BY <1>9, <1>10, <1>11 DEF TypeInv

LEMMA SweepType ==
  ASSUME TypeInv, NEW b \in Content, Sweep(b) PROVE TypeInv'
<1>1. RestOK /\ RunsOK /\ ClaimsOK  BY DEF TypeInv
<1>2. ClaimOK(b)  BY <1>1 DEF ClaimsOK, Sweep, Stuck
<1>3. Event(claims[b].id.slot) \in Message /\ slot[Event(claims[b].id.slot).slot] # None
  BY <1>1, <1>2 DEF ClaimOK, Claim, Identity, Event, Message, RestOK
<1>4. RestOK'  BY <1>1, <1>3 DEF RestOK, Sweep
<1> QED  BY <1>1, <1>4, RunsStay, ClaimsStay DEF Sweep, TypeInv

LEMMA NextTypeInv == TypeInv /\ [Next]_vars => TypeInv'
<1> SUFFICES ASSUME TypeInv, [Next]_vars PROVE TypeInv'
  OBVIOUS
<1>1. ASSUME NEW p \in Run, Advance(p) PROVE TypeInv'
  BY <1>1, ClaimWinType, ClaimLoseType, ClaimReadType, ClaimVanishedType, ClaimTakeType,
     PlanType, ExecuteType, ReturnType DEF Advance
<1>2. CASE RegistrationNext
  BY <1>1, <1>2, FailType, PlatformType, ReconcileType DEF RegistrationNext
<1>3. CASE UNCHANGED vars
  BY <1>3, RunsStay, ClaimsStay, RestStays DEF vars, TypeInv
<1> QED
  BY <1>2, <1>3, UploadType, RedeliverType, StartType, SweepType DEF Next

\* TypeOK holds in every state: whatever the partner uploads, in whatever order
\* invocations run, retry and die, no step writes a value of another shape.
THEOREM TypeCorrect == Spec => []TypeOK
<1>1. TypeInv /\ [Next]_vars => TypeInv'  BY NextTypeInv
<1> QED  BY <1>1, InitTypeInv, TypeInvTypeOK, PTL DEF Spec

-------------------------------------------------------------------------------
\* Safety: events are backed, completed claims are announced, no content is
\* skipped.
\*
\* The argument: an identity is minted once and travels unchanged from the run
\* that minted it through its claim to whoever takes the claim over, so two
\* writers of the same canonical key write the same content; and a run that has
\* reached a step leaves behind what the steps before it wrote, since nothing
\* but a copy of the same delivery removes anything.

\* Every identity that a run, a claim, an event or the ledger holds.
Ids ==
  {run[p].req : p \in Live} \cup {run[p].id : p \in Live}
    \cup {claims[b].id : b \in {c \in Content : claims[c] # None}} \cup events

\* A delivery id is minted once.
IdsUnique ==
  /\ \A x \in Ids : x.delivery <= stamp
  /\ \A x, y \in Ids : x.delivery = y.delivery => x = y

Winner(s) == s.kind \in {"WON", "TAKEN_OVER"}

IsRegistered(r, id) == r.id = id /\ r.disp = "registered"

Defective(s) == s.kind \in {"incomplete", "unreadable"}

\* The row tells what a run in state s read.
Tells(r, s) ==
  IF Defective(s)
  THEN r.disp = s.kind /\ r.id.key = s.req.key /\ r.id.objects = s.req.objects
  ELSE r.id.batch = s.req.batch

\* What a run in state s has done by the step it has reached, given the rows of
\* the ledger, the events told and the objects copied.
Staged(s, rows, told, objects) ==
  /\ s.id.batch = s.req.batch
  /\ Defective(s) => s.id = s.req
  /\ s.pc \in {"copy", "emit", "complete"} => Winner(s)
  /\ Winner(s) /\ s.pc \in {"append", "emit", "complete"} => <<s.id.delivery, s.id.batch>> \in objects
  /\ Winner(s) /\ s.pc \in {"copy", "append"} => \E r \in s.rows : IsRegistered(r, s.id)
  /\ s.pc = "append" => \E r \in s.rows : Tells(r, s)
  /\ s.pc \in {"emit", "complete"} => \E r \in rows : IsRegistered(r, s.id)
  /\ s.pc = "complete" => s.id \in told
  /\ s.pc = "done" => \E r \in rows : Tells(r, s)

RunsStaged == \A p \in Live : Staged(run[p], ledger, events, canonical)

Safe == IdsUnique /\ RunsStaged /\ EventBacked /\ CompletedBacked

\* The inductive invariant.
SafeInv == TypeInv /\ Safe

LEMMA InitSafe == RegistrationInit => Safe
  BY DEF RegistrationInit, Safe, IdsUnique, Ids, Live, RunsStaged, EventBacked, CompletedBacked

LEMMA IdsTyped == ASSUME TypeInv PROVE Ids \subseteq Identity
<1>1. \A p \in Live : run[p].req \in Identity /\ run[p].id \in Identity
  BY DEF TypeInv, RunsOK, RunOK, RunState
<1>2. \A b \in Content : claims[b] # None => claims[b].id \in Identity
  BY DEF TypeInv, ClaimsOK, ClaimOK, Claim
<1>3. events \subseteq Identity  BY DEF TypeInv, RestOK
<1> QED  BY <1>1, <1>2, <1>3 DEF Ids

\* No identity is new, and the stamp does not go back.
LEMMA NoNewIds ==
  ASSUME TypeInv, IdsUnique, Ids' \subseteq Ids, stamp' \in {stamp, stamp + 1}
  PROVE  IdsUnique'
<1>1. stamp \in Nat /\ \A x \in Ids : x.delivery \in Nat
  BY IdsTyped DEF TypeInv, RestOK, Identity
<1>2. \A x \in Ids : x.delivery <= stamp'  BY <1>1 DEF IdsUnique
<1> QED  BY <1>2 DEF IdsUnique

\* What the stages rest on only grows.
LEMMA StagedGrows ==
  ASSUME NEW s, NEW rows, NEW told, NEW objects, NEW rows1, NEW told1, NEW objects1,
         rows \subseteq rows1, told \subseteq told1, objects \subseteq objects1,
         Staged(s, rows, told, objects)
  PROVE  Staged(s, rows1, told1, objects1)
  BY DEF Staged

\* No claim is completed in the step, nor made with an unknown identity.
ClaimsKept ==
  \A b \in Content : claims'[b] # None =>
    /\ claims'[b].id \in Ids
    /\ claims'[b].status = "completed" => claims[b] # None /\ claims[b].status = "completed"

LEMMA BackedStays ==
  ASSUME EventBacked, CompletedBacked, ClaimsKept, events' = events,
         ledger \subseteq ledger', canonical \subseteq canonical'
  PROVE  EventBacked' /\ CompletedBacked'
  BY DEF EventBacked, CompletedBacked, ClaimsKept

\* A step that leaves every run where it is.
LEMMA QuietStep ==
  ASSUME SafeInv, UNCHANGED <<run, events, canonical>>, ledger \subseteq ledger', ClaimsKept,
         stamp' \in {stamp, stamp + 1}
  PROVE  Safe'
<1>1. Live' = Live  BY DEF Live
<1>2. Ids' \subseteq Ids  BY <1>1 DEF Ids, ClaimsKept
<1>3. IdsUnique'  BY <1>2, NoNewIds DEF SafeInv, Safe
<1>4. RunsStaged'  BY <1>1, StagedGrows DEF SafeInv, Safe, RunsStaged
<1> QED  BY <1>3, <1>4, BackedStays DEF SafeInv, Safe

\* A step that ends the run p.
LEMMA EndStep ==
  ASSUME SafeInv, NEW p \in Live, run' = [run EXCEPT ![p] = None],
         UNCHANGED <<stamp, claims, ledger, events, canonical>>
  PROVE  Safe'
<1>1. Live' = Live \ {p} /\ \A q \in Live' : run'[q] = run[q]
  BY DEF Live, SafeInv, TypeInv, RunsOK
<1>2. Ids' \subseteq Ids  BY <1>1 DEF Ids
<1>3. IdsUnique'  BY <1>2, NoNewIds DEF SafeInv, Safe
<1>4. RunsStaged'  BY <1>1 DEF SafeInv, Safe, RunsStaged
<1> QED  BY <1>3, <1>4 DEF SafeInv, Safe, EventBacked, CompletedBacked

\* A step of the run p to the state s that emits nothing and completes nothing.
LEMMA RunStep ==
  ASSUME SafeInv, NEW p \in Live, NEW s, run' = [run EXCEPT ![p] = s],
         s.req = run[p].req, s.id \in Ids, stamp' \in {stamp, stamp + 1},
         UNCHANGED <<events, canonical>>, ledger \subseteq ledger', ClaimsKept,
         Staged(s, ledger', events', canonical')
  PROVE  Safe'
<1>1. Live' \subseteq Live /\ run'[p] = s /\ \A q \in Live \ {p} : run'[q] = run[q]
  BY DEF Live, SafeInv, TypeInv, RunsOK
<1>2. Ids' \subseteq Ids  BY <1>1 DEF Ids, ClaimsKept
<1>3. IdsUnique'  BY <1>2, NoNewIds DEF SafeInv, Safe
<1>4. \A q \in Live \ {p} : Staged(run'[q], ledger', events', canonical')
  BY <1>1, StagedGrows DEF SafeInv, Safe, RunsStaged
<1>5. RunsStaged'  BY <1>1, <1>4 DEF RunsStaged
<1> QED  BY <1>3, <1>5, BackedStays DEF SafeInv, Safe

LEMMA ClaimSafe ==
  ASSUME SafeInv, NEW p \in Run,
         ClaimWin(p) \/ ClaimLose(p) \/ ClaimRead(p) \/ ClaimTake(p)
  PROVE  Safe'
<1> DEFINE b == run[p].req.batch
           won == [run[p] EXCEPT !.pc = "plan", !.kind = "WON", !.id = run[p].req]
           read == [run[p] EXCEPT !.pc = "read", !.at = clock]
           lost == [run[p] EXCEPT !.pc = "plan", !.kind = "LOST", !.id = run[p].req]
           take == [run[p] EXCEPT !.pc = "take", !.id = claims[b].id, !.owner = claims[b].owner]
           taken == [run[p] EXCEPT !.pc = "plan", !.kind = "TAKEN_OVER"]
<1>1. /\ p \in Live /\ run[p] \in RunState /\ b \in Content
      /\ run[p].pc \in {"claim", "read", "take"} /\ run[p].kind = "none"
      /\ run[p].req \in Ids /\ run[p].id \in Ids
  BY DEF ClaimWin, ClaimLose, ClaimRead, ClaimTake, At, SafeInv, TypeInv, RunsOK, RunOK,
         RunState, Identity, Ids
<1>2. /\ Staged(run[p], ledger, events, canonical)
      /\ claims[b] # None => claims[b].id \in Ids /\ claims[b].id.batch = b
  BY <1>1 DEF SafeInv, Safe, RunsStaged, Ids, TypeInv, ClaimsOK, ClaimOK
<1>3. \A c \in Content : claims[c] # None => claims[c].id \in Ids  BY DEF Ids
<1> DEFINE Sound(s) == /\ s.req = run[p].req /\ s.id \in Ids
                       /\ Staged(s, ledger, events, canonical)
<1>4. Sound(won) /\ Sound(read) /\ Sound(lost) /\ Sound(taken)
  <2>1. Sound(won)  BY <1>1, <1>2 DEF Staged, RunState, Winner, Defective
  <2>2. Sound(read)  BY <1>1, <1>2 DEF Staged, RunState, Winner, Defective
  <2>3. Sound(lost)  BY <1>1, <1>2 DEF Staged, RunState, Winner, Defective
  <2>4. Sound(taken)  BY <1>1, <1>2 DEF Staged, RunState, Winner, Defective
  <2> QED  BY <2>1, <2>2, <2>3, <2>4
<1>5. claims[b] # None => Sound(take)
  BY <1>1, <1>2 DEF Staged, RunState, Winner, Defective
<1>6. ClaimsKept
  <2>1. claims = [c \in Content |-> claims[c]] /\ \A c \in Content : claims[c] # None => ClaimOK(c)
    BY DEF SafeInv, TypeInv, ClaimsOK
  <2>2. CASE claims' = claims  BY <1>3, <2>2 DEF ClaimsKept
  <2>3. CASE ClaimWin(p)  BY <1>1, <1>3, <2>1, <2>3 DEF ClaimsKept, ClaimWin
  <2>4. CASE ClaimTake(p) /\ OwnerUnchanged(p)
    <3>1. ClaimOK(b) /\ claims[b] # None  BY <1>1, <2>1, <2>4 DEF OwnerUnchanged
    <3> DEFINE t == [claims[b] EXCEPT !.owner = run[p].msg.rid, !.claimedAt = run[p].at]
    <3>2. t.id = claims[b].id /\ t.status = claims[b].status  BY <3>1 DEF ClaimOK, Claim
    <3>3. claims' = [claims EXCEPT ![b] = t]  BY <2>4 DEF ClaimTake
    <3> HIDE DEF t
    <3>4. claims'[b].id = claims[b].id /\ claims'[b].status = claims[b].status
      BY <1>1, <2>1, <3>2, <3>3
    <3>5. \A c \in Content \ {b} : claims'[c] = claims[c]  BY <2>1, <3>3
    <3> QED  BY <1>3, <3>1, <3>4, <3>5 DEF ClaimsKept
  <2> QED  BY <2>2, <2>3, <2>4 DEF ClaimWin, ClaimLose, ClaimRead, ClaimTake
<1>7. UNCHANGED <<events, canonical, ledger, stamp>>
  BY DEF ClaimWin, ClaimLose, ClaimRead, ClaimTake
<1>8. \/ \E s \in {won, read, lost, taken} : run' = [run EXCEPT ![p] = s]
      \/ claims[b] # None /\ run' = [run EXCEPT ![p] = take]
  BY DEF ClaimWin, ClaimLose, ClaimRead, ClaimTake, Lost
<1> HIDE DEF won, read, lost, take, taken
<1> QED  BY <1>1, <1>4, <1>5, <1>6, <1>7, <1>8, RunStep

\* A plan registers the delivery it is made for, or records its verdict.
LEMMA PlannedRowsOwn ==
  ASSUME TypeInv, NEW p \in Live, run[p].kind # "none", run[p].id.batch = run[p].req.batch,
         Defective(run[p]) => run[p].id = run[p].req
  PROVE  /\ Winner(run[p]) => \E r \in PlannedRows(p) : IsRegistered(r, run[p].id)
         /\ PlannedRows(p) # {} => \E r \in PlannedRows(p) : Tells(r, run[p])
         /\ PlannedRows(p) = {} => \E r \in ledger : Tells(r, run[p])
<1> DEFINE id == run[p].id
           kind == run[p].kind
<1>1. \A d, S : NewRow(id, d, S).id = id /\ NewRow(id, d, S).disp = d  BY DEF NewRow
<1>2. CASE Winner(run[p])
  <2>1. PlannedRows(p) = RegistrationRows(id)  BY <1>2 DEF PlannedRows, Winner
  <2>2. NewRow(id, "registered", {r.id.delivery : r \in Corrected(id)}) \in PlannedRows(p)
    BY <2>1 DEF RegistrationRows
  <2> QED  BY <1>1, <1>2, <2>2 DEF IsRegistered, Tells, Defective, Winner
<1>3. CASE kind = "LOST"
  <2>1. PlannedRows(p) = {NewRow(id, "duplicate", {})}  BY <1>3 DEF PlannedRows
  <2> QED  BY <1>1, <1>3, <2>1 DEF Winner, Tells, Defective
<1>4. CASE ~Winner(run[p]) /\ kind # "LOST"
  <2>1. PlannedRows(p) = IF AlreadyNoted(id, kind) THEN {} ELSE {NewRow(id, kind, {})}
    BY <1>4 DEF PlannedRows, Winner
  <2>2. LatestOfKey(id.key) \subseteq ledger  BY DEF LatestOfKey, LatestDispositions
  <2>3. kind \in {"incomplete", "unreadable"}
    BY <1>4 DEF TypeInv, RunsOK, RunOK, RunState, Winner
  <2>4. id = run[p].req  BY <2>3 DEF Defective
  <2>5. CASE AlreadyNoted(id, kind)
    <3>1. PICK r \in LatestOfKey(id.key) : r.disp = kind /\ r.id.objects = id.objects
      BY <2>5 DEF AlreadyNoted
    <3>2. r \in ledger /\ r.id.key = id.key  BY <2>2, <3>1 DEF LatestOfKey
    <3> QED  BY <1>4, <2>1, <2>3, <2>4, <2>5, <3>1, <3>2 DEF Tells, Defective
  <2>6. CASE ~AlreadyNoted(id, kind)
    <3>1. NewRow(id, kind, {}).id = id /\ NewRow(id, kind, {}).disp = kind  BY <1>1
    <3> QED  BY <1>4, <2>1, <2>3, <2>4, <2>6, <3>1 DEF Tells, Defective
  <2> QED  BY <2>5, <2>6
<1> QED  BY <1>2, <1>3, <1>4

LEMMA PlanSafe == ASSUME SafeInv, NEW p \in Run, Plan(p) PROVE Safe'
<1> DEFINE s == [run[p] EXCEPT !.rows = PlannedRows(p), !.pc = AfterPlan(p)]
<1>1. /\ p \in Live /\ run[p] \in RunState /\ run[p].kind # "none"
      /\ Staged(run[p], ledger, events, canonical)
      /\ run[p].id \in Ids
  BY DEF Plan, At, SafeInv, TypeInv, RunsOK, RunOK, Safe, RunsStaged, Ids
<1>2. run' = [run EXCEPT ![p] = s]  BY DEF Plan
<1>3. /\ s.req = run[p].req /\ s.id = run[p].id /\ s.rows = PlannedRows(p) /\ s.pc = AfterPlan(p)
      /\ s.kind = run[p].kind
  BY <1>1 DEF RunState
<1> HIDE DEF s
<1>4. /\ Winner(s) => \E r \in s.rows : IsRegistered(r, s.id)
      /\ s.rows # {} => \E r \in s.rows : Tells(r, s)
      /\ s.rows = {} => \E r \in ledger : Tells(r, s)
  <2>1. TypeInv  BY DEF SafeInv
  <2>2. Winner(s) <=> Winner(run[p])  BY <1>3 DEF Winner
  <2>3. \A r : Tells(r, s) <=> Tells(r, run[p])  BY <1>3 DEF Tells, Defective
  <2>4. run[p].id.batch = run[p].req.batch /\ (Defective(run[p]) => run[p].id = run[p].req)
    BY <1>1 DEF Staged
  <2> QED  BY <1>1, <1>3, <2>1, <2>2, <2>3, <2>4, PlannedRowsOwn
<1>5. /\ Winner(s) => s.pc = "copy"
      /\ ~Winner(s) /\ s.rows = {} => s.pc = "done"
      /\ ~Winner(s) /\ s.rows # {} => s.pc = "append"
  <2>1. Winner(s) => PlannedRows(p) # {}  BY <1>3, <1>4
  <2>2. AfterPlan(p) = CASE Winner(s) -> "copy" [] s.rows = {} -> "done" [] OTHER -> "append"
    BY <1>3 DEF AfterPlan, Winner
  <2> QED  BY <1>3, <2>1, <2>2
<1>6. Staged(s, ledger, events, canonical)
  <2>1. s.id.batch = s.req.batch /\ (Defective(s) => s.id = s.req)
    BY <1>1, <1>3 DEF Staged, Defective
  <2>2. CASE Winner(s)
    <3>1. s.pc = "copy"  BY <1>5, <2>2
    <3> QED  BY <1>4, <2>1, <2>2, <3>1 DEF Staged
  <2>3. CASE ~Winner(s) /\ s.rows = {}
    <3>1. s.pc = "done"  BY <1>3, <1>5, <2>3
    <3> QED  BY <1>4, <2>1, <2>3, <3>1 DEF Staged
  <2>4. CASE ~Winner(s) /\ s.rows # {}
    <3>1. s.pc = "append"  BY <1>3, <1>5, <2>4
    <3> QED  BY <1>4, <2>1, <2>4, <3>1 DEF Staged
  <2> QED  BY <2>2, <2>3, <2>4
<1>7. ClaimsKept  BY DEF ClaimsKept, Ids, Plan
<1>8. stamp' = stamp + 1 /\ UNCHANGED <<events, canonical, ledger>>  BY DEF Plan
<1> QED  BY <1>1, <1>2, <1>3, <1>6, <1>7, <1>8, RunStep

LEMMA AppendSafe == ASSUME SafeInv, NEW p \in Run, AppendRows(p) PROVE Safe'
<1> DEFINE next == IF run[p].kind \in {"WON", "TAKEN_OVER"} THEN "emit" ELSE "done"
           s == [run[p] EXCEPT !.pc = next]
<1>1. /\ p \in Live /\ run[p] \in RunState /\ run[p].pc = "append"
      /\ Staged(run[p], ledger, events, canonical)
      /\ run[p].id \in Ids
  BY DEF AppendRows, Goto, At, SafeInv, TypeInv, RunsOK, RunOK, Safe, RunsStaged, Ids
<1>2. run' = [run EXCEPT ![p] = s] /\ ledger' = ledger \cup run[p].rows  BY DEF AppendRows, Goto
<1>3. /\ s.req = run[p].req /\ s.id = run[p].id /\ s.pc = next /\ s.kind = run[p].kind
      /\ next = "emit" <=> Winner(run[p])
      /\ next \in {"emit", "done"}
  BY <1>1 DEF RunState, Winner
<1>4. Staged(s, ledger', events, canonical)
  BY <1>1, <1>2, <1>3 DEF Staged, Winner, Defective, Tells
<1>5. ClaimsKept  BY DEF ClaimsKept, Ids, AppendRows
<1> HIDE DEF s, next
<1>6. UNCHANGED <<stamp, events, canonical>>  BY DEF AppendRows
<1> QED  BY <1>1, <1>2, <1>3, <1>4, <1>5, <1>6, RunStep

\* A copy writes what every earlier copy of the delivery wrote.
LEMMA CopySafe == ASSUME SafeInv, NEW p \in Run, Copy(p) PROVE Safe'
<1> DEFINE s == [run[p] EXCEPT !.pc = "append"]
           id == run[p].id
<1>1. /\ p \in Live /\ run[p] \in RunState /\ run[p].pc = "copy"
      /\ Staged(run[p], ledger, events, canonical)
      /\ id \in Ids /\ id \in Identity
  BY DEF Copy, Goto, At, SafeInv, TypeInv, RunsOK, RunOK, RunState, Safe, RunsStaged, Ids
<1>2. /\ run' = [run EXCEPT ![p] = s]
      /\ canonical' = {o \in canonical : o[1] # id.delivery} \cup {<<id.delivery, id.batch>>}
      /\ UNCHANGED <<stamp, claims, ledger, events>>
  BY DEF Copy, Goto, CopiedContent
<1>3. \A x \in Ids : <<x.delivery, x.batch>> \in canonical => <<x.delivery, x.batch>> \in canonical'
  <2> SUFFICES ASSUME NEW x \in Ids, <<x.delivery, x.batch>> \in canonical
               PROVE  <<x.delivery, x.batch>> \in canonical'
    OBVIOUS
  <2>1. CASE x.delivery = id.delivery
    <3>1. x = id  BY <1>1, <2>1 DEF SafeInv, Safe, IdsUnique
    <3> QED  BY <1>2, <3>1
  <2>2. CASE x.delivery # id.delivery  BY <1>2, <2>2
  <2> QED  BY <2>1, <2>2
<1>4. s.req = run[p].req /\ s.id = id /\ s.pc = "append" /\ s.rows = run[p].rows /\ s.kind = run[p].kind
  BY <1>1 DEF RunState
<1> HIDE DEF s
<1>5. Live' \subseteq Live /\ run'[p] = s /\ \A q \in Live \ {p} : run'[q] = run[q]
  BY <1>1, <1>2 DEF Live, SafeInv, TypeInv, RunsOK
<1>6. Ids' \subseteq Ids  BY <1>1, <1>2, <1>4, <1>5 DEF Ids
<1>7. IdsUnique'  BY <1>2, <1>6, NoNewIds DEF SafeInv, Safe
<1>8. \A q \in Live \ {p} : Staged(run'[q], ledger', events', canonical')
  <2> SUFFICES ASSUME NEW q \in Live \ {p} PROVE Staged(run'[q], ledger', events', canonical')
    OBVIOUS
  <2>1. Staged(run[q], ledger, events, canonical) /\ run[q].id \in Ids
    BY DEF SafeInv, Safe, RunsStaged, Ids
  <2> QED  BY <1>2, <1>3, <1>5, <2>1 DEF Staged
<1>9. Staged(s, ledger', events', canonical')
  <2>1. <<id.delivery, id.batch>> \in canonical'  BY <1>2
  <2>2. Winner(s) /\ ~Defective(s)  BY <1>1, <1>4 DEF Staged, Winner, Defective
  <2>3. \E r \in s.rows : IsRegistered(r, s.id)  BY <1>1, <1>4 DEF Staged, Winner
  <2>4. s.id.batch = s.req.batch  BY <1>1, <1>4 DEF Staged
  <2> QED  BY <1>4, <2>1, <2>2, <2>3, <2>4 DEF Staged, IsRegistered, Tells
<1>10. RunsStaged'  BY <1>5, <1>8, <1>9 DEF RunsStaged
<1>11. EventBacked'
  <2>1. \A e \in events : e \in Ids  BY DEF Ids
  <2> QED  BY <1>2, <1>3, <2>1 DEF SafeInv, Safe, EventBacked
<1>12. CompletedBacked'  BY <1>2 DEF SafeInv, Safe, CompletedBacked
<1> QED  BY <1>7, <1>10, <1>11, <1>12 DEF Safe

\* The event follows the rows and the objects.
LEMMA EmitSafe == ASSUME SafeInv, NEW p \in Run, Emit(p) PROVE Safe'
<1> DEFINE s == [run[p] EXCEPT !.pc = "complete"]
           id == run[p].id
<1>1. /\ p \in Live /\ run[p] \in RunState /\ run[p].pc = "emit"
      /\ Staged(run[p], ledger, events, canonical)
      /\ id \in Ids
  BY DEF Emit, Goto, At, SafeInv, TypeInv, RunsOK, RunOK, RunState, Safe, RunsStaged, Ids
<1>2. /\ run' = [run EXCEPT ![p] = s]
      /\ events' = events \cup {id}
      /\ UNCHANGED <<stamp, claims, ledger, canonical>>
  BY DEF Emit, Goto
<1>3. s.req = run[p].req /\ s.id = id /\ s.pc = "complete" /\ s.rows = run[p].rows /\ s.kind = run[p].kind
  BY <1>1 DEF RunState
<1> HIDE DEF s
<1>4. Live' \subseteq Live /\ run'[p] = s /\ \A q \in Live \ {p} : run'[q] = run[q]
  BY <1>1, <1>2 DEF Live, SafeInv, TypeInv, RunsOK
<1>5. Ids' \subseteq Ids  BY <1>1, <1>2, <1>3, <1>4 DEF Ids
<1>6. IdsUnique'  BY <1>2, <1>5, NoNewIds DEF SafeInv, Safe
<1>7. \A q \in Live \ {p} : Staged(run'[q], ledger', events', canonical')
  BY <1>2, <1>4, StagedGrows DEF SafeInv, Safe, RunsStaged
<1>8. Staged(s, ledger', events', canonical')
  BY <1>1, <1>2, <1>3 DEF Staged, Winner, Defective, IsRegistered
<1>9. RunsStaged'  BY <1>4, <1>7, <1>8 DEF RunsStaged
<1>10. EventBacked'
  <2>1. <<id.delivery, id.batch>> \in canonical /\ \E r \in ledger : r.id = id /\ r.disp = "registered"
    BY <1>1 DEF Staged, IsRegistered
  <2> QED  BY <1>2, <2>1 DEF SafeInv, Safe, EventBacked
<1>11. CompletedBacked'  BY <1>2 DEF SafeInv, Safe, CompletedBacked
<1> QED  BY <1>6, <1>9, <1>10, <1>11 DEF Safe

\* The completion follows the event.
LEMMA CompleteSafe == ASSUME SafeInv, NEW p \in Run, Complete(p) PROVE Safe'
<1> DEFINE s == [run[p] EXCEPT !.pc = "done"]
           id == run[p].id
           b == id.batch
           c == [claims[b] EXCEPT !.status = "completed", !.expires = clock + ClaimTTL]
<1>1. /\ p \in Live /\ run[p] \in RunState /\ run[p].pc = "complete"
      /\ Staged(run[p], ledger, events, canonical)
      /\ id \in Ids /\ b \in Content
  BY DEF Complete, Goto, At, SafeInv, TypeInv, RunsOK, RunOK, RunState, Safe, RunsStaged, Ids, Identity
<1>2. /\ run' = [run EXCEPT ![p] = s]
      /\ claims' = claims \/ (claims[b] # None /\ claims' = [claims EXCEPT ![b] = c])
      /\ UNCHANGED <<stamp, ledger, canonical, events>>
  BY DEF Complete, Goto, Completable
<1>3. s.req = run[p].req /\ s.id = id /\ s.pc = "done" /\ s.kind = run[p].kind
  BY <1>1 DEF RunState
<1>4. /\ \A a \in Content : claims'[a] # None => claims[a] # None /\ claims'[a].id = claims[a].id
      /\ \A a \in Content \ {b} : claims'[a] = claims[a]
  <2>1. claims = [a \in Content |-> claims[a]] /\ \A a \in Content : claims[a] # None => ClaimOK(a)
    BY DEF SafeInv, TypeInv, ClaimsOK
  <2>2. claims[b] # None => c.id = claims[b].id  BY <1>1, <2>1 DEF ClaimOK, Claim
  <2> HIDE DEF c
  <2> QED  BY <1>1, <1>2, <2>1, <2>2
<1> HIDE DEF s, c
<1>5. Live' \subseteq Live /\ run'[p] = s /\ \A q \in Live \ {p} : run'[q] = run[q]
  BY <1>1, <1>2 DEF Live, SafeInv, TypeInv, RunsOK
<1>6. Ids' \subseteq Ids  BY <1>1, <1>2, <1>3, <1>4, <1>5 DEF Ids
<1>7. IdsUnique'  BY <1>2, <1>6, NoNewIds DEF SafeInv, Safe
<1>8. \A q \in Live \ {p} : Staged(run'[q], ledger', events', canonical')
  BY <1>2, <1>5, StagedGrows DEF SafeInv, Safe, RunsStaged
<1>9. Staged(s, ledger', events', canonical')
  <2>1. \E r \in ledger : r.id.batch = run[p].req.batch  BY <1>1 DEF Staged, IsRegistered
  <2>2. s.id.batch = s.req.batch /\ ~Defective(s)  BY <1>1, <1>3 DEF Staged, Winner, Defective
  <2> QED  BY <1>2, <1>3, <2>1, <2>2 DEF Staged, Winner, Defective, Tells
<1>10. RunsStaged'  BY <1>5, <1>8, <1>9 DEF RunsStaged
<1>11. EventBacked'  BY <1>2 DEF SafeInv, Safe, EventBacked
<1>12. CompletedBacked'
  <2>1. \E e \in events : e.batch = b  BY <1>1 DEF Staged
  <2>2. \A a \in Content \ {b} : claims'[a] # None /\ claims'[a].status = "completed" =>
          \E e \in events : e.batch = a
    BY <1>4 DEF SafeInv, Safe, CompletedBacked
  <2> QED  BY <1>2, <2>1, <2>2 DEF CompletedBacked
<1> QED  BY <1>7, <1>10, <1>11, <1>12 DEF Safe

\* A driver run mints the only new identity.
LEMMA StartSafe ==
  ASSUME SafeInv, NEW p \in Run, NEW m \in inbox, Start(p, m)
  PROVE  Safe'
<1> DEFINE verdict == Verdict[slot[m.slot]]
           s == [pc |-> IF verdict = "complete" THEN "claim" ELSE "plan",
                 msg |-> m, req |-> Acquired(m), id |-> Acquired(m),
                 kind |-> IF verdict = "complete" THEN "none" ELSE verdict,
                 owner |-> 0, at |-> 0, started |-> clock, rows |-> {}]
           id == Acquired(m)
<1>1. /\ run' = [run EXCEPT ![p] = s] /\ stamp' = stamp + 1 /\ stamp \in Nat
      /\ UNCHANGED <<claims, ledger, canonical, events>>
  BY DEF Start, Invoked, SafeInv, TypeInv, RestOK
<1>2. id.delivery = stamp + 1  BY DEF Acquired
<1>3. verdict \in {"complete", "incomplete", "unreadable"}
  BY S3PushAssumption DEF SafeInv, TypeInv, RestOK, Message
<1>4. s.req = id /\ s.id = id /\ ~Winner(s) /\ s.pc \in {"claim", "plan"}
  BY <1>3 DEF Winner
<1>5. Staged(s, ledger', events', canonical')  BY <1>4 DEF Staged
<1> HIDE DEF s, id
<1>6. Live' \subseteq Live \cup {p} /\ run'[p] = s /\ \A q \in Live \ {p} : run'[q] = run[q]
  BY <1>1 DEF Live, SafeInv, TypeInv, RunsOK
<1>7. Ids' \subseteq Ids \cup {id}  BY <1>1, <1>4, <1>6 DEF Ids
<1>8. IdsUnique'
  <2>1. \A x \in Ids : x.delivery \in Nat /\ x.delivery <= stamp
    BY IdsTyped DEF SafeInv, Safe, IdsUnique, Identity
  <2>2. \A x, y \in Ids : x.delivery = y.delivery => x = y  BY DEF SafeInv, Safe, IdsUnique
  <2>3. \A x \in Ids' : x.delivery <= stamp'  BY <1>1, <1>2, <1>7, <2>1
  <2>4. \A x, y \in Ids' : x.delivery = y.delivery => x = y
    BY <1>1, <1>2, <1>7, <2>1, <2>2
  <2> QED  BY <2>3, <2>4 DEF IdsUnique
<1>9. RunsStaged'
  <2>1. \A q \in Live \ {p} : Staged(run'[q], ledger', events', canonical')
    BY <1>1, <1>6 DEF SafeInv, Safe, RunsStaged
  <2> QED  BY <1>5, <1>6, <2>1 DEF RunsStaged
<1>10. EventBacked' /\ CompletedBacked'  BY <1>1 DEF SafeInv, Safe, EventBacked, CompletedBacked
<1> QED  BY <1>8, <1>9, <1>10 DEF Safe

\* The steps of the platform, of the partner and of the weekly job.
LEMMA BackgroundSafe ==
  ASSUME SafeInv,
         \/ \E u \in Uploads : Upload(u[1], u[2])
         \/ \E m \in inbox : Redeliver(m) \/ Expire(m)
         \/ \E b \in Content : Sweep(b) \/ Reap(b)
         \/ Tick \/ ReconcileRead \/ ReconcileAppend \/ ReconcileFail
         \/ UNCHANGED vars
  PROVE  Safe'
<1>1. UNCHANGED <<run, events, canonical>> /\ ledger \subseteq ledger' /\ stamp' \in {stamp, stamp + 1}
  BY DEF Upload, Redeliver, Expire, Sweep, Reap, Tick, ReconcileRead, ReconcileAppend, ReconcileFail,
         background, vars
<1>2. ClaimsKept
  <2>1. \A b \in Content : claims[b] # None => claims[b].id \in Ids  BY DEF Ids
  <2>2. CASE claims' = claims  BY <2>1, <2>2 DEF ClaimsKept
  <2>3. ASSUME NEW b \in Content, Reap(b) PROVE ClaimsKept
    <3>1. \A a \in Content : claims'[a] # None => claims'[a] = claims[a]
      BY <2>3 DEF Reap, SafeInv, TypeInv, ClaimsOK
    <3> QED  BY <2>1, <3>1 DEF ClaimsKept
  <2> QED
    BY <2>2, <2>3 DEF Upload, Redeliver, Expire, Sweep, Tick, ReconcileRead, ReconcileAppend,
                      ReconcileFail, vars
<1> QED  BY <1>1, <1>2, QuietStep

LEMMA EndSafe ==
  ASSUME SafeInv, NEW p \in Run, Return(p) \/ Fail(p) \/ ClaimVanished(p)
  PROVE  Safe'
<1>1. /\ p \in Live /\ run' = [run EXCEPT ![p] = None]
      /\ UNCHANGED <<stamp, claims, ledger, events, canonical>>
  BY DEF Return, Fail, ClaimVanished, Requeue, At
<1> QED  BY <1>1, EndStep

LEMMA NextSafe == SafeInv /\ [Next]_vars => SafeInv'
<1> SUFFICES ASSUME SafeInv, [Next]_vars PROVE Safe'
  BY NextTypeInv DEF SafeInv
<1>1. ASSUME NEW p \in Run, Advance(p) PROVE Safe'
  BY <1>1, ClaimSafe, PlanSafe, CopySafe, AppendSafe, EmitSafe, CompleteSafe, EndSafe DEF Advance
<1>2. CASE RegistrationNext
  BY <1>1, <1>2, EndSafe, BackgroundSafe DEF RegistrationNext
<1>3. ASSUME NEW p \in Run, NEW m \in inbox, Start(p, m) PROVE Safe'
  BY <1>3, StartSafe
<1> QED  BY <1>2, <1>3, BackgroundSafe DEF Next

LEMMA SafeAlways == Spec => []SafeInv
<1>1. RegistrationInit => SafeInv  BY InitTypeInv, InitSafe DEF SafeInv
<1> QED  BY <1>1, NextSafe, PTL DEF Spec

\* What the spine is told is real: every event announced has its registered row
\* in the ledger and, in the canonical zone, the very content that was hashed.
THEOREM EventsBacked == Spec => []EventBacked
<1>1. SafeInv => EventBacked  BY DEF SafeInv, Safe
<1> QED  BY <1>1, SafeAlways, PTL

\* A claim is completed only when its content was announced, by whichever run.
THEOREM CompletionsBacked == Spec => []CompletedBacked
<1>1. SafeInv => CompletedBacked  BY DEF SafeInv, Safe
<1> QED  BY <1>1, SafeAlways, PTL

\* No invocation returns without a row that tells what it read: the content it
\* registered or lost, or its verdict on the objects it observed.
THEOREM NeverASilentSkip == Spec => NoSilentSkip
<1> DEFINE Skip == \A p \in Run : At(p, "done") /\ run'[p] = None /\ failures' = failures =>
                     \E r \in ledger : Tells(r, run[p])
<1>1. SafeInv => Skip  BY DEF SafeInv, Safe, RunsStaged, Staged, At
<1>2. SafeInv /\ [Next]_vars => [Skip]_vars  BY <1>1
<1>3. Spec => [][Skip]_vars
  <2>1. Spec => [][Next]_vars  BY PTL DEF Spec
  <2> QED  BY <1>2, <2>1, SafeAlways, PTL
<1> QED  BY <1>3 DEF NoSilentSkip, Tells, Defective

-------------------------------------------------------------------------------
(***************************************************************************)
(* Fenced is about time.  A request id belongs to one invocation, and its  *)
(* first attempt lives for LambdaMax from its start; the claim it stamped  *)
(* is therefore not stale while it lives, so nobody observes it as gone.   *)
(*                                                                         *)
(* Ledgered is about the ledger.  A delivery is minted once and later ones *)
(* are received later; every registered row has an instant of its own; a   *)
(* superseding row was planned with the registration that corrects it; a   *)
(* delivery that was noted as a duplicate or a defect is never registered; *)
(* and two registrable deliveries of one content are a claim's life apart. *)
(***************************************************************************)

-------------------------------------------------------------------------------
\* Time and fencing

\* m is no retry.
First(m) == m.tries = 0

\* The life of a run, at the time now, when the last number given out is last.
Dated(s, now, last) ==
  /\ s.started <= now /\ now <= s.started + LambdaMax
  /\ s.req.received = s.started
  /\ s.pc \in {"read", "take"} => s.started <= s.at /\ s.at <= now
  /\ s.msg.rid <= last /\ s.owner <= last

RunsDated == \A p \in Live : Dated(run[p], clock, stamp)

\* A request id belongs to one invocation, waiting or running.
RidsUnique ==
  /\ \A m \in inbox : m.rid <= stamp
  /\ \A m, n \in inbox : m.rid = n.rid => m = n
  /\ \A p \in Live, m \in inbox : run[p].msg.rid # m.rid
  /\ \A p, q \in Live : p # q => run[p].msg.rid # run[q].msg.rid

\* The first attempt that owns a claim has passed its claim step, and stamped
\* the claim no earlier than it started.
OwnersAtWork ==
  \A b \in Content : claims[b] # None =>
    /\ claims[b].owner <= stamp
    /\ \A m \in inbox : m.rid = claims[b].owner => ~First(m)
    /\ \A q \in Live : run[q].msg.rid = claims[b].owner /\ First(run[q].msg) =>
         run[q].pc \notin {"claim", "read", "take"} /\ run[q].started <= claims[b].claimedAt

\* The first attempt of an invocation is over.
Gone(rid) ==
  /\ \A m \in inbox : m.rid = rid => ~First(m)
  /\ \A q \in Live : run[q].msg.rid = rid => ~First(run[q].msg)

\* The owner of a claim that was read as stale.
ObservedOwnersGone == \A p \in Live : run[p].pc = "take" => Gone(run[p].owner)

\* The steps of the execution of a registration.
AtWork == {"plan", "copy", "append", "emit", "complete"}

\* The run in state s owns the claim c, which expires after the run.
Holds(s, c) == c # None /\ c.owner = s.msg.rid /\ s.started + ClaimTTL <= c.expires

WinnersHoldTheirClaim ==
  \A q \in Live :
    run[q].kind = "WON" /\ First(run[q].msg) /\ run[q].pc \in AtWork =>
      Holds(run[q], claims[run[q].req.batch])

\* The first inductive invariant, on top of SafeInv.
Fenced == RunsDated /\ RidsUnique /\ OwnersAtWork /\ ObservedOwnersGone /\ WinnersHoldTheirClaim

\* The types of what the invariants compare.
LEMMA RunTyped ==
  ASSUME TypeInv
  PROVE  /\ \A p \in Live : /\ run[p] \in RunState /\ run[p].msg \in Message /\ run[p].msg.rid \in Nat
                            /\ run[p].msg.tries \in Nat
                            /\ run[p].started \in Nat /\ run[p].at \in Nat /\ run[p].owner \in Nat
                            /\ run[p].req \in Identity /\ run[p].req.batch \in Content /\ run[p].req.received \in Nat
                            /\ run[p].id \in Identity
         /\ \A b \in Content : claims[b] # None =>
              /\ claims[b] \in Claim /\ claims[b].owner \in Nat /\ claims[b].claimedAt \in Nat
              /\ claims[b].expires \in Nat /\ claims[b].id \in Identity /\ claims[b].id.batch = b
         /\ clock \in Nat /\ stamp \in Nat
         /\ \A m \in inbox : m.rid \in Nat /\ m.tries \in Nat
<1>1. RestOK /\ RunsOK /\ ClaimsOK  BY DEF TypeInv
<1>2. \A p \in Live : run[p] \in RunState  BY <1>1 DEF RunsOK, RunOK
<1>3. \A b \in Content : claims[b] # None => claims[b] \in Claim /\ claims[b].id.batch = b
  BY <1>1 DEF ClaimsOK, ClaimOK
<1> QED  BY <1>1, <1>2, <1>3 DEF RestOK, RunState, Message, Claim, Identity

\* The others stay where they are.
LEMMA OthersStay ==
  ASSUME RunsOK, NEW p \in Live, NEW s, run' = [run EXCEPT ![p] = s]
  PROVE  Live' \subseteq Live /\ run'[p] = s /\ \A q \in Live \ {p} : run'[q] = run[q]
  BY DEF RunsOK, Live

\* A run moves to the state s: a claim that changes hands is stamped by this run,
\* and is not taken from a first attempt.
LEMMA MoveFenced ==
  ASSUME TypeInv, Fenced, NEW p \in Live, NEW s, run' = [run EXCEPT ![p] = s],
         s.msg = run[p].msg, s.started = run[p].started, s.req = run[p].req, s.owner \in Nat,
         UNCHANGED <<inbox, clock>>, stamp' \in {stamp, stamp + 1}, Dated(s, clock, stamp),
         s.pc \in {"claim", "read", "take"} => run[p].pc \in {"claim", "read", "take"},
         s.pc = "take" => Gone(s.owner),
         \A c \in Content : claims'[c] # None =>
           \/ /\ claims[c] # None
              /\ claims'[c].owner = claims[c].owner /\ claims'[c].claimedAt = claims[c].claimedAt
           \/ /\ claims'[c].owner = s.msg.rid /\ s.pc \notin {"claim", "read", "take"}
              /\ s.started <= claims'[c].claimedAt,
         \A c \in Content : claims[c] # None =>
           \/ Gone(claims[c].owner)
           \/ /\ claims'[c] # None /\ claims'[c].owner = claims[c].owner
              /\ claims'[c].expires \in Nat
              /\ claims[c].expires <= claims'[c].expires \/ clock + ClaimTTL <= claims'[c].expires,
         s.kind = "WON" /\ s.pc \in AtWork =>
           (run[p].kind = "WON" /\ run[p].pc \in AtWork) \/ Holds(s, claims'[s.req.batch])
  PROVE  Fenced'
<1>1. Live' \subseteq Live /\ run'[p] = s /\ \A q \in Live \ {p} : run'[q] = run[q]
  BY OthersStay DEF TypeInv
<1>2. \A q \in Live' : run'[q].msg = run[q].msg /\ run'[q].started = run[q].started /\ run'[q].req = run[q].req
  BY <1>1
<1>3. \A rid : Gone(rid) => Gone(rid)'  BY <1>1, <1>2 DEF Gone
<1>4. RunsDated'
  <2>1. stamp \in Nat /\ s.msg.rid \in Nat /\ \A q \in Live : run[q].msg.rid \in Nat /\ run[q].owner \in Nat
    BY RunTyped
  <2>2. Dated(s, clock', stamp')  BY <2>1 DEF Dated
  <2>3. \A q \in Live : Dated(run[q], clock', stamp')
    BY <2>1 DEF Fenced, RunsDated, Dated
  <2> QED  BY <1>1, <2>2, <2>3 DEF RunsDated
<1>5. RidsUnique'
  BY <1>1, <1>2, RunTyped DEF Fenced, RidsUnique
<1>6. OwnersAtWork'
  <2> SUFFICES ASSUME NEW c \in Content, claims'[c] # None
               PROVE  /\ claims'[c].owner <= stamp'
                      /\ \A m \in inbox : m.rid = claims'[c].owner => ~First(m)
                      /\ \A q \in Live' : run'[q].msg.rid = claims'[c].owner /\ First(run'[q].msg) =>
                           run'[q].pc \notin {"claim", "read", "take"} /\ run'[q].started <= claims'[c].claimedAt
    BY DEF OwnersAtWork
  <2>1. CASE /\ claims[c] # None
             /\ claims'[c].owner = claims[c].owner /\ claims'[c].claimedAt = claims[c].claimedAt
    BY <1>1, <1>2, <2>1, RunTyped DEF Fenced, OwnersAtWork
  <2>2. CASE /\ claims'[c].owner = s.msg.rid /\ s.pc \notin {"claim", "read", "take"}
             /\ s.started <= claims'[c].claimedAt
    BY <1>1, <1>2, <2>2, RunTyped DEF Fenced, RidsUnique, RunsDated, Dated
  <2> QED  BY <2>1, <2>2
<1>7. ObservedOwnersGone'
  BY <1>1, <1>3 DEF Fenced, ObservedOwnersGone
<1>8. WinnersHoldTheirClaim'
  <2>1. \A q \in Live : First(run[q].msg) /\ Holds(run[q], claims[run[q].req.batch]) =>
                         Holds(run[q], claims'[run[q].req.batch])
    BY RunTyped, ConstantsAssumption DEF Holds, Gone, Fenced, RunsDated, Dated
  <2>2. ASSUME NEW q \in Live', q # p, run'[q].kind = "WON", First(run'[q].msg), run'[q].pc \in AtWork
        PROVE  Holds(run'[q], claims'[run'[q].req.batch])
    BY <1>1, <2>1, <2>2 DEF Fenced, WinnersHoldTheirClaim
  <2>3. ASSUME s.kind = "WON", First(s.msg), s.pc \in AtWork, p \in Live'
        PROVE  Holds(s, claims'[s.req.batch])
    BY <2>1, <2>3 DEF Fenced, WinnersHoldTheirClaim, Holds
  <2> QED  BY <1>1, <2>2, <2>3 DEF WinnersHoldTheirClaim
<1> QED  BY <1>4, <1>5, <1>6, <1>7, <1>8 DEF Fenced

\* Every step of a registration; a claim read as stale is older than any live
\* first attempt.
LEMMA AdvanceFenced ==
  ASSUME SafeInv, Fenced, NEW p \in Run,
         \/ ClaimWin(p) \/ ClaimLose(p) \/ ClaimRead(p) \/ ClaimTake(p)
         \/ Plan(p) \/ Copy(p) \/ AppendRows(p) \/ Emit(p) \/ Complete(p)
  PROVE  Fenced'
<1> DEFINE b == run[p].req.batch
<1>1. p \in Live /\ TypeInv
  BY DEF ClaimWin, ClaimLose, ClaimRead, ClaimTake, Plan, Copy, AppendRows, Emit, Complete, Goto, At, SafeInv
<1>2. /\ run[p] \in RunState /\ b \in Content /\ run[p].owner \in Nat /\ run[p].started \in Nat
      /\ run[p].at \in Nat /\ run[p].msg.rid \in Nat
      /\ clock \in Nat /\ stamp \in Nat
      /\ Dated(run[p], clock, stamp)
      /\ \A c \in Content : claims[c] # None => claims[c].expires \in Nat
  BY <1>1, RunTyped DEF Fenced, RunsDated
<1>3. claims = [c \in Content |-> claims[c]]  BY <1>1 DEF TypeInv, ClaimsOK
<1> DEFINE Kept == \A c \in Content : claims[c] # None =>
             /\ claims'[c] # None /\ claims'[c].owner = claims[c].owner
             /\ claims'[c].expires \in Nat
             /\ claims[c].expires <= claims'[c].expires \/ clock + ClaimTTL <= claims'[c].expires
<1> DEFINE Follows(s) ==
      /\ run' = [run EXCEPT ![p] = s] /\ s.msg = run[p].msg /\ s.started = run[p].started
      /\ s.req = run[p].req /\ s.owner \in Nat /\ Dated(s, clock, stamp)
<1>5. CASE ClaimWin(p)
  <2> DEFINE s == [run[p] EXCEPT !.pc = "plan", !.kind = "WON", !.id = run[p].req]
  <2>1. Follows(s) /\ s.pc = "plan"  BY <1>2, <1>5 DEF ClaimWin, RunState, Dated
  <2>2. /\ claims[b] = None /\ claims'[b] # None /\ claims'[b].owner = run[p].msg.rid
        /\ claims'[b].claimedAt = clock /\ claims'[b].expires = clock + ClaimTTL
        /\ \A c \in Content \ {b} : claims'[c] = claims[c]
    <3> DEFINE c == [id |-> run[p].req, owner |-> run[p].msg.rid, status |-> "in_progress",
                     claimedAt |-> clock, expires |-> clock + ClaimTTL]
    <3>1. claims' = [claims EXCEPT ![b] = c]  BY <1>5 DEF ClaimWin
    <3>2. c \in Claim /\ c # None
      <4>1. run[p].req \in Identity /\ clock + ClaimTTL \in Nat
        BY <1>1, <1>2, RunTyped, ConstantsAssumption
      <4> QED  BY <1>2, <4>1, ClaimAssumption DEF Claim
    <3> QED  BY <1>2, <1>3, <1>5, <3>1, <3>2 DEF ClaimWin
  <2>3. UNCHANGED <<inbox, clock, stamp>>  BY <1>5 DEF ClaimWin
  <2>4. Holds(s, claims'[b])
    BY <1>2, <2>1, <2>2, ConstantsAssumption DEF Holds, Dated
  <2>5. Kept  BY <1>2, <2>2
  <2>6. s.started <= clock  BY <2>1 DEF Dated
  <2>7. \A c \in Content : claims'[c] # None =>
          \/ claims[c] # None /\ claims'[c].owner = claims[c].owner /\ claims'[c].claimedAt = claims[c].claimedAt
          \/ claims'[c].owner = s.msg.rid /\ s.started <= claims'[c].claimedAt
    BY <2>1, <2>2, <2>6
  <2> HIDE DEF s
  <2> QED  BY <1>1, <1>2, <2>1, <2>3, <2>4, <2>5, <2>7, MoveFenced
<1>6. CASE ClaimTake(p) /\ OwnerUnchanged(p)
  <2> DEFINE s == [run[p] EXCEPT !.pc = "plan", !.kind = "TAKEN_OVER"]
             c == [claims[b] EXCEPT !.owner = run[p].msg.rid, !.claimedAt = run[p].at]
  <2>1. Follows(s) /\ s.pc = "plan" /\ s.kind = "TAKEN_OVER"
    BY <1>2, <1>6 DEF ClaimTake, RunState, Dated
  <2>2. claims[b] # None /\ claims[b] \in Claim /\ claims[b].owner = run[p].owner
    BY <1>1, <1>2, <1>6, RunTyped DEF OwnerUnchanged
  <2>3. c.owner = run[p].msg.rid /\ c.claimedAt = run[p].at  BY <2>2 DEF Claim
  <2>4. claims' = [claims EXCEPT ![b] = c]  BY <1>6 DEF ClaimTake
  <2> HIDE DEF c
  <2>5. claims'[b] = c /\ \A a \in Content \ {b} : claims'[a] = claims[a]  BY <1>2, <1>3, <2>4
  <2>6. Gone(claims[b].owner) /\ run[p].started <= run[p].at
    BY <1>1, <1>2, <1>6, <2>2 DEF Fenced, ObservedOwnersGone, ClaimTake, At, Dated
  <2>7. UNCHANGED <<inbox, clock, stamp>>  BY <1>6 DEF ClaimTake
  <2>8. \A a \in Content \ {b} : claims[a] # None =>
          claims'[a] # None /\ claims'[a].owner = claims[a].owner /\ claims'[a].expires \in Nat
            /\ claims[a].expires <= claims'[a].expires
    BY <1>2, <2>5
  <2> HIDE DEF s
  <2>9. \A a \in Content : claims'[a] # None =>
          \/ claims[a] # None /\ claims'[a].owner = claims[a].owner /\ claims'[a].claimedAt = claims[a].claimedAt
          \/ claims'[a].owner = s.msg.rid /\ s.started <= claims'[a].claimedAt
    BY <2>1, <2>3, <2>5, <2>6
  <2>10. \A a \in Content : claims[a] # None =>
           \/ Gone(claims[a].owner)
           \/ /\ claims'[a] # None /\ claims'[a].owner = claims[a].owner
              /\ claims'[a].expires \in Nat /\ claims[a].expires <= claims'[a].expires
    BY <2>6, <2>8
  <2> QED  BY <1>1, <2>1, <2>7, <2>9, <2>10, MoveFenced
<1>7. CASE Complete(p) /\ Completable(claims[run[p].id.batch], run[p].msg.rid)
  <2> DEFINE s == [run[p] EXCEPT !.pc = "done"]
             a == run[p].id.batch
             c == [claims[a] EXCEPT !.status = "completed", !.expires = clock + ClaimTTL]
  <2>1. Follows(s) /\ s.pc = "done"
    BY <1>2, <1>7 DEF Complete, Goto, RunState, Dated
  <2>2. claims[a] # None /\ claims[a] \in Claim /\ a \in Content
    BY <1>1, <1>2, <1>7, RunTyped DEF Completable, Identity
  <2>3. c.owner = claims[a].owner /\ c.claimedAt = claims[a].claimedAt /\ c.expires = clock + ClaimTTL
        /\ c \in Claim
    <3>1. clock + ClaimTTL \in Nat  BY <1>2, ConstantsAssumption
    <3> QED  BY <2>2, <3>1 DEF Claim
  <2>4. claims' = [claims EXCEPT ![a] = c]  BY <1>7 DEF Complete
  <2> HIDE DEF c
  <2>5. claims'[a] = c /\ \A e \in Content \ {a} : claims'[e] = claims[e]  BY <2>2, <1>3, <2>4
  <2>6. Kept  BY <1>2, <2>2, <2>3, <2>5, ConstantsAssumption, ClaimAssumption
  <2>7. UNCHANGED <<inbox, clock, stamp>>  BY <1>7 DEF Complete
  <2> HIDE DEF s
  <2> QED  BY <1>1, <1>2, <2>1, <2>2, <2>3, <2>5, <2>6, <2>7, MoveFenced DEF AtWork
<1> DEFINE Steady(s) ==
      /\ Follows(s)
      /\ s.pc \in {"claim", "read", "take"} => run[p].pc \in {"claim", "read", "take"}
      /\ s.pc = "take" => Gone(s.owner)
      /\ s.kind = "WON" /\ s.pc \in AtWork => run[p].kind = "WON" /\ run[p].pc \in AtWork
<1>8. ASSUME NEW s, Steady(s), UNCHANGED <<inbox, clock, claims>>, stamp' \in {stamp, stamp + 1}
      PROVE  Fenced'
  <2>1. Kept  BY <1>2, <1>8
  <2> QED  BY <1>1, <1>2, <1>8, <2>1, MoveFenced
<1>9. CASE ClaimLose(p)
  <2> DEFINE s == [run[p] EXCEPT !.pc = "read", !.at = clock]
  <2>1. /\ s.pc = "read" /\ s.at = clock /\ s.msg = run[p].msg /\ s.started = run[p].started
        /\ s.req = run[p].req /\ s.owner = run[p].owner /\ run[p].pc = "claim"
        /\ run' = [run EXCEPT ![p] = s]
    BY <1>2, <1>9 DEF ClaimLose, At, RunState
  <2> HIDE DEF s
  <2>2. Dated(s, clock, stamp)  BY <1>2, <2>1 DEF Dated
  <2>3. Steady(s)  BY <1>2, <2>1, <2>2 DEF AtWork
  <2> HIDE DEF s
  <2> QED  BY <1>8, <1>9, <2>3 DEF ClaimLose
<1>10. CASE (ClaimRead(p) \/ ClaimTake(p)) /\ Lost(p) /\ UNCHANGED claims
  <2> DEFINE s == [run[p] EXCEPT !.pc = "plan", !.kind = "LOST", !.id = run[p].req]
  <2>1. Steady(s)  BY <1>2, <1>10 DEF Lost, RunState, Dated
  <2>2. UNCHANGED <<inbox, clock, claims, stamp>>  BY <1>10 DEF ClaimRead, ClaimTake
  <2> HIDE DEF s
  <2> QED  BY <1>8, <2>1, <2>2
<1>11. CASE ClaimRead(p) /\ ~Lost(p)
  <2> DEFINE s == [run[p] EXCEPT !.pc = "take", !.id = claims[b].id, !.owner = claims[b].owner]
  <2>1. run' = [run EXCEPT ![p] = s] /\ IsStale(claims[b], run[p].at) /\ claims[b] # None
    BY <1>11 DEF ClaimRead
  <2>2. /\ claims[b].owner \in Nat /\ claims[b].owner <= stamp /\ claims[b].claimedAt \in Nat
        /\ run[p].at - claims[b].claimedAt > StaleAfter /\ run[p].at <= clock /\ run[p].pc = "read"
    BY <1>1, <1>2, <1>11, <2>1, RunTyped DEF Fenced, OwnersAtWork, IsStale, Dated, ClaimRead, At
  <2>3. Gone(claims[b].owner)
    <3>1. \A q \in Live : /\ run[q].started \in Nat /\ clock <= run[q].started + LambdaMax
      BY <1>1, RunTyped DEF Fenced, RunsDated, Dated
    <3>2. \A q \in Live : ~(run[q].started <= claims[b].claimedAt)
      BY <1>2, <2>2, <3>1, TimingAssumption, ConstantsAssumption
    <3> QED  BY <1>2, <2>1, <3>2 DEF Fenced, OwnersAtWork, Gone
  <2>4. Steady(s)  BY <1>2, <2>1, <2>2, <2>3 DEF RunState, Dated, AtWork
  <2>5. UNCHANGED <<inbox, clock, claims, stamp>>  BY <1>11 DEF ClaimRead
  <2> HIDE DEF s
  <2> QED  BY <1>8, <2>4, <2>5
<1>12. CASE Plan(p)
  <2> DEFINE s == [run[p] EXCEPT !.rows = PlannedRows(p), !.pc = AfterPlan(p)]
  <2>1. AfterPlan(p) \in {"copy", "append", "done"}  BY DEF AfterPlan
  <2>2. Steady(s)  BY <1>2, <1>12, <2>1 DEF Plan, At, RunState, Dated, AtWork
  <2> HIDE DEF s
  <2> QED  BY <1>8, <1>12, <2>2 DEF Plan
<1>13. CASE (Copy(p) \/ AppendRows(p) \/ Emit(p) \/ Complete(p)) /\ UNCHANGED claims
  <2>1. PICK next \in {"append", "emit", "complete", "done"} : run' = [run EXCEPT ![p].pc = next]
    BY <1>13 DEF Copy, AppendRows, Emit, Complete, Goto
  <2> DEFINE s == [run[p] EXCEPT !.pc = next]
  <2>2. run[p].pc \in AtWork  BY <1>13 DEF Copy, AppendRows, Emit, Complete, Goto, At, AtWork
  <2>3. Steady(s)  BY <1>2, <2>1, <2>2 DEF RunState, Dated, AtWork
  <2>4. UNCHANGED <<inbox, clock, claims, stamp>>  BY <1>13 DEF Copy, AppendRows, Emit, Complete
  <2> HIDE DEF s
  <2> QED  BY <1>8, <2>3, <2>4
<1>14. CASE ClaimTake(p) /\ ~OwnerUnchanged(p)  BY <1>10, <1>14 DEF ClaimTake
<1>15. CASE ClaimRead(p)  BY <1>10, <1>11, <1>15 DEF ClaimRead
<1>16. CASE Copy(p) \/ AppendRows(p) \/ Emit(p) \/ Complete(p)
  BY <1>7, <1>13, <1>16 DEF Copy, AppendRows, Emit, Complete
<1> QED  BY <1>5, <1>6, <1>9, <1>12, <1>14, <1>15, <1>16

\* An invocation ends; what is left of it is at most a retry.
LEMMA EndFenced ==
  ASSUME SafeInv, Fenced, NEW p \in Run, Return(p) \/ Fail(p) \/ ClaimVanished(p)
  PROVE  Fenced'
<1> DEFINE m == run[p].msg
           retry == [m EXCEPT !.tries = @ + 1]
<1>1. p \in Live /\ TypeInv  BY DEF Return, Fail, ClaimVanished, At, SafeInv
<1>2. /\ run' = [run EXCEPT ![p] = None] /\ UNCHANGED <<clock, stamp, claims>>
      /\ inbox' \subseteq inbox \cup {retry}
  BY DEF Return, Fail, ClaimVanished, Requeue
<1>3. m \in Message /\ m.rid \in Nat /\ m.rid <= stamp  BY <1>1, RunTyped DEF Fenced, RunsDated, Dated
<1>4. retry.rid = m.rid /\ ~First(retry)  BY <1>3 DEF Message, First
<1>5. Live' = Live \ {p} /\ \A q \in Live' : run'[q] = run[q]
  BY <1>1, <1>2 DEF Live, TypeInv, RunsOK
<1> HIDE DEF m, retry
<1>6. \A i \in inbox' : i \in inbox \/ (i.rid = m.rid /\ ~First(i) /\ i = retry)  BY <1>2, <1>4
<1>7. \A q \in Live' : run[q].msg.rid # m.rid  BY <1>1, <1>5 DEF Fenced, RidsUnique, m
<1>8. \A i \in inbox : i.rid # m.rid  BY <1>1 DEF Fenced, RidsUnique, m
<1>9. RunsDated'  BY <1>2, <1>5 DEF Fenced, RunsDated
<1>10. RidsUnique'  BY <1>2, <1>3, <1>5, <1>6, <1>7, <1>8 DEF Fenced, RidsUnique
<1>11. \A rid : Gone(rid) => Gone(rid)'  BY <1>5, <1>6 DEF Gone
<1>12. OwnersAtWork'  BY <1>2, <1>5, <1>6 DEF Fenced, OwnersAtWork
<1>13. ObservedOwnersGone'  BY <1>5, <1>11 DEF Fenced, ObservedOwnersGone
<1>14. WinnersHoldTheirClaim'  BY <1>2, <1>5 DEF Fenced, WinnersHoldTheirClaim
<1> QED  BY <1>9, <1>10, <1>12, <1>13, <1>14 DEF Fenced

\* A new invocation has a request id that nobody has seen.
LEMMA QuietFenced ==
  ASSUME SafeInv, Fenced, UNCHANGED <<clock, claims, run>>, stamp' \in {stamp, stamp + 1},
         \A i \in inbox' : i \in inbox \/ (i.rid = stamp + 1 /\ stamp' = stamp + 1),
         \A i, j \in inbox' \ inbox : i = j
  PROVE  Fenced'
<1>1. TypeInv /\ Live' = Live /\ stamp \in Nat  BY RunTyped DEF SafeInv, Live
<1>2. \A p \in Live : run[p].msg.rid \in Nat /\ run[p].msg.rid <= stamp /\ run[p].owner \in Nat /\ run[p].owner <= stamp
  BY <1>1, RunTyped DEF Fenced, RunsDated, Dated
<1>3. \A b \in Content : claims[b] # None => claims[b].owner \in Nat /\ claims[b].owner <= stamp
  BY <1>1, RunTyped DEF Fenced, OwnersAtWork
<1>4. \A i \in inbox : i.rid \in Nat /\ i.rid <= stamp  BY <1>1, RunTyped DEF Fenced, RidsUnique
<1>5. RunsDated'
  BY <1>1, <1>2 DEF Fenced, RunsDated, Dated
<1>6. RidsUnique'  BY <1>1, <1>2, <1>4 DEF Fenced, RidsUnique
<1>7. \A rid \in Nat : rid <= stamp /\ Gone(rid) => Gone(rid)'  BY <1>1, <1>2, <1>4 DEF Gone
<1>8. OwnersAtWork'
  BY <1>1, <1>3 DEF Fenced, OwnersAtWork
<1>9. ObservedOwnersGone'  BY <1>1, <1>2, <1>7 DEF Fenced, ObservedOwnersGone
<1>10. WinnersHoldTheirClaim'  BY <1>1 DEF Fenced, WinnersHoldTheirClaim
<1> QED  BY <1>5, <1>6, <1>8, <1>9, <1>10 DEF Fenced

LEMMA BackgroundFenced ==
  ASSUME SafeInv, Fenced,
         \/ \E u \in Uploads : Upload(u[1], u[2])
         \/ \E m \in inbox : Redeliver(m) \/ Expire(m)
         \/ \E b \in Content : Sweep(b)
         \/ ReconcileRead \/ ReconcileAppend \/ ReconcileFail
         \/ UNCHANGED vars
  PROVE  Fenced'
<1>1. stamp \in Nat /\ inbox \subseteq Message  BY DEF SafeInv, TypeInv, RestOK
<1>2. UNCHANGED <<clock, claims, run>> /\ stamp' \in {stamp, stamp + 1}
  BY DEF Upload, Redeliver, Expire, Sweep, ReconcileRead, ReconcileAppend, ReconcileFail, vars
<1>3. /\ \A i \in inbox' : i \in inbox \/ (i.rid = stamp + 1 /\ stamp' = stamp + 1)
      /\ \A i, j \in inbox' \ inbox : i = j
  <2>1. ASSUME NEW s, inbox' = inbox \cup {Event(s)}, stamp' = stamp + 1 PROVE <1>3
    BY <2>1 DEF Event
  <2>2. ASSUME NEW m \in inbox, Redeliver(m) PROVE <1>3
    <3>1. [m EXCEPT !.rid = stamp + 1].rid = stamp + 1  BY <1>1 DEF Message
    <3> QED  BY <2>2, <3>1 DEF Redeliver
  <2>3. CASE inbox' \subseteq inbox  BY <2>3
  <2> QED
    BY <2>1, <2>2, <2>3 DEF Upload, Expire, Sweep, ReconcileRead, ReconcileAppend, ReconcileFail, vars
<1> QED  BY <1>2, <1>3, QuietFenced

LEMMA StartFenced ==
  ASSUME SafeInv, Fenced, NEW p \in Run, NEW m \in inbox, Start(p, m) PROVE Fenced'
<1> DEFINE verdict == Verdict[slot[m.slot]]
           s == [pc |-> IF verdict = "complete" THEN "claim" ELSE "plan",
                 msg |-> m, req |-> Acquired(m), id |-> Acquired(m),
                 kind |-> IF verdict = "complete" THEN "none" ELSE verdict,
                 owner |-> 0, at |-> 0, started |-> clock, rows |-> {}]
<1>1. /\ run' = [run EXCEPT ![p] = s] /\ stamp' = stamp + 1 /\ UNCHANGED <<claims, clock>>
      /\ inbox' = inbox \ {m} /\ p \notin Live
  BY DEF Start, Invoked
<1>2. TypeInv /\ stamp \in Nat /\ clock \in Nat /\ m \in Message /\ m.rid \in Nat
  BY DEF SafeInv, TypeInv, RestOK, Message
<1>3. verdict \in {"complete", "incomplete", "unreadable"}
  BY S3PushAssumption DEF SafeInv, TypeInv, RestOK, Message
<1>4. /\ s.msg = m /\ s.pc \in {"claim", "plan"} /\ s.kind # "WON" /\ s.owner = 0 /\ s.started = clock
      /\ s.req.received = clock /\ (s.pc = "plan" <=> verdict # "complete")
  BY <1>3 DEF Acquired
<1> HIDE DEF s, verdict
<1>5. Live' \subseteq Live \cup {p} /\ run'[p] = s /\ \A q \in Live : run'[q] = run[q]
  BY <1>1, <1>2 DEF Live, TypeInv, RunsOK
<1>6. \A q \in Live : run[q].msg.rid \in Nat /\ run[q].owner \in Nat  BY <1>2, RunTyped
<1>7. m.rid <= stamp /\ \A q \in Live : run[q].msg.rid # m.rid  BY DEF Fenced, RidsUnique
<1>8. RunsDated'
  <2>1. Dated(s, clock', stamp')  BY <1>1, <1>2, <1>4, <1>7, ConstantsAssumption DEF Dated
  <2>2. \A q \in Live : Dated(run[q], clock', stamp')
    BY <1>1, <1>2, <1>6 DEF Fenced, RunsDated, Dated
  <2> QED  BY <1>5, <2>1, <2>2 DEF RunsDated
<1>9. RidsUnique'
  BY <1>1, <1>2, <1>4, <1>5, <1>7, RunTyped DEF Fenced, RidsUnique
<1>10. \A rid : Gone(rid) => Gone(rid)'
  BY <1>1, <1>4, <1>5 DEF Gone
<1>11. OwnersAtWork'
  BY <1>1, <1>2, <1>4, <1>5, RunTyped DEF Fenced, OwnersAtWork
<1>12. ObservedOwnersGone'
  BY <1>4, <1>5, <1>10 DEF Fenced, ObservedOwnersGone
<1>13. WinnersHoldTheirClaim'
  BY <1>1, <1>4, <1>5 DEF Fenced, WinnersHoldTheirClaim
<1> QED  BY <1>8, <1>9, <1>11, <1>12, <1>13 DEF Fenced

LEMMA TickFenced == ASSUME SafeInv, Fenced, Tick PROVE Fenced'
<1>1. TypeInv /\ Live' = Live /\ clock' = clock + 1 /\ UNCHANGED <<run, claims, inbox, stamp>>
  BY DEF SafeInv, Tick, Live, background
<1>2. RunsDated'
  <2>1. \A p \in Live : clock + 1 - run[p].started <= LambdaMax  BY DEF Tick
  <2> QED  BY <1>1, <2>1, RunTyped, ConstantsAssumption DEF Fenced, RunsDated, Dated
<1>3. RidsUnique' /\ OwnersAtWork' /\ WinnersHoldTheirClaim'
  BY <1>1 DEF Fenced, RidsUnique, OwnersAtWork, WinnersHoldTheirClaim
<1>4. ObservedOwnersGone'  BY <1>1 DEF Fenced, ObservedOwnersGone, Gone
<1> QED  BY <1>2, <1>3, <1>4 DEF Fenced

\* An item that DynamoDB deletes is older than any live invocation.
LEMMA ReapFenced == ASSUME SafeInv, Fenced, NEW b \in Content, Reap(b) PROVE Fenced'
<1>1. /\ TypeInv /\ Live' = Live /\ UNCHANGED <<run, inbox, stamp, clock>>
      /\ claims[b] # None /\ clock > claims[b].expires
  BY DEF SafeInv, Reap, Live, background
<1>2. claims'[b] = None /\ \A c \in Content \ {b} : claims'[c] = claims[c]
  BY <1>1 DEF Reap, TypeInv, ClaimsOK
<1>3. RunsDated' /\ RidsUnique' /\ ObservedOwnersGone'
  BY <1>1 DEF Fenced, RunsDated, RidsUnique, ObservedOwnersGone, Gone
<1>4. OwnersAtWork'  BY <1>1, <1>2 DEF Fenced, OwnersAtWork
<1>5. \A q \in Live : ~Holds(run[q], claims[b])
  BY <1>1, RunTyped, TimingAssumption, ConstantsAssumption DEF Fenced, RunsDated, Dated, Holds
<1>6. WinnersHoldTheirClaim'
  BY <1>1, <1>2, <1>5, RunTyped DEF Fenced, WinnersHoldTheirClaim
<1> QED  BY <1>3, <1>4, <1>6 DEF Fenced

LEMMA NextFenced == SafeInv /\ Fenced /\ [Next]_vars => Fenced'
<1> SUFFICES ASSUME SafeInv, Fenced, [Next]_vars PROVE Fenced'
  OBVIOUS
<1>1. ASSUME NEW p \in Run, Advance(p) PROVE Fenced'
  BY <1>1, AdvanceFenced, EndFenced DEF Advance
<1>2. CASE RegistrationNext
  BY <1>1, <1>2, EndFenced, BackgroundFenced, TickFenced, ReapFenced DEF RegistrationNext
<1> QED  BY <1>2, StartFenced, BackgroundFenced DEF Next

LEMMA InitFenced == RegistrationInit => Fenced
  BY DEF RegistrationInit, Fenced, RunsDated, RidsUnique, OwnersAtWork, ObservedOwnersGone,
         WinnersHoldTheirClaim, Live

LEMMA FencedAlways == Spec => [](SafeInv /\ Fenced)
<1>1. SafeInv /\ [Next]_vars => SafeInv'  BY NextSafe
<1>2. RegistrationInit => SafeInv /\ Fenced  BY InitTypeInv, InitSafe, InitFenced DEF SafeInv
<1>3. (SafeInv /\ Fenced) /\ [Next]_vars => (SafeInv /\ Fenced)'  BY <1>1, NextFenced
<1> QED  BY <1>2, <1>3, PTL DEF Spec

\* A run takes a claim over by the update that finds its owner unchanged.
LEMMA OnlyTakesTake ==
  ASSUME TypeInv, NEW p \in Live, run[p].pc = "take", Next,
         run'[p] # None, run'[p].kind = "TAKEN_OVER"
  PROVE  OwnerUnchanged(p)
<1>1. /\ run = [q \in Run |-> run[q]] /\ run[p] \in RunState /\ run[p].kind = "none"
  BY DEF TypeInv, RunsOK, RunOK
<1>2. run'[p] # run[p]  BY <1>1
<1>3. ASSUME NEW q \in Run, NEW s, run' = [run EXCEPT ![q] = s] PROVE q = p /\ run'[p] = s
  BY <1>1, <1>2, <1>3 DEF Live
<1>4. ASSUME NEW q \in Run, NEW m \in inbox, Start(q, m) PROVE FALSE
  BY <1>3, <1>4 DEF Start, Invoked
<1>5. ASSUME NEW q \in Run, Advance(q) \/ Fail(q) PROVE OwnerUnchanged(p)
  <2>1. CASE Return(q) \/ Fail(q) \/ ClaimVanished(q)
    <3>1. run' = [run EXCEPT ![q] = None]  BY <2>1 DEF Return, Fail, ClaimVanished, Requeue
    <3> QED  BY <1>3, <3>1
  <2>2. CASE ClaimTake(q)
    <3> DEFINE lost == [run[q] EXCEPT !.pc = "plan", !.kind = "LOST", !.id = run[q].req]
    <3>1. SUFFICES ASSUME ~OwnerUnchanged(q) PROVE FALSE
      <4>1. \E s : run' = [run EXCEPT ![q] = s]  BY <2>2 DEF ClaimTake, Lost
      <4> QED  BY <1>3, <4>1
    <3>2. run' = [run EXCEPT ![q] = lost]  BY <2>2, <3>1 DEF ClaimTake, Lost
    <3>3. q = p /\ run'[p] = lost  BY <1>3, <3>2
    <3> QED  BY <1>1, <3>3 DEF RunState
  <2>3. CASE ~ClaimTake(q) /\ ~(Return(q) \/ Fail(q) \/ ClaimVanished(q))
    <3>1. \A r \in Run \ {q} : run'[r] = run[r]
      BY <1>1, <1>5, <2>3 DEF Advance, ClaimWin, ClaimLose, ClaimRead, Lost, Plan, Copy, AppendRows,
                              Emit, Complete, Goto
    <3>2. q = p  BY <1>2, <3>1 DEF Live
    <3> QED  BY <1>5, <2>3, <3>2 DEF Advance, ClaimWin, ClaimLose, ClaimRead, Plan, Copy, AppendRows, Emit,
                        Complete, Goto, At
  <2> QED  BY <2>1, <2>2, <2>3
<1>6. ASSUME UNCHANGED run PROVE FALSE  BY <1>2, <1>6
<1> QED
  BY <1>4, <1>5, <1>6 DEF Next, RegistrationNext, Upload, Redeliver, Sweep, Expire, Reap, Tick,
                          ReconcileRead, ReconcileAppend, ReconcileFail

\* A takeover displaces no first attempt.
THEOREM TakeoversFenced == Spec => TakeoverFindsOwnerDead
<1> DEFINE Fair == \A p \in Run, b \in Content : Takes(p, b) =>
                     \A q \in Run \ {p} : Executes(q, b) /\ run[q].msg.tries = 0 =>
                       run[q].kind = "TAKEN_OVER" /\ run[q].msg.rid # run[p].owner
<1>1. ASSUME SafeInv, Fenced, Next PROVE Fair
  <2> SUFFICES ASSUME NEW p \in Run, NEW b \in Content, Takes(p, b),
                      NEW q \in Run \ {p}, Executes(q, b), run[q].msg.tries = 0
               PROVE  run[q].kind = "TAKEN_OVER" /\ run[q].msg.rid # run[p].owner
    OBVIOUS
  <2>1. /\ p \in Live /\ q \in Live /\ run[p].pc = "take" /\ run[p].req.batch = b
        /\ First(run[q].msg) /\ run[q].pc \in AtWork
        /\ run[q].id.batch = b /\ run[q].kind \in {"WON", "TAKEN_OVER"}
    BY DEF Takes, Executes, At, First, AtWork
  <2>2. run[q].req.batch = b  BY <1>1, <2>1 DEF SafeInv, Safe, RunsStaged, Staged
  <2>3. run[q].msg.rid # run[p].owner  BY <1>1, <2>1 DEF Fenced, ObservedOwnersGone, Gone
  <2>4. claims[b] # None /\ claims[b].owner = run[p].owner
    BY <1>1, <2>1, OnlyTakesTake DEF OwnerUnchanged, Takes, SafeInv
  <2>5. run[q].kind # "WON"
    BY <1>1, <2>1, <2>2, <2>3, <2>4 DEF Fenced, WinnersHoldTheirClaim, Holds
  <2> QED  BY <2>1, <2>3, <2>5
<1>2. (SafeInv /\ Fenced) /\ [Next]_vars => [Fair]_vars  BY <1>1
<1>3. Spec => [][Fair]_vars
  <2>1. Spec => [][Next]_vars  BY PTL DEF Spec
  <2> QED  BY <1>2, <2>1, FencedAlways, PTL
<1> QED  BY <1>3 DEF TakeoverFindsOwnerDead

-------------------------------------------------------------------------------
\* The ledger

\* The rows appended, and those that live runs have planned.
AllRows == ledger \cup UNION {run[p].rows : p \in Live}

\* Every identity in use.
Minted == Ids \cup {r.id : r \in AllRows}

\* A duplicate or a defect.
Noted(r) == r.disp \notin {"registered", "superseded"}

\* The identities that are registered or that a run may yet register.
Registrable ==
  {claims[b].id : b \in {c \in Content : claims[c] # None}}
    \cup {run[p].id : p \in {q \in Live : Winner(run[q]) \/ run[q].pc = "take"}}
    \cup {r.id : r \in {q \in AllRows : q.disp = "registered"}}

\* A delivery id is minted once, and a later one is received later.
MintedOnce ==
  /\ \A x \in Minted : x.delivery <= stamp /\ x.received <= clock
  /\ \A x, y \in Minted :
       /\ x.delivery = y.delivery => x = y
       /\ x.delivery < y.delivery => x.received <= y.received

\* No two registrations are planned in one instant.
RowsDated ==
  /\ \A r \in AllRows : r.recorded <= stamp
  /\ \A r, q \in AllRows :
       r.disp = "registered" /\ q.disp = "registered" /\ r.recorded = q.recorded => r = q

\* Every superseding row has, of the same instant and key, the registration of
\* another delivery.
Paired(rows) ==
  \A t \in rows : t.disp = "superseded" =>
    \E r \in rows : /\ r.disp = "registered" /\ r.recorded = t.recorded
                    /\ r.id.key = t.id.key /\ r.id.delivery # t.id.delivery

\* Until the weekly job runs, nothing is superseded but by a registration.
Corrections ==
  /\ recon.busy => recon.runs > 0
  /\ recon.rows \subseteq ledger
  /\ \A p \in Live : Paired(run[p].rows)
  /\ recon.runs = 0 => Paired(ledger)

\* A run that has not won has a delivery of its own that nothing registers, and
\* that nothing notes while the run may still win it.
NotedApart ==
  /\ \A p \in Live : ~Winner(run[p]) => run[p].req \notin Registrable
  /\ \A p \in Live : run[p].kind \in {"LOST", "incomplete", "unreadable"} => run[p].id = run[p].req
  /\ \A p, q \in Live : p # q => run[p].req # run[q].req
  /\ \A r \in AllRows : Noted(r) => r.id \notin Registrable
  /\ \A p \in Live, r \in AllRows : run[p].kind = "none" => r.id # run[p].req

\* y was received a claim's life after x, but for the life of an invocation.
TTLGap(x, y) == x.received + ClaimTTL < y.received + LambdaMax

\* What was registrable before the claim of its content is spent: the claim it
\* had has expired.
Spent ==
  /\ \A b \in Content : claims[b] # None => claims[b].id.received + ClaimTTL <= claims[b].expires
  /\ \A x \in Registrable :
       IF claims[x.batch] = None THEN x.received + ClaimTTL < clock
       ELSE x = claims[x.batch].id \/ TTLGap(x, claims[x.batch].id)
  /\ \A x, y \in Registrable : x.batch = y.batch => x = y \/ TTLGap(x, y) \/ TTLGap(y, x)

\* The second inductive invariant, on top of SafeInv and Fenced.
Ledgered == MintedOnce /\ RowsDated /\ Corrections /\ NotedApart /\ Spent

LEMMA MintedTyped ==
  ASSUME TypeInv
  PROVE  /\ Minted \subseteq Identity /\ Registrable \subseteq Minted /\ AllRows \subseteq Row
         /\ stamp \in Nat /\ clock \in Nat
<1>1. RestOK /\ RunsOK /\ ClaimsOK  BY DEF TypeInv
<1>2. AllRows \subseteq Row
  BY <1>1 DEF AllRows, RestOK, RunsOK, RunOK, RunState
<1>3. {r.id : r \in AllRows} \subseteq Identity  BY <1>2 DEF Row
<1>4. Minted \subseteq Identity  BY <1>3, IdsTyped DEF Minted
<1>5. Registrable \subseteq Minted  BY DEF Registrable, Minted, Ids
<1> QED  BY <1>1, <1>2, <1>4, <1>5 DEF RestOK

\* What only shrinks keeps its invariant.
LEMMA MintedStays ==
  ASSUME TypeInv, MintedOnce, Minted' \subseteq Minted,
         stamp' \in {stamp, stamp + 1}, clock' \in {clock, clock + 1}
  PROVE  MintedOnce'
<1>1. \A x \in Minted : x.delivery \in Nat /\ x.received \in Nat  BY MintedTyped DEF Identity
<1>2. stamp \in Nat /\ clock \in Nat  BY MintedTyped
<1> QED  BY <1>1, <1>2 DEF MintedOnce

LEMMA RowsStay ==
  ASSUME TypeInv, RowsDated, AllRows' \subseteq AllRows, stamp' \in {stamp, stamp + 1}
  PROVE  RowsDated'
<1>1. \A r \in AllRows : r.recorded \in Nat  BY MintedTyped DEF Row
<1> QED  BY <1>1, MintedTyped DEF RowsDated

\* A claim that is not a new one: the same identity, and as long to live.
ClaimsAge ==
  \A b \in Content :
    /\ claims'[b] = None <=> claims[b] = None
    /\ claims[b] # None =>
         /\ claims'[b].id = claims[b].id
         /\ claims'[b].expires = claims[b].expires \/ claims'[b].expires = clock + ClaimTTL

LEMMA SpentStays ==
  ASSUME TypeInv, MintedOnce, Spent, Registrable' \subseteq Registrable, clock' = clock, ClaimsAge
  PROVE  Spent'
<1>1. \A x \in Registrable : x \in Identity /\ x.received \in Nat /\ x.batch \in Content
  BY MintedTyped DEF Identity
<1>2. \A b \in Content : claims[b] # None =>
        /\ claims[b].expires \in Nat /\ claims[b].id.received \in Nat /\ claims[b].id.received <= clock
  BY RunTyped DEF MintedOnce, Minted, Ids, Identity
<1>3. \A b \in Content : claims'[b] # None => claims'[b].id.received + ClaimTTL <= claims'[b].expires
  BY <1>2, ConstantsAssumption, MintedTyped DEF Spent, ClaimsAge
<1>4. \A x \in Registrable' :
        IF claims'[x.batch] = None THEN x.received + ClaimTTL < clock'
        ELSE x = claims'[x.batch].id \/ TTLGap(x, claims'[x.batch].id)
  BY <1>1 DEF Spent, ClaimsAge
<1> QED  BY <1>3, <1>4 DEF Spent

\* A run moves on with the rows it has, and wins nothing.
LEMMA MoveLedgered ==
  ASSUME TypeInv, Ledgered, NEW p \in Live, NEW s, run' = [run EXCEPT ![p] = s],
         s.req = run[p].req, s.rows = run[p].rows,
         s.id \in {run[p].id, run[p].req} \cup Registrable,
         Winner(s) \/ s.pc = "take" => s.id \in Registrable,
         Winner(s) \/ ~Winner(run[p]),
         s.kind \in {"LOST", "incomplete", "unreadable"} => s.id = s.req,
         s.kind = "none" => run[p].kind = "none",
         ledger' \in {ledger, ledger \cup run[p].rows},
         events' \subseteq events \cup {run[p].id},
         ClaimsAge, UNCHANGED <<clock, stamp, recon>>
  PROVE  Ledgered'
<1>1. Live' \subseteq Live /\ run'[p] = s /\ \A q \in Live \ {p} : run'[q] = run[q]
  BY OthersStay DEF TypeInv
<1>2. \A q \in Live' : run'[q].rows = run[q].rows /\ run'[q].req = run[q].req  BY <1>1
<1>3. AllRows' \subseteq AllRows  BY <1>1, <1>2 DEF AllRows
<1>4. \A b \in Content : claims'[b] # None => claims[b] # None /\ claims'[b].id = claims[b].id
  BY DEF ClaimsAge
<1>5. Registrable' \subseteq Registrable
  BY <1>1, <1>3, <1>4 DEF Registrable
<1>6. run[p].id \in Minted /\ run[p].req \in Minted  BY DEF Minted, Ids
<1>7. Minted' \subseteq Minted
  <2>1. {run'[q].req : q \in Live'} \subseteq Minted  BY <1>2, <1>1 DEF Minted, Ids
  <2>2. {run'[q].id : q \in Live'} \subseteq Minted  BY <1>1, <1>6, MintedTyped DEF Minted, Ids
  <2>3. events' \subseteq Minted  BY <1>6 DEF Minted, Ids
  <2>4. {r.id : r \in AllRows'} \subseteq Minted  BY <1>3 DEF Minted
  <2>5. {claims'[b].id : b \in {c \in Content : claims'[c] # None}} \subseteq Minted
    BY <1>4 DEF Minted, Ids
  <2> QED  BY <2>1, <2>2, <2>3, <2>4, <2>5 DEF Minted, Ids
<1>8. MintedOnce' /\ RowsDated' /\ Spent'
  BY <1>3, <1>5, <1>7, MintedStays, RowsStay, SpentStays DEF Ledgered
<1>9. Corrections'
  <2>1. \A q \in Live' : Paired(run'[q].rows)  BY <1>1, <1>2 DEF Ledgered, Corrections
  <2>2. recon.runs = 0 => Paired(ledger) /\ Paired(run[p].rows)  BY DEF Ledgered, Corrections
  <2>3. recon.runs = 0 => Paired(ledger')
    <3>1. CASE ledger' = ledger  BY <2>2, <3>1
    <3>2. CASE ledger' = ledger \cup run[p].rows  BY <2>2, <3>2 DEF Paired
    <3> QED  BY <3>1, <3>2
  <2>4. recon.rows' \subseteq ledger'  BY DEF Ledgered, Corrections
  <2> QED  BY <2>1, <2>3, <2>4 DEF Ledgered, Corrections
<1>10. NotedApart'
  BY <1>1, <1>2, <1>3, <1>5 DEF Ledgered, NotedApart
<1> QED  BY <1>8, <1>9, <1>10 DEF Ledgered

LEMMA AdvanceLedgered ==
  ASSUME SafeInv, Ledgered, NEW p \in Run,
         \/ ClaimLose(p) \/ ClaimRead(p) \/ ClaimTake(p)
         \/ Copy(p) \/ AppendRows(p) \/ Emit(p) \/ Complete(p)
  PROVE  Ledgered'
<1> DEFINE b == run[p].req.batch
<1>1. p \in Live /\ TypeInv
  BY DEF ClaimLose, ClaimRead, ClaimTake, Copy, AppendRows, Emit, Complete, Goto, At, SafeInv
<1>2. /\ run[p] \in RunState /\ b \in Content
      /\ run[p].kind = "none" <=> run[p].pc \in {"claim", "read", "take"}
      /\ run[p].pc \in {"copy", "emit", "complete"} => Winner(run[p])
  BY <1>1, RunTyped DEF TypeInv, RunsOK, RunOK, SafeInv, Safe, RunsStaged, Staged
<1>3. claims = [c \in Content |-> claims[c]]  BY <1>1 DEF TypeInv, ClaimsOK
<1>4. /\ \A c \in Content : claims[c] # None => claims[c].id \in Registrable
      /\ Winner(run[p]) \/ run[p].pc = "take" => run[p].id \in Registrable
  BY <1>1 DEF Registrable
<1>5. claims' = claims => ClaimsAge  BY DEF ClaimsAge
<1>6. UNCHANGED <<clock, stamp, recon>>
  BY DEF ClaimLose, ClaimRead, ClaimTake, Copy, AppendRows, Emit, Complete, background
<1>7. CASE ClaimLose(p)
  <2> DEFINE s == [run[p] EXCEPT !.pc = "read", !.at = clock]
  <2>1. /\ s.req = run[p].req /\ s.rows = run[p].rows /\ s.id = run[p].id /\ s.kind = run[p].kind
        /\ s.pc = "read" /\ run[p].pc = "claim" /\ run' = [run EXCEPT ![p] = s]
    BY <1>2, <1>7 DEF ClaimLose, At, RunState
  <2> HIDE DEF s
  <2>2. UNCHANGED <<ledger, events, claims>>  BY <1>7 DEF ClaimLose
  <2> QED  BY <1>1, <1>2, <1>5, <1>6, <2>1, <2>2, MoveLedgered DEF Winner
<1>8. CASE (ClaimRead(p) \/ ClaimTake(p)) /\ Lost(p) /\ UNCHANGED claims
  <2> DEFINE s == [run[p] EXCEPT !.pc = "plan", !.kind = "LOST", !.id = run[p].req]
  <2>1. /\ s.req = run[p].req /\ s.rows = run[p].rows /\ s.id = run[p].req /\ s.kind = "LOST"
        /\ s.pc = "plan" /\ run[p].kind = "none" /\ run' = [run EXCEPT ![p] = s]
    BY <1>2, <1>8 DEF ClaimRead, ClaimTake, At, Lost, RunState
  <2> HIDE DEF s
  <2>2. UNCHANGED <<ledger, events, claims>>  BY <1>8 DEF ClaimRead, ClaimTake
  <2> QED  BY <1>1, <1>2, <1>5, <1>6, <2>1, <2>2, MoveLedgered DEF Winner
<1>9. CASE ClaimRead(p) /\ ~Lost(p)
  <2> DEFINE s == [run[p] EXCEPT !.pc = "take", !.id = claims[b].id, !.owner = claims[b].owner]
  <2>1. /\ s.req = run[p].req /\ s.rows = run[p].rows /\ s.id = claims[b].id /\ s.kind = run[p].kind
        /\ s.pc = "take" /\ run[p].kind = "none" /\ run' = [run EXCEPT ![p] = s] /\ claims[b] # None
    BY <1>2, <1>9 DEF ClaimRead, At, RunState
  <2> HIDE DEF s
  <2>2. UNCHANGED <<ledger, events, claims>>  BY <1>9 DEF ClaimRead
  <2> QED  BY <1>1, <1>2, <1>4, <1>5, <1>6, <2>1, <2>2, MoveLedgered DEF Winner
<1>10. CASE ClaimTake(p) /\ OwnerUnchanged(p)
  <2> DEFINE s == [run[p] EXCEPT !.pc = "plan", !.kind = "TAKEN_OVER"]
             c == [claims[b] EXCEPT !.owner = run[p].msg.rid, !.claimedAt = run[p].at]
  <2>1. /\ s.req = run[p].req /\ s.rows = run[p].rows /\ s.id = run[p].id /\ s.kind = "TAKEN_OVER"
        /\ s.pc = "plan" /\ run[p].pc = "take" /\ run' = [run EXCEPT ![p] = s]
        /\ claims' = [claims EXCEPT ![b] = c] /\ claims[b] # None
    BY <1>2, <1>10 DEF ClaimTake, At, RunState, OwnerUnchanged
  <2> HIDE DEF s
  <2>2. UNCHANGED <<ledger, events>>  BY <1>10 DEF ClaimTake
  <2>3. ClaimsAge
    <3>1. claims[b] \in Claim  BY <1>1, <1>2, <2>1, RunTyped
    <3>2. c \in Claim /\ c.id = claims[b].id /\ c.expires = claims[b].expires
      BY <1>1, <1>2, <3>1, RunTyped DEF Claim
    <3> HIDE DEF c
    <3>3. c # None  BY <3>2, ClaimAssumption
    <3> QED  BY <1>2, <1>3, <2>1, <3>2, <3>3 DEF ClaimsAge
  <2> QED  BY <1>1, <1>2, <1>4, <1>6, <2>1, <2>2, <2>3, MoveLedgered DEF Winner
<1>11. CASE Copy(p) \/ AppendRows(p) \/ Emit(p) \/ Complete(p)
  <2>1. PICK next \in {"append", "emit", "complete", "done"} : run' = [run EXCEPT ![p].pc = next]
    BY <1>11 DEF Copy, AppendRows, Emit, Complete, Goto
  <2> DEFINE s == [run[p] EXCEPT !.pc = next]
  <2>2. /\ s.req = run[p].req /\ s.rows = run[p].rows /\ s.id = run[p].id /\ s.kind = run[p].kind
        /\ s.pc = next /\ run' = [run EXCEPT ![p] = s]
    BY <1>2, <2>1 DEF RunState
  <2> HIDE DEF s
  <2>3. /\ ledger' \in {ledger, ledger \cup run[p].rows}
        /\ events' \subseteq events \cup {run[p].id}
    BY <1>11 DEF Copy, AppendRows, Emit, Complete
  <2>4. ClaimsAge
    <3>1. CASE claims' = claims  BY <1>5, <3>1
    <3>2. CASE Complete(p) /\ Completable(claims[run[p].id.batch], run[p].msg.rid)
      <4> DEFINE a == run[p].id.batch
                 c == [claims[a] EXCEPT !.status = "completed", !.expires = clock + ClaimTTL]
      <4>1. claims[a] # None /\ claims[a] \in Claim /\ a \in Content
        BY <1>1, <1>2, <3>2, RunTyped DEF Completable, Identity
      <4>2. clock + ClaimTTL \in Nat  BY <1>1, RunTyped, ConstantsAssumption
      <4>3. c \in Claim /\ c.id = claims[a].id /\ c.expires = clock + ClaimTTL
        BY <4>1, <4>2 DEF Claim
      <4>4. claims' = [claims EXCEPT ![a] = c]  BY <3>2 DEF Complete
      <4> HIDE DEF c
      <4>5. c # None  BY <4>3, ClaimAssumption
      <4> QED  BY <1>3, <4>1, <4>3, <4>4, <4>5 DEF ClaimsAge
    <3> QED  BY <1>11, <3>1, <3>2 DEF Copy, AppendRows, Emit, Complete
  <2>5. s.kind \in {"LOST", "incomplete", "unreadable"} => s.id = s.req
    BY <1>1, <2>2 DEF Ledgered, NotedApart
  <2> QED  BY <1>1, <1>2, <1>4, <1>6, <2>2, <2>3, <2>4, <2>5, MoveLedgered DEF Winner
<1>12. CASE ClaimTake(p) /\ ~OwnerUnchanged(p)  BY <1>8, <1>12 DEF ClaimTake
<1>13. CASE ClaimRead(p)  BY <1>8, <1>9, <1>13 DEF ClaimRead
<1> QED  BY <1>7, <1>10, <1>11, <1>12, <1>13

\* The delivery of a winner becomes the registrable one of its content: every
\* earlier claim of the content had expired.
LEMMA WinLedgered ==
  ASSUME SafeInv, Fenced, Ledgered, NEW p \in Run, ClaimWin(p)
  PROVE  Ledgered'
<1> DEFINE b == run[p].req.batch
           id == run[p].req
           s == [run[p] EXCEPT !.pc = "plan", !.kind = "WON", !.id = run[p].req]
           c == [id |-> run[p].req, owner |-> run[p].msg.rid, status |-> "in_progress",
                 claimedAt |-> clock, expires |-> clock + ClaimTTL]
<1>1. p \in Live /\ TypeInv /\ run[p].kind = "none"
  BY DEF ClaimWin, At, SafeInv, TypeInv, RunsOK, RunOK
<1>2. /\ run[p] \in RunState /\ b \in Content /\ id \in Identity /\ run[p].msg.rid \in Nat
      /\ id.received \in Nat /\ clock \in Nat
      /\ id.received <= clock /\ clock <= id.received + LambdaMax
  BY <1>1, RunTyped DEF Fenced, RunsDated, Dated
<1>3. /\ s.req = id /\ s.id = id /\ s.rows = run[p].rows /\ s.kind = "WON" /\ s.pc = "plan"
      /\ run' = [run EXCEPT ![p] = s]
  BY <1>2 DEF ClaimWin, RunState
<1> HIDE DEF s
<1>4. claims[b] = None /\ claims'[b] = c /\ c # None /\ \A a \in Content \ {b} : claims'[a] = claims[a]
  <2>1. claims' = [claims EXCEPT ![b] = c] /\ claims[b] = None  BY DEF ClaimWin
  <2>2. claims = [a \in Content |-> claims[a]]  BY <1>1 DEF TypeInv, ClaimsOK
  <2>3. clock + ClaimTTL \in Nat  BY <1>2, ConstantsAssumption
  <2>4. c \in Claim  BY <1>2, <2>3 DEF Claim
  <2> HIDE DEF c
  <2> QED  BY <1>2, <2>1, <2>2, <2>4, ClaimAssumption
<1>5. c.id = id /\ c.expires = clock + ClaimTTL  OBVIOUS
<1> HIDE DEF c
<1>6. Live' \subseteq Live /\ run'[p] = s /\ \A q \in Live \ {p} : run'[q] = run[q]
  BY <1>1, <1>3, OthersStay DEF TypeInv
<1>7. UNCHANGED <<clock, stamp, recon, ledger, events>>  BY DEF ClaimWin, background
<1>8. AllRows' \subseteq AllRows
  BY <1>3, <1>6, <1>7 DEF AllRows
<1>9. Registrable' \subseteq Registrable \cup {id}
  BY <1>3, <1>4, <1>5, <1>6, <1>8 DEF Registrable
<1>10. id \in Minted  BY <1>1 DEF Minted, Ids
<1>11. Minted' \subseteq Minted
  <2>1. {run'[q].req : q \in Live'} \subseteq Minted  BY <1>3, <1>6 DEF Minted, Ids
  <2>2. {run'[q].id : q \in Live'} \subseteq Minted  BY <1>3, <1>6, <1>10 DEF Minted, Ids
  <2>3. {claims'[a].id : a \in {e \in Content : claims'[e] # None}} \subseteq Minted
    BY <1>4, <1>5, <1>10 DEF Minted, Ids
  <2> QED  BY <1>7, <1>8, <2>1, <2>2, <2>3 DEF Minted, Ids
<1>12. MintedOnce' /\ RowsDated'
  BY <1>1, <1>7, <1>8, <1>11, MintedStays, RowsStay DEF Ledgered
<1>13. Corrections'  BY <1>3, <1>6, <1>7 DEF Ledgered, Corrections
<1>14. NotedApart'
  <2>1. Winner(s)  BY <1>3 DEF Winner
  <2>2. \A q \in Live \ {p} : run[q].req # id  BY <1>1 DEF Ledgered, NotedApart
  <2>3. \A r \in AllRows : r.id # id  BY <1>1 DEF Ledgered, NotedApart
  <2> QED  BY <1>3, <1>6, <1>8, <1>9, <2>1, <2>2, <2>3 DEF Ledgered, NotedApart
<1>15. Spent'
  <2>1. \A x \in Registrable : /\ x \in Identity /\ x.received \in Nat /\ x.batch \in Content
                               /\ x.batch = b => TTLGap(x, id)
    <3>1. \A x \in Registrable : x \in Identity /\ x.received \in Nat /\ x.batch \in Content
      BY <1>1, MintedTyped DEF Identity
    <3>2. \A x \in Registrable : x.batch = b => x.received + ClaimTTL < clock
      BY <1>4 DEF Ledgered, Spent
    <3> QED  BY <1>2, <3>1, <3>2, ConstantsAssumption DEF TTLGap
  <2>2. id.batch = b  OBVIOUS
  <2>3. \A a \in Content : claims'[a] # None => claims'[a].id.received + ClaimTTL <= claims'[a].expires
    BY <1>2, <1>4, <1>5, ConstantsAssumption DEF Ledgered, Spent
  <2>4. \A x \in Registrable' :
          IF claims'[x.batch] = None THEN x.received + ClaimTTL < clock'
          ELSE x = claims'[x.batch].id \/ TTLGap(x, claims'[x.batch].id)
    BY <1>4, <1>5, <1>7, <1>9, <2>1, <2>2 DEF Ledgered, Spent
  <2>5. \A x, y \in Registrable' : x.batch = y.batch => x = y \/ TTLGap(x, y) \/ TTLGap(y, x)
    BY <1>9, <2>1, <2>2 DEF Ledgered, Spent
  <2> QED  BY <2>3, <2>4, <2>5 DEF Spent
<1> QED  BY <1>12, <1>13, <1>14, <1>15 DEF Ledgered

\* A new row: it is recorded now, and its identity is known.
LEMMA PlannedRowsPaired ==
  ASSUME SafeInv, Ledgered, NEW p \in Live, run[p].kind # "none"
  PROVE  /\ Paired(PlannedRows(p))
         /\ \A r \in PlannedRows(p) : r.recorded = stamp + 1
         /\ \A r, q \in PlannedRows(p) : r.disp = "registered" /\ q.disp = "registered" => r = q
         /\ \A r \in PlannedRows(p) :
              \/ r.id = run[p].id /\ (Winner(run[p]) <=> r.disp = "registered") /\ r.disp # "superseded"
              \/ r.disp = "superseded" /\ r.id \in Registrable /\ r.id \in Minted
<1> DEFINE id == run[p].id
           new == NewRow(id, "registered", {r.id.delivery : r \in Corrected(id)})
<1>1. /\ TypeInv /\ id \in Identity /\ ledger \subseteq Row
      /\ run[p].kind \in {"WON", "TAKEN_OVER", "LOST", "incomplete", "unreadable"}
  BY RunTyped DEF SafeInv, TypeInv, RestOK, RunState
<1>2. \A d, S : NewRow(id, d, S).id = id /\ NewRow(id, d, S).disp = d /\ NewRow(id, d, S).recorded = stamp + 1
  BY DEF NewRow
<1>3. CASE Winner(run[p])
  <2>1. PlannedRows(p) = {new} \cup {Superseded(r) : r \in Corrected(id)}
    BY <1>3 DEF PlannedRows, RegistrationRows, Winner
  <2>2. \A r \in Corrected(id) : /\ r \in ledger /\ r.disp = "registered" /\ r.id.key = id.key
                                 /\ r.id.delivery # id.delivery
    BY DEF Corrected, LivePrior, RegisteredDeliveries, LatestDispositions
  <2>3. \A r \in Corrected(id) : /\ Superseded(r).id = r.id /\ Superseded(r).disp = "superseded"
                                 /\ Superseded(r).recorded = stamp + 1
    BY <1>1, <2>2 DEF Superseded, Row
  <2>4. \A r \in Corrected(id) : r.id \in Registrable /\ r.id \in Minted
    BY <2>2 DEF Registrable, Minted, AllRows
  <2>5. new.id = id /\ new.disp = "registered" /\ new.recorded = stamp + 1  BY <1>2
  <2> HIDE DEF new
  <2>6. Paired(PlannedRows(p))  BY <2>1, <2>2, <2>3, <2>5 DEF Paired
  <2> QED  BY <1>3, <2>1, <2>3, <2>4, <2>5, <2>6
<1>4. CASE ~Winner(run[p])
  <2>1. \A r \in PlannedRows(p) : /\ r.id = id /\ r.recorded = stamp + 1
                                  /\ r.disp \in {"duplicate", "incomplete", "unreadable"}
    BY <1>1, <1>2, <1>4 DEF PlannedRows, Winner
  <2> QED  BY <1>4, <2>1 DEF Paired
<1> QED  BY <1>3, <1>4

\* Rows recorded now leave the older ones as they are.
LEMMA NewRowsDated ==
  ASSUME TypeInv, RowsDated, NEW rows, AllRows' \subseteq AllRows \cup rows, stamp' = stamp + 1,
         \A r \in rows : r.recorded = stamp + 1,
         \A r, q \in rows : r.disp = "registered" /\ q.disp = "registered" => r = q
  PROVE  RowsDated'
<1>1. stamp \in Nat /\ \A r \in AllRows : r.recorded \in Nat  BY MintedTyped DEF Row
<1>2. \A r \in AllRows : r.recorded <= stamp  BY DEF RowsDated
<1>3. \A r \in AllRows' : r.recorded <= stamp'  BY <1>1, <1>2
<1>4. \A r, q \in AllRows' :
        r.disp = "registered" /\ q.disp = "registered" /\ r.recorded = q.recorded => r = q
  BY <1>1, <1>2 DEF RowsDated
<1> QED  BY <1>3, <1>4 DEF RowsDated

LEMMA PlanLedgered == ASSUME SafeInv, Ledgered, NEW p \in Run, Plan(p) PROVE Ledgered'
<1> DEFINE s == [run[p] EXCEPT !.rows = PlannedRows(p), !.pc = AfterPlan(p)]
           rows == PlannedRows(p)
<1>1. p \in Live /\ TypeInv /\ run[p].pc = "plan" /\ run[p].kind # "none" /\ run[p] \in RunState
  BY DEF Plan, At, SafeInv, TypeInv, RunsOK, RunOK
<1>2. /\ s.req = run[p].req /\ s.id = run[p].id /\ s.kind = run[p].kind /\ s.rows = rows
      /\ s.pc \in {"copy", "append", "done"} /\ run' = [run EXCEPT ![p] = s]
  <2>1. AfterPlan(p) \in {"copy", "append", "done"}  BY DEF AfterPlan
  <2> QED  BY <1>1, <2>1 DEF Plan, RunState
<1> HIDE DEF s
<1>3. Live' \subseteq Live /\ run'[p] = s /\ \A q \in Live \ {p} : run'[q] = run[q]
  BY <1>1, <1>2, OthersStay DEF TypeInv
<1>4. UNCHANGED <<clock, recon, ledger, events, claims>> /\ stamp' = stamp + 1
  BY DEF Plan, background
<1>5. /\ Paired(rows)
      /\ \A r \in rows : r.recorded = stamp + 1
      /\ \A r, q \in rows : r.disp = "registered" /\ q.disp = "registered" => r = q
      /\ \A r \in rows :
           \/ r.id = run[p].id /\ (Winner(run[p]) <=> r.disp = "registered") /\ r.disp # "superseded"
           \/ r.disp = "superseded" /\ r.id \in Registrable /\ r.id \in Minted
  BY <1>1, PlannedRowsPaired
<1> HIDE DEF rows
<1>6. AllRows' \subseteq AllRows \cup rows
  BY <1>2, <1>3, <1>4 DEF AllRows
<1>7. Winner(run[p]) => run[p].id \in Registrable  BY <1>1 DEF Registrable
<1>8. Registrable' \subseteq Registrable
  <2>1. {r.id : r \in {q \in AllRows' : q.disp = "registered"}} \subseteq Registrable
    BY <1>5, <1>6, <1>7 DEF Registrable
  <2>2. {run'[q].id : q \in {x \in Live' : Winner(run'[x]) \/ run'[x].pc = "take"}} \subseteq Registrable
    BY <1>2, <1>3 DEF Registrable, Winner
  <2> QED  BY <1>4, <2>1, <2>2 DEF Registrable
<1>9. Minted' \subseteq Minted
  <2>1. run[p].id \in Minted /\ run[p].req \in Minted  BY <1>1 DEF Minted, Ids
  <2>2. {r.id : r \in AllRows'} \subseteq Minted  BY <1>5, <1>6, <2>1 DEF Minted
  <2>3. Ids' \subseteq Minted  BY <1>2, <1>3, <1>4, <2>1 DEF Minted, Ids
  <2> QED  BY <2>2, <2>3 DEF Minted
<1>10. MintedOnce' /\ Spent'
  BY <1>1, <1>4, <1>8, <1>9, MintedStays, SpentStays DEF Ledgered, ClaimsAge
<1>11. RowsDated'  BY <1>1, <1>4, <1>5, <1>6, NewRowsDated DEF Ledgered
<1>12. Corrections'  BY <1>2, <1>3, <1>4, <1>5 DEF Ledgered, Corrections
<1>13. NotedApart'
  <2>1. ~Winner(run[p]) => run[p].id = run[p].req /\ run[p].req \notin Registrable
    BY <1>1 DEF Ledgered, NotedApart, RunState, Winner
  <2>2. \A r \in rows : Noted(r) => r.id \notin Registrable  BY <1>5, <2>1 DEF Noted
  <2>3. \A q \in Live \ {p} : run[q].kind = "none" => \A r \in rows : r.id # run[q].req
    <3> SUFFICES ASSUME NEW q \in Live \ {p}, run[q].kind = "none", NEW r \in rows PROVE r.id # run[q].req
      OBVIOUS
    <3>1. run[q].req \notin Registrable /\ run[q].req # run[p].req
      BY <1>1 DEF Ledgered, NotedApart, Winner
    <3> QED  BY <1>5, <1>7, <2>1, <3>1
  <2>4. \A r \in AllRows' : Noted(r) => r.id \notin Registrable'
    BY <1>6, <1>8, <2>2 DEF Ledgered, NotedApart
  <2>5. \A q \in Live', r \in AllRows' : run'[q].kind = "none" => r.id # run'[q].req
    BY <1>1, <1>2, <1>3, <1>6, <2>3 DEF Ledgered, NotedApart
  <2>6. \A q \in Live' : ~Winner(run'[q]) => run'[q].req \notin Registrable'
    BY <1>1, <1>2, <1>3, <1>8 DEF Ledgered, NotedApart, Winner
  <2>7. /\ \A q \in Live' : run'[q].kind \in {"LOST", "incomplete", "unreadable"} => run'[q].id = run'[q].req
        /\ \A q, x \in Live' : q # x => run'[q].req # run'[x].req
    BY <1>1, <1>2, <1>3 DEF Ledgered, NotedApart
  <2> QED  BY <2>4, <2>5, <2>6, <2>7 DEF NotedApart
<1> QED  BY <1>10, <1>11, <1>12, <1>13 DEF Ledgered

\* A delivery that starts is known to nobody else.
LEMMA StartLedgered ==
  ASSUME SafeInv, Ledgered, NEW p \in Run, NEW m \in inbox, Start(p, m) PROVE Ledgered'
<1> DEFINE verdict == Verdict[slot[m.slot]]
           s == [pc |-> IF verdict = "complete" THEN "claim" ELSE "plan",
                 msg |-> m, req |-> Acquired(m), id |-> Acquired(m),
                 kind |-> IF verdict = "complete" THEN "none" ELSE verdict,
                 owner |-> 0, at |-> 0, started |-> clock, rows |-> {}]
           id == Acquired(m)
<1>1. /\ run' = [run EXCEPT ![p] = s] /\ stamp' = stamp + 1 /\ p \notin Live
      /\ UNCHANGED <<claims, clock, ledger, events, recon>>
  BY DEF Start, Invoked, background
<1>2. TypeInv /\ stamp \in Nat /\ clock \in Nat  BY DEF SafeInv, TypeInv, RestOK
<1>3. verdict \in {"complete", "incomplete", "unreadable"}
  BY S3PushAssumption DEF SafeInv, TypeInv, RestOK, Message
<1>4. /\ s.req = id /\ s.id = id /\ s.pc \in {"claim", "plan"} /\ s.rows = {}
      /\ s.kind \in {"none", "incomplete", "unreadable"}
      /\ id.delivery = stamp + 1 /\ id.received = clock
  BY <1>3 DEF Acquired
<1> HIDE DEF s, verdict, id
<1>5. Live' \subseteq Live \cup {p} /\ run'[p] = s /\ \A q \in Live : run'[q] = run[q]
  BY <1>1, <1>2 DEF Live, TypeInv, RunsOK
<1>6. AllRows' \subseteq AllRows  BY <1>1, <1>4, <1>5 DEF AllRows
<1>7. Minted' \subseteq Minted \cup {id}  BY <1>1, <1>4, <1>5, <1>6 DEF Minted, Ids
<1>8. \A x \in Minted : /\ x.delivery \in Nat /\ x.received \in Nat
                        /\ x.delivery <= stamp /\ x.received <= clock
  BY <1>2, MintedTyped DEF Ledgered, MintedOnce, Identity
<1>9. id \notin Minted  BY <1>2, <1>4, <1>8
<1>10. Registrable' \subseteq Registrable  BY <1>1, <1>4, <1>5, <1>6 DEF Registrable, Winner
<1>11. MintedOnce'
  <2>1. \A x \in Minted' : x.delivery <= stamp' /\ x.received <= clock'
    BY <1>1, <1>2, <1>4, <1>7, <1>8
  <2>2. \A x, y \in Minted' :
          /\ x.delivery = y.delivery => x = y
          /\ x.delivery < y.delivery => x.received <= y.received
    <3> SUFFICES ASSUME NEW x \in Minted', NEW y \in Minted'
                 PROVE  /\ x.delivery = y.delivery => x = y
                        /\ x.delivery < y.delivery => x.received <= y.received
      OBVIOUS
    <3>1. CASE x \in Minted /\ y \in Minted  BY <3>1 DEF Ledgered, MintedOnce
    <3>2. CASE x = id \/ y = id  BY <1>2, <1>4, <1>7, <1>8, <3>2
    <3> QED  BY <1>7, <3>1, <3>2
  <2> QED  BY <2>1, <2>2 DEF MintedOnce
<1>12. RowsDated' /\ Spent'
  BY <1>1, <1>2, <1>6, <1>10, RowsStay, SpentStays DEF Ledgered, ClaimsAge
<1>13. Corrections'  BY <1>1, <1>4, <1>5 DEF Ledgered, Corrections, Paired
<1>14. NotedApart'
  <2>1. id \notin Registrable /\ (\A q \in Live : run[q].req # id) /\ (\A r \in AllRows : r.id # id)
    BY <1>2, <1>9, MintedTyped DEF Minted, Ids
  <2>2. \A q \in Live' : ~Winner(run'[q]) => run'[q].req \notin Registrable'
    BY <1>4, <1>5, <1>10, <2>1 DEF Ledgered, NotedApart
  <2>3. \A q \in Live' : run'[q].kind \in {"LOST", "incomplete", "unreadable"} => run'[q].id = run'[q].req
    BY <1>4, <1>5 DEF Ledgered, NotedApart
  <2>4. \A q, x \in Live' : q # x => run'[q].req # run'[x].req
    <3> SUFFICES ASSUME NEW q \in Live', NEW x \in Live', q # x PROVE run'[q].req # run'[x].req
      OBVIOUS
    <3>1. CASE q \in Live /\ x \in Live  BY <1>5, <3>1 DEF Ledgered, NotedApart
    <3>2. CASE q \notin Live \/ x \notin Live  BY <1>1, <1>4, <1>5, <2>1, <3>2
    <3> QED  BY <3>1, <3>2
  <2>5. \A r \in AllRows' : Noted(r) => r.id \notin Registrable'
    BY <1>6, <1>10 DEF Ledgered, NotedApart
  <2>6. \A q \in Live', r \in AllRows' : run'[q].kind = "none" => r.id # run'[q].req
    BY <1>4, <1>5, <1>6, <2>1 DEF Ledgered, NotedApart
  <2> QED  BY <2>2, <2>3, <2>4, <2>5, <2>6 DEF NotedApart
<1> QED  BY <1>11, <1>12, <1>13, <1>14 DEF Ledgered

\* Steps that start, win, plan and register nothing.
LEMMA EndLedgered ==
  ASSUME SafeInv, Ledgered, NEW p \in Run, Return(p) \/ Fail(p) \/ ClaimVanished(p)
  PROVE  Ledgered'
<1>1. /\ p \in Live /\ TypeInv /\ run' = [run EXCEPT ![p] = None]
      /\ UNCHANGED <<clock, stamp, claims, ledger, events, recon>>
  BY DEF Return, Fail, ClaimVanished, Requeue, At, SafeInv, background
<1>2. Live' \subseteq Live /\ \A q \in Live' : run'[q] = run[q]
  BY <1>1 DEF Live, TypeInv, RunsOK
<1>3. AllRows' \subseteq AllRows  BY <1>1, <1>2 DEF AllRows
<1>4. Minted' \subseteq Minted  BY <1>1, <1>2, <1>3 DEF Minted, Ids
<1>5. Registrable' \subseteq Registrable  BY <1>1, <1>2, <1>3 DEF Registrable
<1>6. MintedOnce' /\ RowsDated' /\ Spent'
  BY <1>1, <1>3, <1>4, <1>5, MintedStays, RowsStay, SpentStays DEF Ledgered, ClaimsAge
<1>7. Corrections' /\ NotedApart'
  BY <1>1, <1>2, <1>3, <1>5 DEF Ledgered, Corrections, NotedApart
<1> QED  BY <1>6, <1>7 DEF Ledgered

LEMMA BackgroundLedgered ==
  ASSUME SafeInv, Ledgered,
         \/ \E u \in Uploads : Upload(u[1], u[2])
         \/ \E m \in inbox : Redeliver(m) \/ Expire(m)
         \/ \E b \in Content : Sweep(b)
         \/ ReconcileRead \/ ReconcileFail
         \/ UNCHANGED vars
  PROVE  Ledgered'
<1>1. TypeInv /\ recon.runs \in Nat  BY DEF SafeInv, TypeInv, RestOK
<1>2. UNCHANGED <<clock, claims, run, ledger, events>> /\ stamp' \in {stamp, stamp + 1}
  BY DEF Upload, Redeliver, Expire, Sweep, ReconcileRead, ReconcileFail, vars, background
<1>3. Live' = Live /\ AllRows' = AllRows  BY <1>2 DEF Live, AllRows
<1>4. Minted' = Minted /\ Registrable' = Registrable  BY <1>2, <1>3 DEF Minted, Ids, Registrable
<1>5. MintedOnce' /\ RowsDated' /\ Spent'
  BY <1>1, <1>2, <1>3, <1>4, MintedStays, RowsStay, SpentStays DEF Ledgered, ClaimsAge
<1>6. NotedApart'  BY <1>2, <1>3, <1>4 DEF Ledgered, NotedApart
<1>7. /\ recon'.busy => recon'.runs > 0
      /\ recon'.rows \subseteq ledger
      /\ recon'.runs = 0 => recon.runs = 0
  <2>1. CASE ReconcileRead
    <3>1. LiveDuplicates(ledger) \subseteq ledger
      BY DEF LiveDuplicates, RegisteredDeliveries, LatestDispositions
    <3> QED  BY <1>1, <2>1, <3>1 DEF ReconcileRead
  <2>2. CASE ReconcileFail  BY <2>2 DEF ReconcileFail, NotReconciling
  <2>3. CASE UNCHANGED recon  BY <2>3 DEF Ledgered, Corrections
  <2> QED  BY <2>1, <2>2, <2>3 DEF Upload, Redeliver, Expire, Sweep, vars, background
<1>8. Corrections'  BY <1>2, <1>3, <1>7 DEF Ledgered, Corrections
<1> QED  BY <1>5, <1>6, <1>8 DEF Ledgered

\* The weekly job appends rows of deliveries that are registered.
LEMMA ReconcileLedgered == ASSUME SafeInv, Ledgered, ReconcileAppend PROVE Ledgered'
<1> DEFINE rows == {Superseded(r) : r \in AllButNewest(recon.rows)}
<1>1. TypeInv /\ ledger \subseteq Row  BY DEF SafeInv, TypeInv, RestOK
<1>2. /\ UNCHANGED <<clock, claims, run, events>> /\ stamp' = stamp + 1 /\ ledger' = ledger \cup rows
      /\ recon' = NotReconciling /\ recon.busy
  BY DEF ReconcileAppend
<1>3. \A r \in AllButNewest(recon.rows) : r \in ledger
  BY DEF AllButNewest, Ledgered, Corrections
<1>4. \A t \in rows : t.disp = "superseded" /\ t.recorded = stamp + 1 /\ \E r \in ledger : t.id = r.id
  BY <1>1, <1>3 DEF Superseded, Row
<1>5. \A t \in rows : t.id \in Minted /\ \E r \in AllRows : t.id = r.id
  BY <1>4 DEF Minted, AllRows
<1> HIDE DEF rows
<1>6. Live' = Live /\ AllRows' = AllRows \cup rows  BY <1>2 DEF Live, AllRows
<1>7. Minted' \subseteq Minted  BY <1>2, <1>5, <1>6 DEF Minted, Ids
<1>8. Registrable' \subseteq Registrable  BY <1>2, <1>4, <1>6 DEF Registrable
<1>9. MintedOnce' /\ Spent'
  BY <1>1, <1>2, <1>7, <1>8, MintedStays, SpentStays DEF Ledgered, ClaimsAge
<1>10. RowsDated'  BY <1>1, <1>2, <1>4, <1>6, NewRowsDated DEF Ledgered
<1>11. Corrections'
  <2>1. recon'.runs > 0 /\ ~recon'.busy /\ recon'.rows = {} /\ recon'.runs \in Nat
    BY <1>1, <1>2 DEF NotReconciling, Ledgered, Corrections, TypeInv, RestOK
  <2> QED  BY <1>2, <1>6, <2>1 DEF Ledgered, Corrections
<1>12. NotedApart'
  <2>1. \A t \in rows : ~Noted(t)  BY <1>4 DEF Noted
  <2>2. \A q \in Live, t \in rows : run[q].kind = "none" => t.id # run[q].req
    BY <1>5 DEF Ledgered, NotedApart
  <2> QED  BY <1>2, <1>6, <1>8, <2>1, <2>2 DEF Ledgered, NotedApart
<1> QED  BY <1>9, <1>10, <1>11, <1>12 DEF Ledgered

LEMMA TimeLedgered ==
  ASSUME SafeInv, Ledgered, Tick \/ \E b \in Content : Reap(b)
  PROVE  Ledgered'
<1>1. TypeInv /\ clock \in Nat  BY DEF SafeInv, TypeInv, RestOK
<1>2. /\ UNCHANGED <<run, stamp, ledger, events, recon>> /\ clock' \in {clock, clock + 1}
      /\ clock' = clock + 1 => claims' = claims
  BY <1>1 DEF Tick, Reap, background
<1>3. \A b \in Content : claims'[b] # None => claims'[b] = claims[b]
  BY <1>1 DEF Tick, Reap, TypeInv, ClaimsOK
<1>4. Live' = Live /\ AllRows' = AllRows  BY <1>2 DEF Live, AllRows
<1>5. Minted' \subseteq Minted /\ Registrable' \subseteq Registrable
  BY <1>2, <1>3, <1>4 DEF Minted, Ids, Registrable
<1>6. MintedOnce' /\ RowsDated'
  BY <1>1, <1>2, <1>4, <1>5, MintedStays, RowsStay DEF Ledgered
<1>7. Corrections' /\ NotedApart'
  BY <1>2, <1>4, <1>5 DEF Ledgered, Corrections, NotedApart
<1>8. Spent'
  <2>1. \A x \in Registrable : x \in Identity /\ x.received \in Nat /\ x.batch \in Content
    BY <1>1, MintedTyped DEF Identity
  <2>2. \A b \in Content : claims'[b] = None /\ claims[b] # None =>
          clock' = clock /\ clock > claims[b].expires /\ claims[b].expires \in Nat
            /\ claims[b].id.received \in Nat /\ claims[b].id.received + ClaimTTL <= claims[b].expires
    <3>1. \A b \in Content : claims[b] # None =>
            /\ claims[b].expires \in Nat /\ claims[b].id.received \in Nat
            /\ claims[b].id.received + ClaimTTL <= claims[b].expires
      BY <1>1, RunTyped DEF Ledgered, Spent, Identity
    <3> QED  BY <1>1, <3>1 DEF Tick, Reap, TypeInv, ClaimsOK, background
  <2>3. \A x \in Registrable : claims'[x.batch] = None => x.received + ClaimTTL < clock'
    <3> SUFFICES ASSUME NEW x \in Registrable, claims'[x.batch] = None PROVE x.received + ClaimTTL < clock'
      OBVIOUS
    <3>1. CASE claims[x.batch] = None
      BY <1>1, <1>2, <2>1, <3>1, ConstantsAssumption DEF Ledgered, Spent
    <3>2. CASE claims[x.batch] # None
      <4>1. x = claims[x.batch].id \/ TTLGap(x, claims[x.batch].id)  BY <3>2 DEF Ledgered, Spent
      <4> QED
        BY <1>1, <2>1, <2>2, <3>2, <4>1, TimingAssumption, ConstantsAssumption DEF TTLGap
    <3> QED  BY <3>1, <3>2
  <2> QED  BY <1>3, <1>5, <2>1, <2>3 DEF Ledgered, Spent
<1> QED  BY <1>6, <1>7, <1>8 DEF Ledgered

LEMMA NextLedgered == SafeInv /\ Fenced /\ Ledgered /\ [Next]_vars => Ledgered'
<1> SUFFICES ASSUME SafeInv, Fenced, Ledgered, [Next]_vars PROVE Ledgered'
  OBVIOUS
<1>1. ASSUME NEW p \in Run, Advance(p) PROVE Ledgered'
  BY <1>1, AdvanceLedgered, WinLedgered, PlanLedgered, EndLedgered DEF Advance
<1>2. CASE RegistrationNext
  BY <1>1, <1>2, EndLedgered, BackgroundLedgered, ReconcileLedgered, TimeLedgered DEF RegistrationNext
<1> QED  BY <1>2, StartLedgered, BackgroundLedgered DEF Next

LEMMA InitLedgered == RegistrationInit => Ledgered
<1> SUFFICES ASSUME RegistrationInit PROVE Ledgered
  OBVIOUS
<1>1. Live = {} /\ AllRows = {} /\ Ids = {}  BY DEF RegistrationInit, Live, AllRows, Ids
<1>2. Minted = {} /\ Registrable = {}  BY <1>1 DEF Minted, Registrable, RegistrationInit
<1> QED
  BY <1>1, <1>2 DEF RegistrationInit, Ledgered, MintedOnce, RowsDated, Corrections, Paired, NotedApart, Spent

LEMMA LedgeredAlways == Spec => [](SafeInv /\ Fenced /\ Ledgered)
<1>1. SafeInv /\ [Next]_vars => SafeInv'  BY NextSafe
<1>2. RegistrationInit => SafeInv /\ Fenced /\ Ledgered
  BY InitTypeInv, InitSafe, InitFenced, InitLedgered DEF SafeInv
<1>3. (SafeInv /\ Fenced /\ Ledgered) /\ [Next]_vars => (SafeInv /\ Fenced /\ Ledgered)'
  BY <1>1, NextFenced, NextLedgered
<1> QED  BY <1>2, <1>3, PTL DEF Spec

-------------------------------------------------------------------------------
\* Theorems

\* One content is registered under two identities only when the first claim had
\* expired: more than a claim's life apart, but for the life of an invocation.
THEOREM ReRegisteredOnlyAfterTTL == Spec => []ReRegistrationOnlyAfterTTL
<1>1. ASSUME SafeInv, Ledgered PROVE ReRegistrationOnlyAfterTTL
  <2> SUFFICES ASSUME NEW r \in ledger, NEW q \in ledger,
                      r.disp = "registered", q.disp = "registered",
                      r.id.batch = q.id.batch, r.id.delivery < q.id.delivery
               PROVE  q.id.received - r.id.received > ClaimTTL - LambdaMax
    BY DEF ReRegistrationOnlyAfterTTL
  <2>1. r.id \in Registrable /\ q.id \in Registrable  BY DEF Registrable, AllRows
  <2>2. /\ r.id.delivery \in Nat /\ q.id.delivery \in Nat
        /\ r.id.received \in Nat /\ q.id.received \in Nat
    BY <1>1, <2>1, MintedTyped DEF SafeInv, Identity
  <2>3. r.id.received <= q.id.received
    BY <1>1, <2>1, MintedTyped DEF SafeInv, Ledgered, MintedOnce
  <2>4. r.id # q.id  BY <2>2
  <2>5. TTLGap(r.id, q.id) \/ TTLGap(q.id, r.id)  BY <1>1, <2>1, <2>4 DEF Ledgered, Spent
  <2> QED  BY <2>2, <2>3, <2>5, TimingAssumption, ConstantsAssumption DEF TTLGap
<1> QED  BY <1>1, LedgeredAlways, PTL

\* A key that was ever registered keeps a live delivery: the last of its
\* registrations.  Whatever supersedes it was recorded with a registration of the
\* same key, and no other row is about a registered delivery.
THEOREM KeysStayLive == Spec => []KeyStaysLive
<1>1. ASSUME SafeInv, Ledgered PROVE KeyStaysLive
  <2> SUFFICES ASSUME recon.runs = 0, NEW r \in ledger, r.disp = "registered"
               PROVE  \E q \in RegisteredDeliveries(ledger) : q.id.key = r.id.key
    BY DEF KeyStaysLive
  <2> DEFINE S == {q \in ledger : q.disp = "registered" /\ q.id.key = r.id.key}
  <2>1. \A q \in ledger : q \in AllRows /\ q.recorded \in Nat /\ q.recorded <= stamp /\ q.disp \in Dispositions
                          /\ q.id \in Minted /\ stamp \in Nat
    BY <1>1, MintedTyped DEF SafeInv, Ledgered, RowsDated, AllRows, Row, Minted
  <2>2. PICK n \in S : \A q \in S : q.recorded <= n.recorded
    <3>1. S # {} /\ \A q \in S : q.recorded \in Nat /\ q.recorded <= stamp  BY <2>1
    <3> HIDE DEF S
    <3> QED  BY <2>1, <3>1, LatestRow
  <2>3. n \in LatestDispositions(ledger)
    <3> SUFFICES ASSUME NEW q \in ledger, q.id.delivery = n.id.delivery, Outranks(q, n) PROVE FALSE
      BY <2>2 DEF LatestDispositions
    <3>1. q.id = n.id  BY <1>1, <2>1, <2>2 DEF Ledgered, MintedOnce
    <3>2. q.recorded >= n.recorded  BY <2>1, <2>2 DEF Outranks
    <3>3. CASE q.disp = "registered"
      <4>1. q \in S  BY <2>2, <3>1, <3>3
      <4>2. q.recorded = n.recorded  BY <2>1, <2>2, <3>2, <4>1
      <4>3. n.disp = "registered" /\ q.recorded \in Nat /\ n.recorded \in Nat  BY <2>1, <2>2
      <4> QED  BY <3>3, <4>2, <4>3 DEF Outranks, DispositionRank
    <3>4. CASE q.disp = "superseded"
      <4>1. PICK m \in ledger : /\ m.disp = "registered" /\ m.recorded = q.recorded
                                /\ m.id.key = q.id.key /\ m.id.delivery # q.id.delivery
        BY <1>1, <3>4 DEF Ledgered, Corrections, Paired
      <4>2. m \in S  BY <2>2, <3>1, <4>1
      <4>3. m.recorded = n.recorded  BY <2>1, <2>2, <3>2, <4>1, <4>2
      <4>4. m = n  BY <1>1, <2>1, <2>2, <4>1, <4>3 DEF Ledgered, RowsDated
      <4> QED  BY <3>1, <4>1, <4>4
    <3>5. CASE Noted(q)
      <4>1. n.id \in Registrable  BY <2>1, <2>2 DEF Registrable
      <4> QED  BY <1>1, <2>1, <3>1, <3>5, <4>1 DEF Ledgered, NotedApart
    <3> QED  BY <3>3, <3>4, <3>5 DEF Noted
  <2> QED  BY <2>2, <2>3 DEF RegisteredDeliveries
<1> QED  BY <1>1, LedgeredAlways, PTL

\* When the weekly job's query is not overtaken, its append leaves every key with
\* its newest live delivery alone.
THEOREM ReconciliationKeepsTheNewest == Spec => ReconcileKeepsTheNewest
<1> DEFINE live == RegisteredDeliveries(ledger)
           newest == {r \in live : \A q \in live : q.id.key = r.id.key => q.id.delivery <= r.id.delivery}
           Kept == recon.busy /\ stamp' # stamp /\ ~recon'.busy /\ recon.rows = LiveDuplicates(ledger)
                     => RegisteredDeliveries(ledger') = newest
<1>1. ASSUME SafeInv, Ledgered, Next, recon.busy, stamp' # stamp, ~recon'.busy
      PROVE  ReconcileAppend
  <2>1. recon' # recon  BY <1>1
  <2> QED
    BY <1>1, <2>1 DEF Next, RegistrationNext, Advance, ClaimWin, ClaimLose, ClaimRead, ClaimVanished,
          ClaimTake, Plan, Copy, AppendRows, Emit, Complete, Return, Fail, Expire, Reap, Tick, ReconcileRead,
          ReconcileFail, Upload, Redeliver, Start, Sweep, background
<1>2. ASSUME SafeInv, Ledgered, ReconcileAppend, recon.rows = LiveDuplicates(ledger)
      PROVE  RegisteredDeliveries(ledger') = newest
  <2> DEFINE superseded == AllButNewest(recon.rows)
  <2>1. ledger' = ledger \cup {Superseded(r) : r \in superseded}  BY <1>2 DEF ReconcileAppend
  <2>2. \A r \in ledger : /\ r \in Row /\ r.recorded \in Nat /\ r.recorded <= stamp /\ stamp \in Nat
                          /\ r.id \in Minted /\ r.id.delivery \in Nat
    BY <1>2, MintedTyped DEF SafeInv, Ledgered, RowsDated, AllRows, Row, Minted, Identity
  <2>3. \A r \in superseded : /\ r \in live /\ r \in ledger /\ Superseded(r).id = r.id
                              /\ Superseded(r).disp = "superseded" /\ Superseded(r).recorded = stamp + 1
    BY <1>2, <2>2 DEF AllButNewest, LiveDuplicates, RegisteredDeliveries, LatestDispositions, Superseded, Row
  <2>4. \A r \in live : r \in ledger /\ r.disp = "registered"
    BY DEF RegisteredDeliveries, LatestDispositions
  <2>5. \A r \in live : r \in superseded <=> r \notin newest
    <3> SUFFICES ASSUME NEW r \in live PROVE r \in superseded <=> r \notin newest
      OBVIOUS
    <3>1. ASSUME r \in superseded PROVE r \notin newest
      BY <1>2, <2>2, <2>4, <3>1 DEF AllButNewest, LiveDuplicates
    <3>2. ASSUME r \notin newest PROVE r \in superseded
      <4>1. PICK q \in live : q.id.key = r.id.key /\ ~(q.id.delivery <= r.id.delivery)  BY <3>2
      <4>2. q.id.delivery > r.id.delivery /\ q # r  BY <2>2, <2>4, <4>1
      <4> QED  BY <1>2, <4>1, <4>2 DEF AllButNewest, LiveDuplicates
    <3> QED  BY <3>1, <3>2
  <2>6. \A r \in live, q \in superseded : r.id.delivery = q.id.delivery => (r \in newest <=> q \in newest)
    <3> SUFFICES ASSUME NEW r \in live, NEW q \in superseded, r.id.delivery = q.id.delivery
                 PROVE  r \in newest <=> q \in newest
      OBVIOUS
    <3>1. r.id = q.id  BY <1>2, <2>2, <2>3, <2>4 DEF Ledgered, MintedOnce
    <3> QED  BY <2>3, <3>1
  <2> HIDE DEF superseded
  <2>7. ASSUME NEW r \in RegisteredDeliveries(ledger') PROVE r \in newest
    <3>1. r \in ledger' /\ r.disp = "registered" /\ \A q \in ledger' : q.id.delivery = r.id.delivery => ~Outranks(q, r)
      BY DEF RegisteredDeliveries, LatestDispositions
    <3>2. r \in ledger  BY <2>1, <2>3, <3>1
    <3>3. r \in live  BY <2>1, <3>1, <3>2 DEF RegisteredDeliveries, LatestDispositions
    <3>4. r \notin superseded
      <4>1. r \in superseded => Superseded(r) \in ledger' /\ Outranks(Superseded(r), r)
        BY <2>1, <2>2, <2>3, <3>2 DEF Outranks
      <4> QED  BY <2>3, <3>1, <4>1
    <3> QED  BY <2>5, <3>3, <3>4
  <2>8. ASSUME NEW r \in newest PROVE r \in RegisteredDeliveries(ledger')
    <3>1. r \in live /\ r \in ledger /\ r.disp = "registered"  BY <2>4
    <3>2. \A q \in ledger : q.id.delivery = r.id.delivery => ~Outranks(q, r)
      BY <3>1 DEF RegisteredDeliveries, LatestDispositions
    <3>3. \A q \in superseded : q.id.delivery # r.id.delivery
      BY <2>3, <2>5, <2>6, <2>8, <3>1
    <3>4. \A q \in ledger' : q.id.delivery = r.id.delivery => ~Outranks(q, r)
      BY <2>1, <2>3, <3>2, <3>3
    <3> QED  BY <2>1, <3>1, <3>4 DEF RegisteredDeliveries, LatestDispositions
  <2> HIDE DEF newest
  <2> QED  BY <2>7, <2>8
<1>3. (SafeInv /\ Fenced /\ Ledgered) /\ [Next]_vars => [Kept]_vars  BY <1>1, <1>2
<1>4. Spec => [][Kept]_vars
  <2>1. Spec => [][Next]_vars  BY PTL DEF Spec
  <2> QED  BY <1>3, <2>1, LedgeredAlways, PTL
<1> QED  BY <1>4, PTL DEF ReconcileKeepsTheNewest

================================================================================
