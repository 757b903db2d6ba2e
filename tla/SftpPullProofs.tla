---------------------------- MODULE SftpPullProofs ----------------------------
(***************************************************************************)
(* What is proved of SftpPull for every value of its constants.            *)
(*                                                                         *)
(* The argument: nothing is ever taken out of the canonical zone, so what  *)
(* a run streamed before it reached its claim is still there when the      *)
(* claim is made, when another run takes the claim over or resumes it, and *)
(* when the event is told.                                                 *)
(*                                                                         *)
(* What the ledger remembers needs a second invariant, PullHistory.  Its   *)
(* first half follows the deliveries: one is minted once, a pull keeps its *)
(* own to itself until it wins its claim, hence a delivery that lost was   *)
(* nowhere else, unless the sweep resumed its batch.  Its second half      *)
(* follows the files: one that a run owes is still to be taken, is in      *)
(* hand (what the run holds will tell of it), or the ledger tells of it.   *)
(***************************************************************************)
EXTENDS SftpPull, LedgerFoldsProofs

-------------------------------------------------------------------------------
\* The inductive invariant

PullState ==
  [rows : SUBSET Row, listing : SUBSET (Slot \X Nat), parts : SUBSET Object,
   todo : SUBSET Slot, bytes : Nat, streamed : Nat, file : Slot \cup {None},
   delivery : Nat, received : Nat, errors : SUBSET {"transient", "unexpected"}]

Winner(s) == s.kind \in {"WON", "TAKEN_OVER"}

\* The bytes of an identity lie in the canonical zone.
StagedIn(id, objects) == <<id.delivery, id.batch>> \in objects

\* The slots that hold a file.
Filled == {x \in Slot : slot[x] # None}

\* What holds of a live run in state s that holds h besides, given the filled
\* slots and the canonical objects.
LiveOK(s, h, filled, objects) ==
  /\ s \in PullRun /\ h \in PullState
  /\ s.kind = "none" => s.pc \notin {"plan", "copy", "append", "emit", "complete", "done"}
  /\ s.pc \in {"list", "pick", "stream"} => s.msg.batch = None
  /\ s.pc \notin {"list", "pick", "stream"} => s.req \in Identity /\ s.id \in Identity
  /\ s.msg.batch # None => h = NotPulling
  /\ h.todo \subseteq filled
  /\ s.pc = "stream" => h.file \in filled
  /\ s.pc \in {"claim", "read", "take"} => StagedIn(s.req, objects)
  /\ s.pc = "take" => StagedIn(s.id, objects)
  /\ s.pc \in {"copy", "emit", "complete"} => Winner(s)
  /\ Winner(s) /\ s.pc \in {"plan", "copy", "append", "emit", "complete"}
       => StagedIn(s.id, objects)

RunOK(s, h, filled, objects) ==
  IF s = None THEN h = NotPulling ELSE LiveOK(s, h, filled, objects)

RunsOK ==
  /\ run = [p \in Run |-> run[p]] /\ pull = [p \in Run |-> pull[p]]
  /\ \A p \in Run : RunOK(run[p], pull[p], Filled, canonical)

ClaimOK(c, b, objects) == c \in Claim /\ c.id.batch = b /\ StagedIn(c.id, objects)

ClaimsOK ==
  /\ claims = [b \in Content |-> claims[b]]
  /\ \A b \in Content : claims[b] # None => ClaimOK(claims[b], b, canonical)

\* The partner's side.
RemoteOK ==
  /\ feed \in Feeds /\ mtime \in [Slot -> Nat] /\ parts \subseteq Object \X Nat
  /\ slot \in [Slot -> Content \cup {None}]
  /\ \A x \in Slot : slot[x] # None => <<x, slot[x]>> \in feed.uploads

StoresOK ==
  /\ clock \in Nat /\ stamp \in Nat
  /\ inbox \subseteq PullMessage
  /\ ledger \subseteq Row /\ canonical \subseteq Nat \X Content
  /\ events \subseteq Identity
  /\ \A e \in events : StagedIn(e, canonical)

\* A sweep about to mark a date has announced it.
AbsenceOK ==
  /\ sweeper \in [pc : {"idle", "announce", "mark"}, runs : Nat, days : SUBSET Nat]
  /\ overdue \subseteq Nat /\ marked \subseteq overdue
  /\ sweeper.pc = "mark" => NextDate \in overdue

PullInv == RunsOK /\ ClaimsOK /\ RemoteOK /\ StoresOK /\ AbsenceOK

LEMMA NotPullingTyped == NotPulling \in PullState
  BY DEF NotPulling, PullState

LEMMA PullInvTypeOK == PullInv => PullTypeOK
<1> SUFFICES ASSUME PullInv PROVE PullTypeOK  OBVIOUS
<1>1. RunsOK /\ ClaimsOK /\ RemoteOK /\ StoresOK /\ AbsenceOK  BY DEF PullInv
<1>2. ASSUME NEW p \in Run
      PROVE  /\ p \in Live => run[p] \in PullRun
             /\ pull[p].todo \subseteq Slot /\ pull[p].parts \subseteq Object
             /\ pull[p].bytes \in Nat /\ pull[p].streamed \in Nat
             /\ pull[p].errors \subseteq {"transient", "unexpected"}
             /\ p \in Live /\ run[p].pc \notin {"list", "pick", "stream"}
                  => run[p].req \in Identity /\ run[p].id \in Identity
             /\ p \notin Live => pull[p] = NotPulling
  <2>1. CASE run[p] = None
    <3>1. pull[p] = NotPulling /\ p \notin Live  BY <1>1, <2>1 DEF RunsOK, RunOK, Live
    <3> QED  BY <3>1 DEF NotPulling
  <2>2. CASE run[p] # None
    <3>1. LiveOK(run[p], pull[p], Filled, canonical) /\ p \in Live
      BY <1>1, <2>2 DEF RunsOK, RunOK, Live
    <3> QED  BY <3>1 DEF LiveOK, PullState
  <2> QED  BY <2>1, <2>2
<1>3. \A b \in Content : claims[b] # None => claims[b] \in Claim /\ claims[b].id.batch = b
  BY <1>1 DEF ClaimsOK, ClaimOK
<1>4. /\ feed \in Feeds /\ mtime \in [Slot -> Nat] /\ parts \subseteq Object \X Nat
      /\ \A s \in Slot : slot[s] # None => <<s, slot[s]>> \in feed.uploads
      /\ ledger \subseteq Row /\ events \subseteq Identity /\ canonical \subseteq Nat \X Content
      /\ overdue \subseteq Nat /\ marked \subseteq Nat
  BY <1>1 DEF RemoteOK, StoresOK, AbsenceOK
<1> QED  BY <1>2, <1>3, <1>4 DEF PullTypeOK

LEMMA PullInvSafe == PullInv => StagedBeforeClaim /\ MarkedIsAnnounced
<1> SUFFICES ASSUME PullInv PROVE StagedBeforeClaim /\ MarkedIsAnnounced  OBVIOUS
<1>1. \A b \in Content : claims[b] # None => <<claims[b].id.delivery, b>> \in canonical
  BY DEF PullInv, ClaimsOK, ClaimOK, StagedIn
<1>2. \A e \in events : <<e.delivery, e.batch>> \in canonical
  BY DEF PullInv, StoresOK, StagedIn
<1>3. MarkedIsAnnounced  BY DEF PullInv, AbsenceOK, MarkedIsAnnounced
<1> QED  BY <1>1, <1>2, <1>3 DEF StagedBeforeClaim

LEMMA InitPullInv == PullInit => PullInv
<1> SUFFICES ASSUME PullInit PROVE PullInv  OBVIOUS
<1>1. RunsOK  BY DEF PullInit, RegistrationInit, RunsOK, RunOK
<1>2. ClaimsOK  BY DEF PullInit, RegistrationInit, ClaimsOK
<1>3. RemoteOK  BY DEF PullInit, RegistrationInit, RemoteOK
<1>4. StoresOK  BY DEF PullInit, RegistrationInit, StoresOK
<1>5. AbsenceOK  BY DEF PullInit, AbsenceOK
<1> QED  BY <1>1, <1>2, <1>3, <1>4, <1>5 DEF PullInv

-------------------------------------------------------------------------------
\* What a step may do to the parts of the invariant

LEMMA LiveIsRun ==
  ASSUME NEW s, NEW h, NEW filled, NEW objects, LiveOK(s, h, filled, objects)
  PROVE  RunOK(s, h, filled, objects)
  BY NoneAssumption DEF LiveOK, RunOK

LEMMA LiveRun ==
  ASSUME PullInv, NEW p \in Live
  PROVE  p \in Run /\ LiveOK(run[p], pull[p], Filled, canonical)
  BY DEF Live, PullInv, RunsOK, RunOK

\* More files and more objects take nothing from a run.
LEMMA RunGrows ==
  ASSUME NEW s, NEW h, NEW filled, NEW objects, NEW filled1, NEW objects1,
         filled \subseteq filled1, objects \subseteq objects1, RunOK(s, h, filled, objects)
  PROVE  RunOK(s, h, filled1, objects1)
<1>1. CASE s = None  BY <1>1 DEF RunOK
<1>2. CASE s # None
  <2>1. LiveOK(s, h, filled, objects)  BY <1>2 DEF RunOK
  <2>2. \A id : StagedIn(id, objects) => StagedIn(id, objects1)  BY DEF StagedIn
  <2>3. LiveOK(s, h, filled1, objects1)  BY <2>1, <2>2 DEF LiveOK
  <2> QED  BY <2>3, LiveIsRun
<1> QED  BY <1>1, <1>2

LEMMA RunMoves ==
  ASSUME RunsOK, NEW p \in Run, NEW s, NEW h, RunOK(s, h, Filled', canonical'),
         run' = [run EXCEPT ![p] = s], pull' = [pull EXCEPT ![p] = h],
         Filled \subseteq Filled', canonical \subseteq canonical'
  PROVE  RunsOK'
<1>1. /\ run' = [q \in Run |-> run'[q]] /\ pull' = [q \in Run |-> pull'[q]]
      /\ run'[p] = s /\ pull'[p] = h
      /\ \A q \in Run \ {p} : run'[q] = run[q] /\ pull'[q] = pull[q]
  BY DEF RunsOK
<1>2. \A q \in Run \ {p} : RunOK(run'[q], pull'[q], Filled', canonical')
  BY <1>1, RunGrows DEF RunsOK
<1> QED  BY <1>1, <1>2 DEF RunsOK

LEMMA RunsStay ==
  ASSUME RunsOK, UNCHANGED <<run, pull>>, Filled \subseteq Filled', canonical \subseteq canonical'
  PROVE  RunsOK'
  BY RunGrows DEF RunsOK

LEMMA ClaimsStay ==
  ASSUME ClaimsOK, claims' = claims, canonical \subseteq canonical'
  PROVE  ClaimsOK'
  BY DEF ClaimsOK, ClaimOK, StagedIn

LEMMA ClaimMoves ==
  ASSUME ClaimsOK, NEW b \in Content, NEW c, ClaimOK(c, b, canonical),
         claims' = [claims EXCEPT ![b] = c], canonical' = canonical
  PROVE  ClaimsOK'
  BY DEF ClaimsOK

LEMMA RemoteStays ==
  ASSUME RemoteOK, UNCHANGED <<slot, remote>> PROVE RemoteOK' /\ Filled' = Filled
  BY DEF RemoteOK, remote, Filled

LEMMA AbsenceStays == ASSUME AbsenceOK, UNCHANGED absence PROVE AbsenceOK'
  BY DEF AbsenceOK, absence, NextDate

\* The run p goes to the state s, holding h.
LEMMA RunStep ==
  ASSUME PullInv, NEW p \in Run, NEW s, NEW h, LiveOK(s, h, Filled, canonical),
         run' = [run EXCEPT ![p] = s], pull' = [pull EXCEPT ![p] = h],
         UNCHANGED <<slot, canonical, remote, absence>>, ClaimsOK', StoresOK'
  PROVE  PullInv'
<1>1. RunsOK /\ RemoteOK /\ AbsenceOK  BY DEF PullInv
<1>2. RemoteOK' /\ Filled' = Filled /\ AbsenceOK'  BY <1>1, RemoteStays, AbsenceStays
<1>3. RunOK(s, h, Filled', canonical')  BY <1>2, LiveIsRun
<1>4. RunsOK'  BY <1>1, <1>2, <1>3, RunMoves
<1> QED  BY <1>2, <1>4 DEF PullInv

\* A step of a registration leaves what the driver holds.
LEMMA RegisterStep ==
  ASSUME PullInv, NEW p \in Live, NEW s, LiveOK(s, pull[p], Filled, canonical),
         run' = [run EXCEPT ![p] = s],
         UNCHANGED <<slot, canonical, pullVars>>, ClaimsOK', StoresOK'
  PROVE  PullInv'
<1>1. p \in Run /\ pull = [q \in Run |-> pull[q]]  BY DEF Live, PullInv, RunsOK
<1>2. pull' = [pull EXCEPT ![p] = pull[p]]  BY <1>1 DEF pullVars
<1> QED  BY <1>1, <1>2, RunStep DEF pullVars

\* The run p ends.
LEMMA EndStep ==
  ASSUME PullInv, NEW p \in Run, run' = [run EXCEPT ![p] = None],
         pull' = [pull EXCEPT ![p] = NotPulling],
         UNCHANGED <<slot, claims, canonical, remote, absence>>, StoresOK'
  PROVE  PullInv'
<1>1. RunsOK /\ ClaimsOK /\ RemoteOK /\ AbsenceOK  BY DEF PullInv
<1>2. RemoteOK' /\ Filled' = Filled /\ AbsenceOK' /\ ClaimsOK'
  BY <1>1, RemoteStays, AbsenceStays, ClaimsStay
<1>3. RunOK(None, NotPulling, Filled', canonical')  BY DEF RunOK
<1>4. RunsOK'  BY <1>1, <1>2, <1>3, RunMoves
<1> QED  BY <1>2, <1>4 DEF PullInv

-------------------------------------------------------------------------------
\* The claim

LEMMA ClaimWinStep ==
  ASSUME PullInv, NEW p \in Run, ClaimWin(p), UNCHANGED pullVars PROVE PullInv'
<1> DEFINE b == run[p].req.batch
           s == [run[p] EXCEPT !.pc = "plan", !.kind = "WON", !.id = run[p].req]
           c == [id |-> run[p].req, owner |-> run[p].msg.rid, status |-> "in_progress",
                 claimedAt |-> clock, expires |-> clock + ClaimTTL]
<1>1. p \in Live /\ run[p].pc = "claim"  BY DEF ClaimWin, At
<1>2. LiveOK(run[p], pull[p], Filled, canonical)  BY <1>1, LiveRun
<1>3. /\ run[p].req \in Identity /\ run[p].msg \in PullMessage
      /\ StagedIn(run[p].req, canonical) /\ b \in Content
  BY <1>1, <1>2 DEF LiveOK, PullRun, Identity
<1>4. LiveOK(s, pull[p], Filled, canonical)
  <2>1. /\ s \in PullRun /\ s.pc = "plan" /\ s.kind = "WON" /\ s.id = run[p].req
        /\ s.msg = run[p].msg /\ s.req = run[p].req
    BY <1>2, <1>3 DEF LiveOK, PullRun, Steps
  <2> HIDE DEF s
  <2> QED  BY <1>2, <1>3, <2>1 DEF LiveOK
<1>5. clock \in Nat /\ clock + ClaimTTL \in Nat /\ run[p].msg.rid \in Nat
  BY <1>3, ConstantsAssumption DEF PullInv, StoresOK, PullMessage
<1>6. ClaimOK(c, b, canonical)  BY <1>3, <1>5 DEF ClaimOK, Claim
<1>7. /\ run' = [run EXCEPT ![p] = s] /\ claims' = [claims EXCEPT ![b] = c]
      /\ UNCHANGED <<clock, stamp, slot, inbox, ledger, canonical, events, background>>
  BY DEF ClaimWin
<1> HIDE DEF s, c
<1>8. ClaimsOK'  BY <1>3, <1>6, <1>7, ClaimMoves DEF PullInv
<1>9. StoresOK'  BY <1>7 DEF PullInv, StoresOK
<1> QED  BY <1>1, <1>4, <1>7, <1>8, <1>9, RegisterStep

\* A loser records a duplicate of its own delivery.
LEMMA LostState ==
  ASSUME PullInv, NEW p \in Live, run[p].pc \in {"read", "take"}
  PROVE  LiveOK([run[p] EXCEPT !.pc = "plan", !.kind = "LOST", !.id = run[p].req],
                pull[p], Filled, canonical)
<1> DEFINE s == [run[p] EXCEPT !.pc = "plan", !.kind = "LOST", !.id = run[p].req]
<1>1. LiveOK(run[p], pull[p], Filled, canonical)  BY LiveRun
<1>2. /\ s \in PullRun /\ s.pc = "plan" /\ s.kind = "LOST" /\ s.id = run[p].req
      /\ s.msg = run[p].msg /\ s.req = run[p].req
  BY <1>1 DEF LiveOK, PullRun, Steps
<1> HIDE DEF s
<1>3. LiveOK(s, pull[p], Filled, canonical)  BY <1>1, <1>2 DEF LiveOK, Winner
<1> QED  BY <1>3 DEF s

LEMMA ClaimLoseStep ==
  ASSUME PullInv, NEW p \in Run, ClaimLose(p), UNCHANGED pullVars PROVE PullInv'
<1> DEFINE s == [run[p] EXCEPT !.pc = "read", !.at = clock]
<1>1. p \in Live /\ run[p].pc = "claim"  BY DEF ClaimLose, At
<1>2. LiveOK(run[p], pull[p], Filled, canonical)  BY <1>1, LiveRun
<1>3. clock \in Nat  BY DEF PullInv, StoresOK
<1>4. /\ s \in PullRun /\ s.pc = "read" /\ s.kind = run[p].kind /\ s.id = run[p].id
      /\ s.msg = run[p].msg /\ s.req = run[p].req
  BY <1>2, <1>3 DEF LiveOK, PullRun, Steps
<1>5. /\ run' = [run EXCEPT ![p] = s]
      /\ UNCHANGED <<clock, stamp, slot, inbox, claims, ledger, canonical, events, background>>
  BY DEF ClaimLose
<1> HIDE DEF s
<1>6. LiveOK(s, pull[p], Filled, canonical)  BY <1>1, <1>2, <1>4 DEF LiveOK
<1>7. ClaimsOK' /\ StoresOK'  BY <1>5, ClaimsStay DEF PullInv, StoresOK
<1> QED  BY <1>1, <1>5, <1>6, <1>7, RegisterStep

LEMMA ClaimReadStep ==
  ASSUME PullInv, NEW p \in Run, ClaimRead(p), UNCHANGED pullVars PROVE PullInv'
<1> DEFINE c == claims[run[p].req.batch]
           lost == [run[p] EXCEPT !.pc = "plan", !.kind = "LOST", !.id = run[p].req]
           take == [run[p] EXCEPT !.pc = "take", !.id = c.id, !.owner = c.owner]
<1>1. p \in Live /\ run[p].pc = "read" /\ c # None  BY DEF ClaimRead, At
<1>2. LiveOK(run[p], pull[p], Filled, canonical)  BY <1>1, LiveRun
<1>3. run[p].req.batch \in Content /\ run[p].req \in Identity
  BY <1>1, <1>2 DEF LiveOK, Identity
<1>4. ClaimOK(c, run[p].req.batch, canonical)  BY <1>1, <1>3 DEF PullInv, ClaimsOK
<1>5. LiveOK(lost, pull[p], Filled, canonical)  BY <1>1, LostState
<1>6. LiveOK(take, pull[p], Filled, canonical)
  <2>1. c.id \in Identity /\ c.owner \in Nat /\ StagedIn(c.id, canonical)
    BY <1>4 DEF ClaimOK, Claim
  <2>2. /\ take \in PullRun /\ take.pc = "take" /\ take.kind = run[p].kind /\ take.id = c.id
        /\ take.msg = run[p].msg /\ take.req = run[p].req
    BY <1>2, <2>1 DEF LiveOK, PullRun, Steps
  <2> HIDE DEF take, c
  <2> QED  BY <1>1, <1>2, <1>3, <2>1, <2>2 DEF LiveOK
<1>7. /\ run' = [run EXCEPT ![p] = lost] \/ run' = [run EXCEPT ![p] = take]
      /\ UNCHANGED <<clock, stamp, slot, inbox, claims, ledger, canonical, events, background>>
  BY DEF ClaimRead, Lost
<1> HIDE DEF lost, take
<1>8. ClaimsOK' /\ StoresOK'  BY <1>7, ClaimsStay DEF PullInv, StoresOK
<1> QED  BY <1>1, <1>5, <1>6, <1>7, <1>8, RegisterStep

LEMMA ClaimTakeStep ==
  ASSUME PullInv, NEW p \in Run, ClaimTake(p), UNCHANGED pullVars PROVE PullInv'
<1> DEFINE b == run[p].req.batch
           lost == [run[p] EXCEPT !.pc = "plan", !.kind = "LOST", !.id = run[p].req]
           taken == [run[p] EXCEPT !.pc = "plan", !.kind = "TAKEN_OVER"]
           c == [claims[b] EXCEPT !.owner = run[p].msg.rid, !.claimedAt = run[p].at]
<1>1. p \in Live /\ run[p].pc = "take"  BY DEF ClaimTake, At
<1>2. LiveOK(run[p], pull[p], Filled, canonical)  BY <1>1, LiveRun
<1>3. /\ b \in Content /\ run[p].id \in Identity /\ StagedIn(run[p].id, canonical)
      /\ run[p].msg.rid \in Nat /\ run[p].at \in Nat
  BY <1>1, <1>2 DEF LiveOK, Identity, PullRun, PullMessage
<1>4. /\ UNCHANGED <<clock, stamp, slot, inbox, ledger, canonical, events, background>>
      /\ StoresOK'
  BY DEF ClaimTake, PullInv, StoresOK
<1>5. CASE ~OwnerUnchanged(p)
  <2>1. run' = [run EXCEPT ![p] = lost] /\ claims' = claims  BY <1>5 DEF ClaimTake, Lost
  <2>2. LiveOK(lost, pull[p], Filled, canonical)  BY <1>1, LostState
  <2> HIDE DEF lost
  <2>3. ClaimsOK'  BY <1>4, <2>1, ClaimsStay DEF PullInv
  <2> QED  BY <1>1, <1>4, <2>1, <2>2, <2>3, RegisterStep
<1>6. CASE OwnerUnchanged(p)
  <2>1. run' = [run EXCEPT ![p] = taken] /\ claims' = [claims EXCEPT ![b] = c]
    BY <1>6 DEF ClaimTake
  <2>2. /\ taken \in PullRun /\ taken.pc = "plan" /\ taken.kind = "TAKEN_OVER"
        /\ taken.id = run[p].id /\ taken.msg = run[p].msg /\ taken.req = run[p].req
    BY <1>2 DEF LiveOK, PullRun, Steps
  <2>3. ClaimOK(claims[b], b, canonical)  BY <1>3, <1>6 DEF PullInv, ClaimsOK, OwnerUnchanged
  <2>4. c \in Claim /\ c.id = claims[b].id  BY <1>3, <2>3 DEF ClaimOK, Claim
  <2> HIDE DEF taken, c
  <2>5. LiveOK(taken, pull[p], Filled, canonical)  BY <1>1, <1>2, <1>3, <2>2 DEF LiveOK
  <2>6. ClaimsOK'  BY <1>3, <1>4, <2>1, <2>3, <2>4, ClaimMoves DEF PullInv, ClaimOK
  <2> QED  BY <1>1, <1>4, <2>1, <2>5, <2>6, RegisterStep
<1> QED  BY <1>5, <1>6

-------------------------------------------------------------------------------
\* The plan and its execution

LEMMA PlannedRowsTyped ==
  ASSUME PullInv, NEW p \in Live, run[p].pc = "plan"
  PROVE  PlannedRows(p) \subseteq Row
<1>1. /\ run[p].id \in Identity
      /\ run[p].kind \in {"WON", "TAKEN_OVER", "LOST", "incomplete", "unreadable"}
  BY LiveRun DEF LiveOK, PullRun
<1>2. stamp \in Nat /\ ledger \subseteq Row  BY DEF PullInv, StoresOK
<1>3. \A r \in Corrected(run[p].id) : r \in Row /\ r.id.delivery \in Nat
  BY <1>2 DEF Corrected, LivePrior, RegisteredDeliveries, LatestDispositions, Row, Identity
<1>4. ASSUME NEW d \in Dispositions, NEW S \in SUBSET Nat PROVE NewRow(run[p].id, d, S) \in Row
  BY <1>1, <1>2 DEF NewRow, Row
<1>5. ASSUME NEW r \in Row PROVE Superseded(r) \in Row
  <2>1. "superseded" \in Dispositions /\ stamp + 1 \in Nat  BY <1>2 DEF Dispositions
  <2> QED  BY <2>1 DEF Superseded, Row
<1>6. RegistrationRows(run[p].id) \subseteq Row
  <2>1. {r.id.delivery : r \in Corrected(run[p].id)} \in SUBSET Nat  BY <1>3
  <2> QED  BY <1>3, <1>4, <1>5, <2>1 DEF RegistrationRows, Dispositions
<1>7. CASE run[p].kind \in {"WON", "TAKEN_OVER"}  BY <1>6, <1>7 DEF PlannedRows
<1>8. CASE run[p].kind = "LOST"
  <2>1. NewRow(run[p].id, "duplicate", {}) \in Row  BY <1>4 DEF Dispositions
  <2> QED  BY <1>8, <2>1 DEF PlannedRows
<1>9. CASE run[p].kind \in {"incomplete", "unreadable"}
  <2>1. NewRow(run[p].id, run[p].kind, {}) \in Row  BY <1>4, <1>9 DEF Dispositions
  <2> QED  BY <1>9, <2>1 DEF PlannedRows
<1> QED  BY <1>1, <1>7, <1>8, <1>9

LEMMA PlanStep ==
  ASSUME PullInv, NEW p \in Run, Plan(p), UNCHANGED pullVars PROVE PullInv'
<1> DEFINE s == [run[p] EXCEPT !.rows = PlannedRows(p), !.pc = AfterPlan(p)]
<1>1. p \in Live /\ run[p].pc = "plan"  BY DEF Plan, At
<1>2. LiveOK(run[p], pull[p], Filled, canonical)  BY <1>1, LiveRun
<1>3. PlannedRows(p) \subseteq Row  BY <1>1, PlannedRowsTyped
<1>4. /\ AfterPlan(p) \in {"copy", "append", "done"}
      /\ AfterPlan(p) = "copy" => Winner(run[p])
  BY DEF AfterPlan, Winner
<1>5. /\ s \in PullRun /\ s.pc = AfterPlan(p) /\ s.kind = run[p].kind /\ s.id = run[p].id
      /\ s.msg = run[p].msg /\ s.req = run[p].req
  BY <1>2, <1>3, <1>4 DEF LiveOK, PullRun, Steps
<1>6. /\ run' = [run EXCEPT ![p] = s] /\ stamp' = stamp + 1
      /\ UNCHANGED <<clock, slot, inbox, claims, ledger, canonical, events, background>>
  BY DEF Plan
<1> HIDE DEF s
<1>7. LiveOK(s, pull[p], Filled, canonical)  BY <1>1, <1>2, <1>4, <1>5 DEF LiveOK, Winner
<1>8. ClaimsOK' /\ StoresOK'  BY <1>6, ClaimsStay DEF PullInv, StoresOK
<1> QED  BY <1>1, <1>6, <1>7, <1>8, RegisterStep

\* A run that was carrying out a plan moves on.
LEMMA GotoState ==
  ASSUME PullInv, NEW p \in Live, run[p].pc \in {"copy", "append", "emit", "complete"},
         NEW next \in {"append", "emit", "complete", "done"},
         next \in {"emit", "complete"} => Winner(run[p])
  PROVE  LiveOK([run[p] EXCEPT !.pc = next], pull[p], Filled, canonical)
<1> DEFINE s == [run[p] EXCEPT !.pc = next]
<1>1. LiveOK(run[p], pull[p], Filled, canonical)  BY LiveRun
<1>2. /\ s \in PullRun /\ s.pc = next /\ s.kind = run[p].kind /\ s.id = run[p].id
      /\ s.msg = run[p].msg /\ s.req = run[p].req
  BY <1>1 DEF LiveOK, PullRun, Steps
<1> HIDE DEF s
<1>3. LiveOK(s, pull[p], Filled, canonical)  BY <1>1, <1>2 DEF LiveOK, Winner
<1> QED  BY <1>3 DEF s

LEMMA ExecuteStep ==
  ASSUME PullInv, NEW p \in Run,
         NothingToCopy(p) \/ AppendRows(p) \/ Emit(p) \/ Complete(p), UNCHANGED pullVars
  PROVE  PullInv'
<1> DEFINE b == run[p].id.batch
           c == [claims[b] EXCEPT !.status = "completed", !.expires = clock + ClaimTTL]
<1>1. p \in Live /\ run[p].pc \in {"copy", "append", "emit", "complete"}
  BY DEF NothingToCopy, AppendRows, Emit, Complete, Goto, At
<1>2. LiveOK(run[p], pull[p], Filled, canonical)  BY <1>1, LiveRun
<1>3. /\ run[p].id \in Identity /\ b \in Content /\ run[p].rows \subseteq Row
      /\ run[p].pc # "append" => Winner(run[p]) /\ StagedIn(run[p].id, canonical)
  BY <1>1, <1>2 DEF LiveOK, PullRun, Identity
<1>4. \E next \in {"append", "emit", "complete", "done"} :
        /\ next \in {"emit", "complete"} => Winner(run[p])
        /\ run' = [run EXCEPT ![p] = [run[p] EXCEPT !.pc = next]]
  <2>1. CASE NothingToCopy(p)  BY <2>1 DEF NothingToCopy, Goto
  <2>2. CASE AppendRows(p)
    <3>1. CASE Winner(run[p])  BY <2>2, <3>1 DEF AppendRows, Goto, Winner
    <3>2. CASE ~Winner(run[p])  BY <2>2, <3>2 DEF AppendRows, Goto, Winner
    <3> QED  BY <3>1, <3>2
  <2>3. CASE Emit(p)
    <3>1. Winner(run[p])  BY <1>3, <2>3 DEF Emit, Goto, At
    <3> QED  BY <2>3, <3>1 DEF Emit, Goto
  <2>4. CASE Complete(p)  BY <2>4 DEF Complete, Goto
  <2> QED  BY <2>1, <2>2, <2>3, <2>4
<1>5. ClaimsOK'
  <2>1. canonical' = canonical  BY DEF NothingToCopy, AppendRows, Emit, Complete
  <2>2. CASE claims' = claims  BY <2>1, <2>2, ClaimsStay DEF PullInv
  <2>3. CASE Complete(p) /\ Completable(claims[b], run[p].msg.rid)
    <3>1. ClaimOK(claims[b], b, canonical)  BY <1>3, <2>3 DEF PullInv, ClaimsOK, Completable
    <3>2. clock + ClaimTTL \in Nat  BY ConstantsAssumption DEF PullInv, StoresOK
    <3>3. c \in Claim /\ c.id = claims[b].id  BY <3>1, <3>2 DEF ClaimOK, Claim
    <3>4. claims' = [claims EXCEPT ![b] = c]  BY <2>3 DEF Complete
    <3> HIDE DEF c
    <3> QED  BY <1>3, <2>1, <3>1, <3>3, <3>4, ClaimMoves DEF PullInv, ClaimOK
  <2> QED  BY <2>2, <2>3 DEF NothingToCopy, AppendRows, Emit, Complete
<1>6. StoresOK'
  <2>1. StoresOK  BY DEF PullInv
  <2>2. CASE NothingToCopy(p)  BY <2>1, <2>2 DEF NothingToCopy, StoresOK
  <2>3. CASE AppendRows(p)  BY <1>3, <2>1, <2>3 DEF AppendRows, StoresOK
  <2>4. CASE Emit(p)
    <3>1. StagedIn(run[p].id, canonical)  BY <1>3, <2>4 DEF Emit, Goto, At
    <3> QED  BY <1>3, <2>1, <2>4, <3>1 DEF Emit, StoresOK
  <2>5. CASE Complete(p)  BY <2>1, <2>5 DEF Complete, StoresOK
  <2> QED  BY <2>2, <2>3, <2>4, <2>5
<1>7. UNCHANGED <<slot, canonical>>  BY DEF NothingToCopy, AppendRows, Emit, Complete
<1>8. PICK next \in {"append", "emit", "complete", "done"} :
        /\ next \in {"emit", "complete"} => Winner(run[p])
        /\ run' = [run EXCEPT ![p] = [run[p] EXCEPT !.pc = next]]
  BY <1>4
<1>9. LiveOK([run[p] EXCEPT !.pc = next], pull[p], Filled, canonical)
  BY <1>1, <1>8, GotoState
<1> QED  BY <1>1, <1>5, <1>6, <1>7, <1>8, <1>9, RegisterStep

-------------------------------------------------------------------------------
\* The ends of an invocation

\* A failed invocation goes back to the inbox under its own message.
LEMMA RequeueStores ==
  ASSUME PullInv, NEW p \in Live, Requeue(p),
         UNCHANGED <<clock, stamp, ledger, canonical, events>>
  PROVE  StoresOK'
<1> DEFINE m == run[p].msg
<1>1. StoresOK  BY DEF PullInv
<1>2. m \in PullMessage  BY LiveRun DEF LiveOK, PullRun
<1>3. [m EXCEPT !.tries = @ + 1] \in PullMessage  BY <1>2 DEF PullMessage
<1>4. inbox' \subseteq inbox \cup {[m EXCEPT !.tries = @ + 1]}  BY DEF Requeue
<1> QED  BY <1>1, <1>3, <1>4 DEF StoresOK

\* A resume holds nothing of a pull.
LEMMA ResumeHoldsNothing ==
  ASSUME PullInv, NEW p \in Live, ~Pulling(p), UNCHANGED pull
  PROVE  pull' = [pull EXCEPT ![p] = NotPulling]
<1>1. pull[p] = NotPulling /\ p \in Run  BY LiveRun DEF LiveOK, Pulling
<1> QED  BY <1>1 DEF PullInv, RunsOK

LEMMA EndSteps ==
  ASSUME PullInv, NEW p \in Run,
         \/ ~Pulling(p) /\ ClaimVanished(p) /\ UNCHANGED pullVars
         \/ EndResume(p) \/ Kill(p)
  PROVE  PullInv'
<1>1. p \in Live  BY DEF ClaimVanished, EndResume, Return, Kill, Fail, At
<1>2. run' = [run EXCEPT ![p] = None] /\ UNCHANGED <<slot, claims, canonical, remote, absence>>
  BY DEF ClaimVanished, EndResume, Return, Kill, Fail, Requeue, pullVars
<1>3. pull' = [pull EXCEPT ![p] = NotPulling]
  BY <1>1, ResumeHoldsNothing DEF EndResume, Kill, pullVars
<1>4. StoresOK'
  <2>1. CASE EndResume(p)  BY <2>1 DEF PullInv, EndResume, Return, StoresOK
  <2>2. CASE ClaimVanished(p) \/ Kill(p)
    BY <1>1, <2>2, RequeueStores DEF ClaimVanished, Kill, Fail
  <2> QED  BY <2>1, <2>2
<1> QED  BY <1>2, <1>3, <1>4, EndStep

LEMMA FinishStep == ASSUME PullInv, NEW p \in Run, Finish(p) PROVE PullInv'
<1>1. p \in Live  BY DEF Finish, AtNext, Pulling
<1>2. /\ run' = [run EXCEPT ![p] = None] /\ pull' = [pull EXCEPT ![p] = NotPulling]
      /\ UNCHANGED <<slot, claims, canonical, remote, absence>>
  BY DEF Finish, Requeue
<1>3. StoresOK'
  <2>1. CASE "transient" \in pull[p].errors  BY <1>1, <2>1, RequeueStores DEF Finish
  <2>2. CASE "transient" \notin pull[p].errors  BY <2>2 DEF Finish, PullInv, StoresOK
  <2> QED  BY <2>1, <2>2
<1> QED  BY <1>2, <1>3, EndStep


-------------------------------------------------------------------------------
\* The driver

\* A run that starts is a live one, whatever it is told to do.
LEMMA ReadingTyped ==
  ASSUME PullInv, NEW p \in Run, NEW m \in inbox
  PROVE  Reading(p, m) \in PullRun
<1>1. m \in PullMessage /\ clock \in Nat  BY DEF PullInv, StoresOK
<1> QED  BY <1>1 DEF Reading, PullRun

LEMMA BeginStep ==
  ASSUME PullInv, NEW p \in Run, NEW m \in inbox, Begin(p, m) PROVE PullInv'
<1> DEFINE s == Reading(p, m)
           h == [pull[p] EXCEPT !.rows = ScanFeed(clock - Lookback)]
<1>1. s \in PullRun /\ s.pc = "list" /\ s.kind = "none" /\ s.msg = m /\ m.batch = None
  BY ReadingTyped DEF Reading, Begin
<1>2. pull[p] = NotPulling  BY DEF Begin, Invoked, Live, PullInv, RunsOK, RunOK
<1>3. ScanFeed(clock - Lookback) \subseteq Row  BY DEF ScanFeed, PullInv, StoresOK
<1>4. h \in PullState /\ h.todo = {}  BY <1>2, <1>3 DEF NotPulling, PullState
<1>5. /\ run' = [run EXCEPT ![p] = s] /\ pull' = [pull EXCEPT ![p] = h]
      /\ inbox' = inbox \ {m}
      /\ UNCHANGED <<clock, stamp, slot, claims, ledger, canonical, events, remote, absence>>
  BY DEF Begin, Invoked
<1> HIDE DEF s, h
<1>6. LiveOK(s, h, Filled, canonical)  BY <1>1, <1>4 DEF LiveOK, Winner
<1>7. ClaimsOK' /\ StoresOK'  BY <1>5, ClaimsStay DEF PullInv, StoresOK
<1> QED  BY <1>5, <1>6, <1>7, RunStep

\* The rebuilt registration enters at the claim with the claim's own identity.
LEMMA ResumeStep ==
  ASSUME PullInv, NEW p \in Run, NEW m \in inbox, Resume(p, m) PROVE PullInv'
<1> DEFINE item == claims[m.batch].id
           s == [Reading(p, m) EXCEPT !.pc = "claim", !.req = item, !.id = item]
<1>1. m \in PullMessage /\ m.batch # None /\ claims[m.batch] # None
  BY DEF Resume, PullInv, StoresOK
<1>2. ClaimOK(claims[m.batch], m.batch, canonical)
  BY <1>1 DEF PullInv, ClaimsOK, PullMessage
<1>3. item \in Identity /\ StagedIn(item, canonical)  BY <1>2 DEF ClaimOK, Claim
<1>4. /\ s \in PullRun /\ s.pc = "claim" /\ s.kind = "none" /\ s.msg = m
      /\ s.req = item /\ s.id = item
  <2>1. Reading(p, m) \in PullRun  BY ReadingTyped
  <2>2. Reading(p, m).kind = "none" /\ Reading(p, m).msg = m  BY DEF Reading
  <2> QED  BY <1>3, <2>1, <2>2 DEF PullRun, Steps
<1>5. pull[p] = NotPulling /\ pull = [q \in Run |-> pull[q]]
  BY DEF Resume, Invoked, Live, PullInv, RunsOK, RunOK
<1>6. /\ run' = [run EXCEPT ![p] = s] /\ inbox' = inbox \ {m} /\ UNCHANGED pullVars
      /\ UNCHANGED <<clock, stamp, slot, claims, ledger, canonical, events>>
  BY DEF Resume, Invoked
<1> HIDE DEF s, item
<1>7. LiveOK(s, pull[p], Filled, canonical)
  <2>1. pull[p] \in PullState /\ pull[p].todo = {}
    BY <1>5, NotPullingTyped DEF NotPulling
  <2> QED  BY <1>3, <1>4, <1>5, <2>1 DEF LiveOK, Winner
<1>8. ClaimsOK' /\ StoresOK'  BY <1>6, ClaimsStay DEF PullInv, StoresOK
<1>9. pull' = [pull EXCEPT ![p] = pull[p]]  BY <1>5, <1>6 DEF pullVars
<1> QED  BY <1>6, <1>7, <1>8, <1>9, RunStep DEF pullVars

LEMMA ListStep == ASSUME PullInv, NEW p \in Run, List(p) PROVE PullInv'
<1>1. p \in Live /\ run[p].pc = "list"  BY DEF List, Goto, At
<1>2. LiveOK(run[p], pull[p], Filled, canonical)  BY <1>1, LiveRun
<1>3. PICK from \in IF feed.operator THEN {0, clock} ELSE {0},
           to \in IF feed.operator THEN {clock, clock + 1} ELSE {clock + 1} :
        LET listed == {x \in Slot : slot[x] # None /\ InWindow(mtime[x], from, to)}
            todo == Candidates(p, listed, run[p].started) IN
        pull' = [pull EXCEPT ![p].todo = todo,
                             ![p].listing = {<<x, mtime[x]>> : x \in todo},
                             ![p].parts = {q[1] : q \in {y \in parts : InWindow(y[2], from, to)}},
                             ![p].rows = {}]
  BY DEF List
<1> DEFINE listed == {x \in Slot : slot[x] # None /\ InWindow(mtime[x], from, to)}
           todo == Candidates(p, listed, run[p].started)
           listing == {<<x, mtime[x]>> : x \in todo}
           there == {q[1] : q \in {y \in parts : InWindow(y[2], from, to)}}
           s == [run[p] EXCEPT !.pc = "pick"]
           h == [pull[p] EXCEPT !.todo = todo, !.listing = listing, !.parts = there, !.rows = {}]
<1>4. todo \subseteq Filled  BY DEF Candidates, Filled
<1>5. listing \subseteq Slot \X Nat /\ there \subseteq Object
  <2>1. mtime \in [Slot -> Nat] /\ parts \subseteq Object \X Nat  BY DEF PullInv, RemoteOK
  <2>2. todo \subseteq Slot  BY DEF Candidates
  <2>3. listing \subseteq Slot \X Nat
    <3> HIDE DEF todo
    <3> QED  BY <2>1, <2>2
  <2>4. \A y \in parts : y[1] \in Object  BY <2>1
  <2>5. there \subseteq Object  BY <2>4
  <2> QED  BY <2>3, <2>5
<1>6. run' = [run EXCEPT ![p] = s]  BY DEF List, Goto
<1>7. pull' = [pull EXCEPT ![p] = h]  BY <1>3 DEF PullInv, RunsOK
<1> HIDE DEF listed, todo, listing, there
<1>8. h \in PullState /\ h.todo = todo
  <2>1. todo \subseteq Slot  BY <1>4 DEF Filled
  <2> QED  BY <1>2, <1>5, <2>1 DEF LiveOK, PullState
<1>9. /\ s \in PullRun /\ s.pc = "pick" /\ s.kind = run[p].kind /\ s.msg = run[p].msg
  BY <1>2 DEF LiveOK, PullRun
<1> HIDE DEF s, h
<1>10. s.msg.batch = None  BY <1>1, <1>2, <1>9 DEF LiveOK
<1>11. LiveOK(s, h, Filled, canonical)  BY <1>4, <1>8, <1>9, <1>10 DEF LiveOK
<1>12. /\ UNCHANGED <<clock, stamp, slot, inbox, claims, ledger, canonical, events>>
       /\ UNCHANGED <<remote, absence>>
  BY DEF List
<1>13. ClaimsOK' /\ StoresOK'  BY <1>12, ClaimsStay DEF PullInv, StoresOK
<1> QED  BY <1>6, <1>7, <1>11, <1>12, <1>13, RunStep

LEMMA PickStep == ASSUME PullInv, NEW p \in Run, Pick(p) PROVE PullInv'
<1>1. p \in Live /\ run[p].msg.batch = None  BY DEF Pick, AtNext, Pulling
<1>2. LiveOK(run[p], pull[p], Filled, canonical)  BY <1>1, LiveRun
<1>3. PICK x \in pull[p].todo :
        pull' = [pull EXCEPT ![p].todo = @ \ {x}, ![p].file = x,
                             ![p].bytes = BytesSoFar(p), ![p].streamed = 0,
                             ![p].delivery = stamp + 1, ![p].received = clock]
  BY DEF Pick
<1> DEFINE n == BytesSoFar(p)
           s == [run[p] EXCEPT !.pc = "stream"]
           h == [pull[p] EXCEPT !.todo = @ \ {x}, !.file = x, !.bytes = n, !.streamed = 0,
                                !.delivery = stamp + 1, !.received = clock]
<1>4. x \in Filled /\ clock \in Nat /\ stamp + 1 \in Nat /\ n \in Nat
  BY <1>2 DEF LiveOK, PullState, BytesSoFar, PullInv, StoresOK
<1>5. run' = [run EXCEPT ![p] = s]  BY DEF Pick
<1>6. pull' = [pull EXCEPT ![p] = h]  BY <1>3 DEF PullInv, RunsOK
<1> HIDE DEF n
<1>7. h \in PullState /\ h.todo \subseteq pull[p].todo /\ h.file = x
  BY <1>2, <1>4 DEF LiveOK, PullState, Filled
<1>8. s \in PullRun /\ s.pc = "stream" /\ s.kind = run[p].kind /\ s.msg = run[p].msg
  BY <1>2 DEF LiveOK, PullRun
<1> HIDE DEF s, h
<1>9. LiveOK(s, h, Filled, canonical)  BY <1>1, <1>2, <1>4, <1>7, <1>8 DEF LiveOK
<1>10. /\ UNCHANGED <<clock, slot, inbox, claims, ledger, canonical, events, remote, absence>>
       /\ stamp' = stamp + 1
  BY DEF Pick
<1>11. ClaimsOK' /\ StoresOK'  BY <1>10, ClaimsStay DEF PullInv, StoresOK
<1> QED  BY <1>5, <1>6, <1>9, <1>10, <1>11, RunStep

\* A run that gives a file up is back at the head of its loop.
LEMMA GiveFileUp ==
  ASSUME PullInv, NEW p \in Run, Pulling(p), NEW e \in {"transient", "unexpected"},
         run' = [run EXCEPT ![p].pc = "pick"],
         pull' = [pull EXCEPT ![p].errors = @ \cup {e}, ![p].streamed = 0],
         UNCHANGED <<clock, stamp, slot, inbox, claims, ledger, canonical, events>>,
         UNCHANGED <<remote, absence>>
  PROVE  PullInv'
<1> DEFINE s == [run[p] EXCEPT !.pc = "pick"]
           h == [pull[p] EXCEPT !.errors = @ \cup {e}, !.streamed = 0]
<1>1. p \in Live /\ run[p].msg.batch = None  BY DEF Pulling
<1>2. LiveOK(run[p], pull[p], Filled, canonical)  BY <1>1, LiveRun
<1>3. run' = [run EXCEPT ![p] = s] /\ pull' = [pull EXCEPT ![p] = h]  OBVIOUS
<1>4. h \in PullState /\ h.todo = pull[p].todo  BY <1>2 DEF LiveOK, PullState
<1>5. s \in PullRun /\ s.pc = "pick" /\ s.kind = run[p].kind /\ s.msg = run[p].msg
  BY <1>2 DEF LiveOK, PullRun
<1> HIDE DEF s, h
<1>6. LiveOK(s, h, Filled, canonical)  BY <1>1, <1>2, <1>4, <1>5 DEF LiveOK
<1>7. ClaimsOK' /\ StoresOK'  BY ClaimsStay DEF PullInv, StoresOK
<1> QED  BY <1>3, <1>6, <1>7, RunStep

LEMMA FileStep ==
  ASSUME PullInv, NEW p \in Run,
         (\E e \in {"transient", "unexpected"} : FileFails(p, e)) \/ FileVanished(p)
  PROVE  PullInv'
<1>1. ASSUME NEW e \in {"transient", "unexpected"}, FileFails(p, e) PROVE PullInv'
  <2>1. /\ Pulling(p) /\ run' = [run EXCEPT ![p].pc = "pick"]
        /\ pull' = [pull EXCEPT ![p].errors = @ \cup {e}, ![p].streamed = 0]
        /\ UNCHANGED <<clock, stamp, slot, inbox, claims, ledger, canonical, events>>
        /\ UNCHANGED <<remote, absence>>
    BY <1>1 DEF FileFails
  <2> QED  BY <2>1, GiveFileUp
<1>2. CASE FileVanished(p)
  <2>1. /\ Pulling(p) /\ run' = [run EXCEPT ![p].pc = "pick"]
        /\ pull' = [pull EXCEPT ![p].errors = @ \cup {"transient"}, ![p].streamed = 0]
        /\ UNCHANGED <<clock, stamp, slot, inbox, claims, ledger, canonical, events>>
        /\ UNCHANGED <<remote, absence>>
    BY <1>2 DEF FileVanished
  <2> QED  BY <2>1, GiveFileUp
<1> QED  BY <1>1, <1>2

\* The file as it is read now has a key, a verdict and a size.
LEMMA DeliveredTyped ==
  ASSUME PullInv, NEW p \in Live, run[p].pc = "stream"
  PROVE  LET c == slot[pull[p].file] IN
         /\ c \in Content /\ BytesMoved(p, c) \subseteq Nat
         /\ Judged(p, c) \in {"complete", "incomplete", "unreadable"}
         /\ \A v : Delivered(p, c, v) \in Identity
<1> DEFINE x == pull[p].file
           c == slot[x]
<1>1. LiveOK(run[p], pull[p], Filled, canonical)  BY LiveRun
<1>2. x \in Slot /\ c # None  BY <1>1 DEF LiveOK, Filled
<1>3. feed \in Feeds /\ c \in Content /\ <<x, c>> \in feed.uploads
  BY <1>2 DEF PullInv, RemoteOK
<1>4. /\ feed.mode \in Modes /\ feed.key[<<x, c>>] \in Key
      /\ feed.verdict[c] \in {"complete", "incomplete", "unreadable"} /\ BytesOf[c] \in Nat
      /\ feed.declares[c] \subseteq Object /\ feed.flawed[c] \subseteq Object
      /\ <<x, SizeOf[c]>> \in Object
  <2>1. BytesOf[c] \in Nat  BY <1>3, SftpPullAssumption
  <2>2. /\ feed.mode \in Modes /\ feed.key[<<x, c>>] \in Key
        /\ feed.verdict[c] \in {"complete", "incomplete", "unreadable"}
    BY <1>3, SftpPullAssumption
  <2>3. feed.declares[c] \subseteq Object /\ feed.flawed[c] \subseteq Object
    BY <1>3, SftpPullAssumption
  <2>4. \A u \in feed.uploads : <<u[1], SizeOf[u[2]]>> \in Object
    BY <1>3, SftpPullAssumption
  <2>5. <<x, SizeOf[c]>> \in Object  BY <1>3, <2>4
  <2> QED  BY <2>1, <2>2, <2>3, <2>5
<1>5. /\ pull[p].delivery \in Nat /\ pull[p].received \in Nat /\ clock \in Nat /\ stamp + 1 \in Nat
  BY <1>1 DEF LiveOK, PullState, PullInv, StoresOK
<1>6. Objects(p, x, c) \subseteq Object
  <2>1. pull[p].parts \subseteq Object  BY <1>1 DEF LiveOK, PullState
  <2> QED  BY <1>4, <2>1 DEF Objects, PreObserved
<1>7. \A v : Delivered(p, c, v) \in Identity
  BY <1>2, <1>3, <1>4, <1>5, <1>6 DEF Delivered, Identity
<1>8. Judged(p, c) \in {"complete", "incomplete", "unreadable"}  BY <1>4 DEF Judged
<1>9. BytesMoved(p, c) \subseteq Nat  BY <1>4 DEF BytesMoved
<1> QED  BY <1>3, <1>7, <1>8, <1>9

LEMMA StreamStep == ASSUME PullInv, NEW p \in Run, Stream(p) PROVE PullInv'
<1> DEFINE c == slot[pull[p].file]
           verdict == Judged(p, c)
           id == Delivered(p, c, verdict)
           s == [run[p] EXCEPT !.pc = IF verdict = "complete" THEN "claim" ELSE "plan",
                               !.kind = IF verdict = "complete" THEN "none" ELSE verdict,
                               !.req = id, !.id = id]
<1>1. p \in Live /\ run[p].pc = "stream"  BY DEF Stream, At
<1>2. LiveOK(run[p], pull[p], Filled, canonical)  BY <1>1, LiveRun
<1>3. /\ c \in Content /\ BytesMoved(p, c) \subseteq Nat
      /\ verdict \in {"complete", "incomplete", "unreadable"}
      /\ verdict = "complete" => IsStaged(p, c)
      /\ id \in Identity
  BY <1>1, DeliveredTyped DEF IsStaged
<1>0. PICK n \in BytesMoved(p, c) : pull' = [pull EXCEPT ![p].streamed = n]
  BY DEF Stream, Streamed
<1> DEFINE h == [pull[p] EXCEPT !.streamed = n]
<1>4. /\ run' = [run EXCEPT ![p] = s] /\ pull' = [pull EXCEPT ![p] = h]
      /\ canonical' = canonical
           \cup (IF IsStaged(p, c) THEN {<<pull[p].delivery, c>>} ELSE {})
      /\ stamp' = stamp + 1
      /\ UNCHANGED <<clock, slot, inbox, claims, ledger, events, remote, absence>>
  BY <1>0 DEF Stream, Streamed
<1>5. verdict = "complete" => StagedIn(id, canonical')
  <2>1. verdict = "complete" => id.delivery = pull[p].delivery /\ id.batch = c  BY DEF Delivered
  <2> QED  BY <1>3, <1>4, <2>1 DEF StagedIn
<1>6. h \in PullState /\ h.todo = pull[p].todo
  <2>1. pull[p] \in PullState /\ n \in Nat  BY <1>0, <1>2, <1>3 DEF LiveOK
  <2> HIDE DEF c, verdict, id, s
  <2> QED  BY <2>1 DEF PullState
<1> HIDE DEF c, verdict, id, h
<1>7. /\ s \in PullRun /\ s.req = id /\ s.id = id /\ s.msg = run[p].msg /\ ~Winner(s)
      /\ s.pc = (IF verdict = "complete" THEN "claim" ELSE "plan")
      /\ s.kind = (IF verdict = "complete" THEN "none" ELSE verdict)
  <2>1. run[p] \in PullRun  BY <1>2 DEF LiveOK
  <2>2. s \in PullRun  BY <1>3, <2>1 DEF PullRun, Steps
  <2>3. /\ s.req = id /\ s.id = id /\ s.msg = run[p].msg
        /\ s.pc = (IF verdict = "complete" THEN "claim" ELSE "plan")
        /\ s.kind = (IF verdict = "complete" THEN "none" ELSE verdict)
    BY <2>1 DEF PullRun
  <2>4. ~Winner(s)  BY <1>3, <2>3 DEF Winner
  <2> QED  BY <2>2, <2>3, <2>4
<1> HIDE DEF s
<1>8. run[p].msg.batch = None /\ pull[p].todo \subseteq Filled  BY <1>1, <1>2 DEF LiveOK
<1>9. LiveOK(s, h, Filled, canonical')
  BY <1>3, <1>5, <1>6, <1>7, <1>8 DEF LiveOK
<1>10. canonical \subseteq canonical' /\ canonical' \subseteq Nat \X Content
  <2>1. pull[p].delivery \in Nat  BY <1>2 DEF LiveOK, PullState
  <2> QED  BY <1>3, <1>4, <2>1 DEF PullInv, StoresOK
<1>11. RunsOK /\ ClaimsOK /\ RemoteOK /\ StoresOK /\ AbsenceOK  BY DEF PullInv
<1>12. RemoteOK' /\ Filled' = Filled /\ AbsenceOK' /\ ClaimsOK'
  BY <1>4, <1>10, <1>11, RemoteStays, AbsenceStays, ClaimsStay
<1>13. RunOK(s, h, Filled', canonical')  BY <1>9, <1>12, LiveIsRun
<1>14. RunsOK'  BY <1>4, <1>10, <1>11, <1>12, <1>13, RunMoves
<1>15. StoresOK'  BY <1>4, <1>10, <1>11 DEF StoresOK, StagedIn
<1> QED  BY <1>12, <1>14, <1>15 DEF PullInv

LEMMA DriveStep == ASSUME PullInv, NEW p \in Run, Drive(p) PROVE PullInv'
<1>1. CASE Register(p)
  BY <1>1, ClaimWinStep, ClaimLoseStep, ClaimReadStep, ClaimTakeStep, PlanStep, ExecuteStep,
     EndSteps DEF Register
<1>2. CASE NothingToCopy(p)  BY <1>2, ExecuteStep DEF NothingToCopy
<1> QED
  BY <1>1, <1>2, ListStep, PickStep, StreamStep, FinishStep, FileStep, EndSteps DEF Drive

-------------------------------------------------------------------------------
\* The partner, the platform and the sweeps

LEMMA UploadStep ==
  ASSUME PullInv, NEW u \in feed.uploads, Upload(u[1], u[2]) PROVE PullInv'
<1>1. RunsOK /\ ClaimsOK /\ RemoteOK /\ StoresOK /\ AbsenceOK  BY DEF PullInv
<1>2. feed \in Feeds  BY <1>1 DEF RemoteOK
<1>3. feed.uploads \subseteq Slot \X Content  BY <1>2, SftpPullAssumption
<1>4. /\ u[1] \in Slot /\ u[2] \in Content /\ u[2] # None /\ <<u[1], u[2]>> \in feed.uploads
  BY <1>3, ConstantsAssumption
<1>5. /\ slot' = [slot EXCEPT ![u[1]] = u[2]] /\ mtime' = [mtime EXCEPT ![u[1]] = clock]
      /\ UNCHANGED <<clock, stamp, inbox, claims, ledger, canonical, events, run, pull>>
      /\ UNCHANGED <<feed, parts, absence>>
  BY DEF Upload
<1>6. \A x \in Slot : slot'[x] = IF x = u[1] THEN u[2] ELSE slot[x]
  BY <1>1, <1>5 DEF RemoteOK
<1>7. RemoteOK'  BY <1>1, <1>4, <1>5, <1>6 DEF RemoteOK, StoresOK
<1>8. Filled \subseteq Filled'  BY <1>4, <1>6 DEF Filled
<1>9. RunsOK'  BY <1>1, <1>5, <1>8, RunsStay
<1>10. ClaimsOK' /\ AbsenceOK'  BY <1>1, <1>5, ClaimsStay, AbsenceStays
<1>11. StoresOK'  BY <1>1, <1>5 DEF StoresOK
<1> QED  BY <1>7, <1>9, <1>10, <1>11 DEF PullInv

\* A step that leaves the runs, the files and the objects where they are.
LEMMA QuietStep ==
  ASSUME PullInv, UNCHANGED <<run, pull, slot, canonical, claims, remote, absence>>, StoresOK'
  PROVE  PullInv'
<1>1. RunsOK /\ ClaimsOK /\ RemoteOK /\ AbsenceOK  BY DEF PullInv
<1>2. RemoteOK' /\ Filled' = Filled /\ AbsenceOK' /\ ClaimsOK'
  BY <1>1, RemoteStays, AbsenceStays, ClaimsStay
<1>3. RunsOK'  BY <1>1, <1>2, RunsStay
<1> QED  BY <1>2, <1>3 DEF PullInv

LEMMA PartsStep ==
  ASSUME PullInv, NEW c \in Content, NEW o \in feed.declares[c], PartArrives(o) PROVE PullInv'
<1>1. RunsOK /\ ClaimsOK /\ RemoteOK /\ StoresOK /\ AbsenceOK  BY DEF PullInv
<1>2. /\ parts' = parts \cup {<<o, clock>>}
      /\ UNCHANGED <<clock, stamp, slot, inbox, claims, ledger, canonical, events, run, pull>>
      /\ UNCHANGED <<feed, mtime, absence>>
  BY DEF PartArrives
<1>3. RemoteOK' /\ Filled' = Filled
  <2>1. o \in Object  BY <1>1, SftpPullAssumption DEF RemoteOK
  <2> QED  BY <1>1, <1>2, <2>1 DEF RemoteOK, StoresOK, Filled
<1>4. RunsOK'  BY <1>1, <1>2, <1>3, RunsStay
<1>5. ClaimsOK' /\ AbsenceOK' /\ StoresOK'
  BY <1>1, <1>2, ClaimsStay, AbsenceStays DEF StoresOK
<1> QED  BY <1>3, <1>4, <1>5 DEF PullInv

\* The schedule, an operator and the sweep of stuck claims invoke the driver.
LEMMA InvokeStep ==
  ASSUME PullInv,
         (\E force \in BOOLEAN : Schedule(force)) \/ (\E b \in Content : SweepStuck(b))
  PROVE  PullInv'
<1>1. StoresOK  BY DEF PullInv
<1>2. PICK force \in BOOLEAN, b \in Content \cup {None} :
        inbox' = inbox \cup {Invocation(force, b)}
  BY DEF Schedule, SweepStuck
<1>3. Invocation(force, b) \in PullMessage  BY <1>1 DEF Invocation, PullMessage, StoresOK
<1>4. /\ UNCHANGED <<run, pull, slot, canonical, claims, remote, absence>>
      /\ stamp' = stamp + 1 /\ UNCHANGED <<clock, ledger, events>>
  BY DEF Schedule, SweepStuck, pullVars
<1>5. StoresOK'  BY <1>1, <1>2, <1>3, <1>4 DEF StoresOK
<1> QED  BY <1>4, <1>5, QuietStep

LEMMA PlatformStep ==
  ASSUME PullInv,
         \/ \E p \in Run, m \in inbox : ResumeGone(p, m)
         \/ \E m \in inbox : Expire(m) /\ UNCHANGED pullVars
         \/ Tick /\ UNCHANGED pullVars
         \/ UNCHANGED allVars
  PROVE  PullInv'
<1>1. StoresOK  BY DEF PullInv
<1>2. /\ UNCHANGED <<run, pull, slot, canonical, claims, remote, absence>>
      /\ UNCHANGED <<stamp, ledger, events>> /\ inbox' \subseteq inbox
      /\ clock' \in {clock, clock + 1}
  BY DEF ResumeGone, Expire, Tick, allVars, vars, pullVars, background
<1>3. StoresOK'  BY <1>1, <1>2 DEF StoresOK
<1> QED  BY <1>2, <1>3, QuietStep

LEMMA ReapStep ==
  ASSUME PullInv, NEW b \in Content, Reap(b), UNCHANGED pullVars PROVE PullInv'
<1>1. RunsOK /\ ClaimsOK /\ RemoteOK /\ StoresOK /\ AbsenceOK  BY DEF PullInv
<1>2. /\ claims' = [claims EXCEPT ![b] = None]
      /\ UNCHANGED <<clock, stamp, slot, inbox, ledger, canonical, events, run>>
      /\ UNCHANGED <<pull, remote, absence>>
  BY DEF Reap, pullVars
<1>3. ClaimsOK'  BY <1>1, <1>2 DEF ClaimsOK, ClaimOK
<1>4. RemoteOK' /\ Filled' = Filled /\ AbsenceOK'
  BY <1>1, <1>2, RemoteStays, AbsenceStays
<1>5. RunsOK' /\ StoresOK'  BY <1>1, <1>2, <1>4, RunsStay DEF StoresOK
<1> QED  BY <1>3, <1>4, <1>5 DEF PullInv

\* There is a first day in every set of days.
LEMMA FirstDate ==
  ASSUME NEW D \in SUBSET Nat, D # {}
  PROVE  \E d \in D : \A e \in D : d <= e
<1>1. IsWellFoundedOn(OpToRel(<, Nat), Nat)  BY NatLessThanWellFounded
<1>2. PICK d \in D : \A e \in D : ~(<<e, d>> \in OpToRel(<, Nat))  BY <1>1, WFMin, Zenon
<1>3. \A e \in D : ~(e < d)  BY <1>2 DEF OpToRel
<1> QED  BY <1>3

LEMMA SweepStep ==
  ASSUME PullInv, ScanOverdue \/ Announce \/ Mark \/ SkipMarked \/ SweepEnds
  PROVE  PullInv'
<1>1. RunsOK /\ ClaimsOK /\ RemoteOK /\ StoresOK /\ AbsenceOK  BY DEF PullInv
<1>2. UNCHANGED <<vars, remote, pull>>
  BY DEF ScanOverdue, Announce, Mark, SkipMarked, SweepEnds
<1>3. RunsOK' /\ ClaimsOK' /\ RemoteOK' /\ StoresOK'
  BY <1>1, <1>2, RunsStay, ClaimsStay, RemoteStays DEF vars, StoresOK
<1>4. AbsenceOK'
  <2>1. CASE ScanOverdue
    <3>1. OverdueDates({r.id.received : r \in RegisteredDeliveries(ledger)}, clock) \subseteq Nat
      BY DEF OverdueDates
    <3> QED  BY <1>1, <2>1, <3>1 DEF ScanOverdue, AbsenceOK
  <2>2. CASE Announce
    <3>1. NextDate \in sweeper.days  BY <1>1, <2>2, FirstDate DEF Announce, AbsenceOK, NextDate
    <3>2. sweeper'.days = sweeper.days  BY <1>1, <2>2 DEF Announce, AbsenceOK
    <3>3. NextDate' = NextDate  BY <3>2 DEF NextDate
    <3>4. overdue' = overdue \cup {NextDate} /\ marked' = marked  BY <2>2 DEF Announce
    <3>5. sweeper' \in [pc : {"idle", "announce", "mark"}, runs : Nat, days : SUBSET Nat]
      BY <1>1, <2>2 DEF Announce, AbsenceOK
    <3> QED  BY <1>1, <3>1, <3>3, <3>4, <3>5 DEF AbsenceOK
  <2>3. CASE Mark  BY <1>1, <2>3 DEF Mark, AbsenceOK
  <2>4. CASE SkipMarked  BY <1>1, <2>4 DEF SkipMarked, AbsenceOK
  <2>5. CASE SweepEnds  BY <1>1, <2>5 DEF SweepEnds, AbsenceOK
  <2> QED  BY <2>1, <2>2, <2>3, <2>4, <2>5
<1> QED  BY <1>3, <1>4 DEF PullInv

-------------------------------------------------------------------------------
LEMMA NextPullInv == PullInv /\ [PullNext]_allVars => PullInv'
<1> SUFFICES ASSUME PullInv, [PullNext]_allVars PROVE PullInv'  OBVIOUS
<1>1. CASE \E p \in Run, m \in inbox : Begin(p, m) \/ Resume(p, m) \/ ResumeGone(p, m)
  BY <1>1, BeginStep, ResumeStep, PlatformStep
<1>2. CASE \E p \in Run : Drive(p) \/ Kill(p) \/ \E e \in {"transient", "unexpected"} : FileFails(p, e)
  BY <1>2, DriveStep, EndSteps, FileStep
<1>3. CASE \/ \E c \in Content : SweepStuck(c) \/ (Reap(c) /\ UNCHANGED pullVars)
           \/ \E c \in Content : \E o \in feed.declares[c] : PartArrives(o)
  BY <1>3, PartsStep, InvokeStep, ReapStep
<1> QED
  BY <1>1, <1>2, <1>3, UploadStep, InvokeStep, PlatformStep, SweepStep DEF PullNext

LEMMA PullInvAlways == PullSpec => []PullInv
  BY InitPullInv, NextPullInv, PTL DEF PullSpec

\* Every variable holds what the driver stores in it, for any feed, any number
\* of runs and whatever the partner overwrites.
THEOREM PullTypes == PullSpec => []PullTypeOK
  BY PullInvAlways, PullInvTypeOK, PTL

\* Every claim and every event names bytes that lie in the canonical zone under
\* its own delivery, however runs die, race, resume and take over.
THEOREM ClaimsAreStaged == PullSpec => []StagedBeforeClaim
  BY PullInvAlways, PullInvSafe, PTL

\* A day is marked only after it was announced, wherever a sweep dies.
THEOREM MarksAreAnnounced == PullSpec => []MarkedIsAnnounced
  BY PullInvAlways, PullInvSafe, PTL

-------------------------------------------------------------------------------
\* What the ledger remembers: the second inductive invariant

AtClaim == {"claim", "read", "take"}
AtWork == {"plan", "copy", "append", "emit", "complete"}

\* The identities a run in state s may still register, note or plan with.
Hand(s) ==
  IF s = None THEN {}
  ELSE {x \in {s.req} : s.pc \in AtClaim} \cup {x \in {s.id} : s.pc \in {"take"} \cup AtWork}

Hands(P) == UNION {Hand(run[p]) : p \in P}
ClaimedIds == {claims[b].id : b \in {c \in Content : claims[c] # None}}
LedgerIds == {r.id : r \in ledger}
RegisteredIds == {r.id : r \in {q \in ledger : q.disp = "registered"}}

Known == ClaimedIds \cup LedgerIds \cup Hands(Run)

\* What is known of identities besides the run p.
KnownBesides(p) == ClaimedIds \cup LedgerIds \cup Hands(Run \ {p})

\* A delivery is given out once, to one file and one content.
Streams(p) == p \in Live /\ run[p].pc = "stream"

MintedOnce ==
  /\ \A x \in Known : x.delivery <= stamp
  /\ \A x, y \in Known : x.delivery = y.delivery => x = y
  /\ \A p \in Run : Streams(p) =>
       /\ pull[p].delivery <= stamp
       /\ \A x \in Known : x.delivery # pull[p].delivery
       /\ \A q \in Run \ {p} : Streams(q) => pull[q].delivery # pull[p].delivery

\* A pull that has not won its claim, or has lost it, holds a delivery of its own.
OwnDelivery(s) ==
  s.msg.batch = None /\ (s.pc \in AtClaim \/ (s.kind = "LOST" /\ s.pc \in {"plan", "append"}))

KeepsToItself(p) ==
  p \in Live /\ OwnDelivery(run[p]) =>
    \A x \in KnownBesides(p) : x.delivery # run[p].req.delivery

\* What makes a message a resume was sent by the sweep.
WasSwept(m) == m.batch # None => swept[m.batch] >= 0

ResumesSwept ==
  /\ swept = [b \in Content |-> swept[b]]
  /\ \A m \in inbox : WasSwept(m)
  /\ \A p \in Live : WasSwept(run[p].msg)

\* A delivery that was noted as a duplicate is nowhere else, unless its batch was
\* resumed.
NotedApart(q) ==
  q.disp = "duplicate" =>
    \A x \in ClaimedIds \cup RegisteredIds \cup Hands(Run) :
      x.delivery = q.id.delivery => swept[x.batch] >= 0

\* The disposition of the row that a run in state s will have, or need not have,
\* appended.
Outcome(s) ==
  IF Winner(s) THEN "registered" ELSE IF s.kind = "LOST" THEN "duplicate" ELSE s.kind

\* The rows a run in state s has planned are its own, but for those that
\* supersede a row of the ledger.
PlanOK(s) ==
  /\ \E r \in s.rows : r.id = s.id /\ r.disp = Outcome(s)
  /\ \A r \in s.rows :
       /\ r.recorded <= stamp
       /\ r.id = s.id \/ r.id \in LedgerIds
       /\ r.disp = "registered" => r.id = s.id /\ Winner(s)
       /\ r.disp = "duplicate" => r.id = s.id /\ s.kind = "LOST"

\* A run knows whom it works for.
Planned(p) ==
  p \in Live =>
    /\ run[p].started <= clock
    /\ pull[p].rows \subseteq ledger
    /\ run[p].pc = "list" => pull[p].todo = {}
    /\ run[p].pc \in {"copy", "append"} => PlanOK(run[p])
    /\ run[p].pc = "copy" => run[p].kind # "LOST"
    /\ run[p].kind = "LOST" /\ run[p].pc \in AtWork => run[p].id = run[p].req
    /\ run[p].pc \in AtClaim \cup AtWork => run[p].id.batch = run[p].req.batch
    /\ run[p].msg.batch # None => run[p].req.batch = run[p].msg.batch

RowsStamped == \A r \in ledger : r.recorded <= stamp

\* A row of identity id tells the run p of the file in slot x.
Tells(p, id, disp, x) ==
  LET c == slot[x] IN
  \/ <<x, SizeOf[c]>> \in id.objects
  \/ disp = "registered" /\ id.batch = c
  \/ /\ feed.mode = "manifest" /\ disp = Judged(p, c)
     /\ id.key = feed.key[<<x, c>>] /\ id.objects = Objects(p, x, c)

\* The run p has the file in slot x in hand: the row it works for will tell of it.
InHand(p, x) ==
  \/ run[p].pc = "stream" /\ pull[p].file = x
  \/ /\ run[p].pc \in AtClaim /\ run[p].req.batch = slot[x]
     /\ <<x, SizeOf[slot[x]]>> \in run[p].req.objects
  \/ run[p].pc \in {"plan", "copy", "append"} /\ Tells(p, run[p].id, Outcome(run[p]), x)

\* The files a run that listed everything and met no error must account for.
Owed(s, x) == slot[x] # None /\ Quiet(x, s.started) /\ mtime[x] < s.started

Traced(p) ==
  /\ p \in Live /\ ~feed.operator /\ run[p].pc # "list" /\ run[p].msg.batch = None
  /\ pull[p].errors = {}
  => \A x \in Slot : Owed(run[p], x) =>
       x \in pull[p].todo \/ InHand(p, x) \/ Told(p, x)

PullHistory ==
  /\ MintedOnce /\ ResumesSwept /\ RowsStamped
  /\ \A q \in ledger : NotedApart(q)
  /\ \A p \in Run : KeepsToItself(p) /\ Planned(p) /\ Traced(p)

-------------------------------------------------------------------------------
\* What a step of one run does to it

LEMMA TellingRow ==
  ASSUME NEW p, NEW x PROVE Told(p, x) <=> \E r \in ledger : Tells(p, r.id, r.disp, x)
  BY DEF Told, Tells

\* What tells of an unchanged file goes on telling of it.
LEMMA TellsOn ==
  ASSUME NEW p, NEW x, slot'[x] = slot[x], feed' = feed, pull'[p].parts = pull[p].parts
  PROVE  \A id, d : Tells(p, id, d, x)' = Tells(p, id, d, x)
  BY DEF Tells, Judged, Objects, PreObserved

LEMMA ToldOn ==
  ASSUME NEW p, NEW x, slot'[x] = slot[x], feed' = feed, pull'[p].parts = pull[p].parts,
         ledger \subseteq ledger', Told(p, x)
  PROVE  Told(p, x)'
<1>1. PICK r \in ledger : Tells(p, r.id, r.disp, x)  BY TellingRow
<1>2. Tells(p, r.id, r.disp, x)'  BY <1>1, TellsOn
<1>3. r \in ledger'  OBVIOUS
<1> QED  BY <1>2, <1>3 DEF Told, Tells

\* A run that keeps its outcome and its identity keeps its file in hand.
LEMMA InHandOn ==
  ASSUME NEW p, NEW x, slot'[x] = slot[x], feed' = feed, pull'[p] = pull[p],
         run'[p].req = run[p].req, run'[p].id = run[p].id, run'[p].kind = run[p].kind,
         run'[p].pc = run[p].pc \/ {run[p].pc, run'[p].pc} \subseteq AtClaim
           \/ {run[p].pc, run'[p].pc} \subseteq {"plan", "copy", "append"},
         InHand(p, x)
  PROVE  InHand(p, x)'
<1>1. Outcome(run[p])' = Outcome(run[p])  BY DEF Outcome, Winner
<1>2. \A id, d : Tells(p, id, d, x)' = Tells(p, id, d, x)  BY TellsOn
<1> QED  BY <1>1, <1>2 DEF InHand, AtClaim

LEMMA HandsTyped ==
  ASSUME PullInv PROVE stamp \in Nat /\ clock \in Nat /\ \A x \in Known : x \in Identity
<1>1. \A b \in Content : claims[b] # None => claims[b].id \in Identity
  BY DEF PullInv, ClaimsOK, ClaimOK, Claim
<1>2. \A r \in ledger : r.id \in Identity  BY DEF PullInv, StoresOK, Row
<1>3. ASSUME NEW p \in Run, NEW x \in Hand(run[p]) PROVE x \in Identity
  <2>1. p \in Live  BY <1>3 DEF Hand, Live
  <2>2. LiveOK(run[p], pull[p], Filled, canonical)  BY <2>1, LiveRun
  <2> QED  BY <1>3, <2>1, <2>2 DEF Hand, LiveOK, AtClaim, AtWork
<1>4. stamp \in Nat /\ clock \in Nat  BY DEF PullInv, StoresOK
<1> QED  BY <1>1, <1>2, <1>3, <1>4 DEF Known, Hands, ClaimedIds, LedgerIds

\* A delivery no other run and no store knows.
Unused(p, x) ==
  /\ \A y \in Known : y.delivery # x.delivery
  /\ \A q \in Run \ {p} : Streams(q) => pull[q].delivery # x.delivery

\* The run p moves; N holds the identity it got, if it got one.
Moves(p, N) ==
  /\ \A q \in Run \ {p} : run'[q] = run[q] /\ pull'[q] = pull[q]
  /\ stamp <= stamp' /\ clock <= clock' /\ ledger \subseteq ledger'
  /\ ClaimedIds' \subseteq ClaimedIds \cup Hand(run[p])
  /\ LedgerIds' \subseteq LedgerIds \cup Hand(run[p])
  /\ RegisteredIds' \subseteq RegisteredIds \cup Hand(run[p])
  /\ Hand(run'[p]) \subseteq ClaimedIds \cup Hand(run[p]) \cup N
  /\ N \subseteq Identity /\ \A x, y \in N : x = y
  /\ \A x \in N : x.delivery <= stamp' /\ Unused(p, x)
  /\ Streams(p)' => pull'[p].delivery = stamp + 1 /\ stamp' = stamp + 1 /\ N = {}
  /\ p \in Live' /\ OwnDelivery(run'[p]) =>
       \/ run'[p].req \in N /\ ClaimedIds' \subseteq ClaimedIds /\ LedgerIds' \subseteq LedgerIds
       \/ /\ p \in Live /\ OwnDelivery(run[p]) /\ run'[p].req = run[p].req
          /\ ClaimedIds' \subseteq ClaimedIds /\ LedgerIds' \subseteq LedgerIds

LEMMA MovesKnown ==
  ASSUME NEW p \in Run, NEW N, Moves(p, N)
  PROVE  /\ Known' \subseteq Known \cup N
         /\ Hands(Run \ {p})' = Hands(Run \ {p})
         /\ \A q \in Run \ {p} : KnownBesides(q)' \subseteq KnownBesides(q) \cup N
         /\ (ClaimedIds \cup RegisteredIds \cup Hands(Run))'
              \subseteq ClaimedIds \cup RegisteredIds \cup Hands(Run) \cup N
<1>1. \A q \in Run \ {p} : Hand(run'[q]) = Hand(run[q])  BY DEF Moves
<1>2. \A P \in SUBSET Run : Hands(P)' \subseteq ClaimedIds \cup Hands(P) \cup N
  BY <1>1 DEF Moves, Hands
<1>3. \A q \in Run \ {p} : Hand(run[p]) \subseteq Hands(Run \ {q})  BY DEF Hands
<1>4. Hand(run[p]) \subseteq Hands(Run)  BY DEF Hands
<1>5. Hands(Run)' \subseteq ClaimedIds \cup Hands(Run) \cup N  BY <1>2
<1>6. \A q \in Run : Hands(Run \ {q})' \subseteq ClaimedIds \cup Hands(Run \ {q}) \cup N  BY <1>2
<1>7. Hands(Run \ {p})' = Hands(Run \ {p})  BY <1>1 DEF Hands
<1>8. Known' \subseteq Known \cup N  BY <1>4, <1>5 DEF Known, Moves
<1>9. ASSUME NEW q \in Run \ {p} PROVE KnownBesides(q)' \subseteq KnownBesides(q) \cup N
  BY <1>3, <1>6 DEF KnownBesides, Moves
<1>10. (ClaimedIds \cup RegisteredIds \cup Hands(Run))'
              \subseteq ClaimedIds \cup RegisteredIds \cup Hands(Run) \cup N
  BY <1>4, <1>5 DEF Moves
<1> QED  BY <1>7, <1>8, <1>9, <1>10

LEMMA MoveMinted ==
  ASSUME PullInv, PullInv', MintedOnce, NEW p \in Run, NEW N, Moves(p, N) PROVE MintedOnce'
<1>1. Known' \subseteq Known \cup N  BY MovesKnown
<1>2. stamp \in Nat /\ stamp' \in Nat /\ \A x \in Known \cup N : x \in Identity /\ x.delivery \in Nat
  <2>1. stamp' \in Nat  BY DEF PullInv, StoresOK
  <2> QED  BY <2>1, HandsTyped DEF Moves, Identity
<1>3. \A x \in Known' : x.delivery <= stamp'
  BY <1>1, <1>2 DEF Moves, MintedOnce
<1>4. \A x, y \in Known' : x.delivery = y.delivery => x = y
  BY <1>1 DEF Moves, MintedOnce, Unused
<1>5. ASSUME NEW q \in Run, Streams(q)', NEW x \in Known' PROVE x.delivery # pull'[q].delivery
  <2>1. CASE q = p  BY <1>1, <1>2, <1>5, <2>1 DEF Moves, MintedOnce
  <2>2. CASE q # p
    <3>1. Streams(q) /\ pull'[q].delivery = pull[q].delivery  BY <1>5, <2>2 DEF Moves, Streams, Live
    <3> QED  BY <1>1, <1>5, <2>2, <3>1 DEF Moves, MintedOnce, Unused
  <2> QED  BY <2>1, <2>2
<1>6. ASSUME NEW q \in Run, Streams(q)' PROVE pull'[q].delivery <= stamp'
  <2>1. CASE q = p  BY <1>2, <1>6, <2>1 DEF Moves
  <2>2. CASE q # p
    <3>1. Streams(q) /\ pull'[q].delivery = pull[q].delivery /\ pull[q].delivery <= stamp
      BY <1>6, <2>2 DEF Moves, Streams, Live, MintedOnce
    <3>2. pull[q].delivery \in Nat  BY <3>1, LiveRun DEF LiveOK, PullState, Streams
    <3> QED  BY <1>2, <3>1, <3>2 DEF Moves
  <2> QED  BY <2>1, <2>2
<1>7. ASSUME NEW q \in Run, NEW z \in Run \ {q}, Streams(q)', Streams(z)'
      PROVE  pull'[z].delivery # pull'[q].delivery
  <2>1. ASSUME NEW y \in Run \ {p}, Streams(y)' PROVE Streams(y) /\ pull'[y].delivery = pull[y].delivery
    BY <2>1 DEF Moves, Streams, Live
  <2>2. ASSUME NEW y \in Run \ {p}, Streams(y)', Streams(p)' PROVE pull'[y].delivery # pull'[p].delivery
    <3>1. Streams(y) /\ pull'[y].delivery = pull[y].delivery /\ pull[y].delivery <= stamp
      BY <2>1, <2>2 DEF MintedOnce
    <3>2. pull[y].delivery \in Nat  BY <3>1, LiveRun DEF LiveOK, PullState, Streams
    <3> QED  BY <1>2, <2>2, <3>1, <3>2 DEF Moves
  <2>3. CASE q # p /\ z # p  BY <1>7, <2>1, <2>3 DEF MintedOnce
  <2>4. CASE q = p \/ z = p  BY <1>7, <2>2, <2>4
  <2> QED  BY <2>3, <2>4
<1> QED  BY <1>3, <1>4, <1>5, <1>6, <1>7 DEF MintedOnce

LEMMA MoveKeeps ==
  ASSUME MintedOnce, \A q \in Run : KeepsToItself(q) /\ Planned(q), NEW p \in Run, NEW N, Moves(p, N)
  PROVE  \A q \in Run : KeepsToItself(q)'
<1> SUFFICES ASSUME NEW q \in Run, q \in Live', OwnDelivery(run'[q]), NEW x \in KnownBesides(q)'
             PROVE  x.delivery # run'[q].req.delivery
  BY DEF KeepsToItself
<1>1. CASE q # p
  <2>1. run'[q] = run[q] /\ q \in Live  BY <1>1 DEF Moves, Live
  <2>2. x \in KnownBesides(q) \cup N  BY <1>1, MovesKnown
  <2>3. run[q].req \in Known
    <3>1. OwnDelivery(run[q]) /\ run[q] # None /\ Planned(q)  BY <2>1 DEF Live
    <3>2. run[q].pc \in AtClaim \/ (run[q].id = run[q].req /\ run[q].pc \in AtWork)
      BY <2>1, <3>1 DEF OwnDelivery, Planned, AtWork
    <3>3. run[q].req \in Hand(run[q])  BY <3>1, <3>2 DEF Hand
    <3> QED  BY <3>3 DEF Known, Hands
  <2>4. CASE x \in KnownBesides(q)
    <3>1. KeepsToItself(q) /\ OwnDelivery(run[q])  BY <2>1
    <3> QED  BY <2>1, <2>4, <3>1 DEF KeepsToItself
  <2>5. CASE x \in N  BY <2>1, <2>3, <2>5 DEF Moves, Unused
  <2> QED  BY <2>2, <2>4, <2>5
<1>2. CASE q = p
  <2>1. ClaimedIds' \subseteq ClaimedIds /\ LedgerIds' \subseteq LedgerIds
    BY <1>2 DEF Moves
  <2>2. x \in KnownBesides(p) /\ x \in Known
    <3>1. Hands(Run \ {p})' = Hands(Run \ {p})  BY MovesKnown
    <3>2. Hands(Run \ {p}) \subseteq Hands(Run)  BY DEF Hands
    <3> QED  BY <1>2, <2>1, <3>1, <3>2 DEF KnownBesides, Known
  <2> QED  BY <1>2, <2>2 DEF Moves, KeepsToItself, Unused
<1> QED  BY <1>1, <1>2

\* The rest of what a moving run keeps: the ledger's notes, the messages, the
\* other runs' plans and traces.
LEMMA MoveHistory ==
  ASSUME PullInv, PullInv', PullHistory, NEW p \in Run, NEW N, Moves(p, N),
         UNCHANGED <<swept, slot, mtime, feed>>,
         \A m \in inbox' \ inbox : m.batch # None => swept[m.batch] >= 0,
         p \in Live' /\ run'[p].msg.batch # None => swept[run'[p].msg.batch] >= 0,
         \A r \in ledger' \ ledger : r.recorded <= stamp' /\ NotedApart(r)',
         Planned(p)', Traced(p)'
  PROVE  PullHistory'
<1>1. MintedOnce' /\ \A q \in Run : KeepsToItself(q)'
  BY MoveMinted, MoveKeeps DEF PullHistory
<1>2. ResumesSwept'
  <2>1. \A q \in Live' \ {p} : q \in Live /\ run'[q] = run[q]  BY DEF Moves, Live
  <2> QED  BY <2>1 DEF ResumesSwept, PullHistory, WasSwept
<1>3. stamp \in Nat /\ stamp' \in Nat /\ stamp <= stamp' /\ \A r \in ledger : r.recorded \in Nat
  <2>1. stamp' \in Nat  BY DEF PullInv, StoresOK
  <2> QED  BY <2>1 DEF Moves, PullInv, StoresOK, Row
<1>4. RowsStamped'  BY <1>3 DEF PullHistory, RowsStamped
<1>5. ASSUME NEW r \in ledger' PROVE NotedApart(r)'
  <2>1. CASE r \in ledger' \ ledger  BY <2>1
  <2>2. CASE r \in ledger
    <3> SUFFICES ASSUME r.disp = "duplicate",
                        NEW x \in (ClaimedIds \cup RegisteredIds \cup Hands(Run))',
                        x.delivery = r.id.delivery
                 PROVE  swept'[x.batch] >= 0
      BY DEF NotedApart
    <3>1. x \in ClaimedIds \cup RegisteredIds \cup Hands(Run) \cup N  BY MovesKnown
    <3>2. r.id \in Known  BY <2>2 DEF Known, LedgerIds
    <3>3. x \notin N  BY <3>2 DEF Moves, Unused
    <3>4. NotedApart(r)  BY <2>2 DEF PullHistory
    <3> QED  BY <3>1, <3>3, <3>4 DEF NotedApart
  <2> QED  BY <2>1, <2>2
<1>6. ASSUME NEW q \in Run PROVE Planned(q)' /\ Traced(q)'
  <2>1. CASE q = p  BY <2>1
  <2>2. CASE q # p
    <3>1. run'[q] = run[q] /\ pull'[q] = pull[q] /\ (q \in Live' => q \in Live)
      BY <2>2 DEF Moves, Live
    <3>2. Planned(q) /\ Traced(q)  BY DEF PullHistory
    <3>3. ledger \subseteq ledger' /\ LedgerIds \subseteq LedgerIds'  BY DEF Moves, LedgerIds
    <3>4. ASSUME q \in Live PROVE run[q].started <= clock' /\ \A r \in run[q].rows : r.recorded \in Nat
      <4>1. run[q] \in PullRun /\ run[q].started <= clock  BY <3>2, <3>4, LiveRun DEF LiveOK, Planned
      <4>2. clock' \in Nat /\ clock \in Nat  BY DEF PullInv, StoresOK
      <4> QED  BY <4>1, <4>2 DEF Moves, PullRun, Row
    <3>5. Planned(q)'
      <4> SUFFICES ASSUME q \in Live' PROVE Planned(q)'  BY DEF Planned
      <4>1. run[q].pc \in {"copy", "append"} => PlanOK(run[q])  BY <3>1, <3>2 DEF Planned
      <4>2. PlanOK(run[q]) => PlanOK(run[q])'  BY <1>3, <3>1, <3>3, <3>4 DEF PlanOK
      <4> QED  BY <3>1, <3>2, <3>3, <3>4, <4>1, <4>2 DEF Planned
    <3>6. \A x \in Slot : Told(q, x) => Told(q, x)'  BY <3>1, <3>3, ToldOn
    <3>7. \A x \in Slot : Owed(run[q], x)' => Owed(run[q], x)  BY <3>1 DEF Owed, Quiet
    <3>8. \A x \in Slot : InHand(q, x) => InHand(q, x)'  BY <3>1, InHandOn
    <3>9. Traced(q)'
      <4> SUFFICES ASSUME q \in Live', ~feed.operator, run[q].pc # "list",
                          run[q].msg.batch = None, pull[q].errors = {},
                          NEW x \in Slot, Owed(run[q], x)'
                   PROVE  (x \in pull[q].todo \/ InHand(q, x) \/ Told(q, x))'
        BY <3>1 DEF Traced
      <4>1. x \in pull[q].todo \/ InHand(q, x) \/ Told(q, x)
        BY <3>1, <3>2, <3>7 DEF Traced
      <4> QED  BY <3>1, <3>6, <3>8, <4>1
    <3> QED  BY <3>5, <3>9
  <2> QED  BY <2>1, <2>2
<1> QED  BY <1>1, <1>2, <1>4, <1>5, <1>6 DEF PullHistory

LEMMA RunAfter ==
  ASSUME PullInv, NEW p \in Run, NEW s, NEW h,
         run' = [run EXCEPT ![p] = s], pull' = [pull EXCEPT ![p] = h]
  PROVE  /\ run'[p] = s /\ pull'[p] = h
         /\ \A q \in Run \ {p} : run'[q] = run[q] /\ pull'[q] = pull[q]
<1>1. RunsOK  BY DEF PullInv
<1> QED  BY <1>1 DEF RunsOK

LEMMA RegisterAfter ==
  ASSUME PullInv, NEW p \in Run, NEW s, run' = [run EXCEPT ![p] = s], UNCHANGED pull
  PROVE  /\ run'[p] = s /\ pull'[p] = pull[p]
         /\ \A q \in Run \ {p} : run'[q] = run[q] /\ pull'[q] = pull[q]
<1>1. RunsOK  BY DEF PullInv
<1> QED  BY <1>1 DEF RunsOK

\* A step that writes neither claims nor the ledger.
LEMMA MoveOnly ==
  ASSUME PullInv, PullInv', PullHistory, NEW p \in Run,
         \A q \in Run \ {p} : run'[q] = run[q] /\ pull'[q] = pull[q],
         UNCHANGED <<clock, claims, ledger, swept, slot, mtime, feed>>,
         stamp' \in {stamp, stamp + 1},
         Hand(run'[p]) \subseteq ClaimedIds \cup Hand(run[p]),
         Streams(p)' => pull'[p].delivery = stamp + 1 /\ stamp' = stamp + 1,
         p \in Live' /\ OwnDelivery(run'[p]) =>
           p \in Live /\ OwnDelivery(run[p]) /\ run'[p].req = run[p].req,
         \A m \in inbox' \ inbox : m.batch # None => swept[m.batch] >= 0,
         p \in Live' /\ run'[p].msg.batch # None => swept[run'[p].msg.batch] >= 0,
         Planned(p)', Traced(p)'
  PROVE  PullHistory'
<1>1. stamp \in Nat /\ clock \in Nat  BY DEF PullInv, StoresOK
<1>2. ClaimedIds' = ClaimedIds /\ LedgerIds' = LedgerIds /\ RegisteredIds' = RegisteredIds
  BY DEF ClaimedIds, LedgerIds, RegisteredIds
<1>3. Moves(p, {})  BY <1>1, <1>2 DEF Moves
<1> QED  BY <1>3, MoveHistory

\* What a run has in hand stays in hand, or the ledger tells of it.
LEMMA TraceMoves ==
  ASSUME NEW p \in Live, Traced(p), UNCHANGED <<slot, mtime, feed>>, ledger \subseteq ledger',
         run'[p].msg = run[p].msg, run'[p].started = run[p].started, run[p].pc # "list",
         pull'[p].errors = {} => pull[p].errors = {}, pull'[p].parts = pull[p].parts,
         \A x \in Slot : x \in pull[p].todo \/ InHand(p, x) =>
           (x \in pull[p].todo \/ InHand(p, x) \/ Told(p, x))'
  PROVE  Traced(p)'
<1> SUFFICES ASSUME ~feed.operator, run[p].msg.batch = None, pull'[p].errors = {},
                    NEW x \in Slot, Owed(run[p], x)'
             PROVE  (x \in pull[p].todo \/ InHand(p, x) \/ Told(p, x))'
  BY DEF Traced
<1>1. Owed(run[p], x)  BY DEF Owed, Quiet
<1>2. x \in pull[p].todo \/ InHand(p, x) \/ Told(p, x)  BY <1>1 DEF Traced
<1>3. Told(p, x) => Told(p, x)'  BY ToldOn
<1> QED  BY <1>2, <1>3

-------------------------------------------------------------------------------
\* The ends of a run

LEMMA HistoryFacts ==
  ASSUME PullInv, PullHistory, NEW p \in Live
  PROVE  /\ p \in Run /\ run[p] # None /\ run[p] \in PullRun /\ pull[p] \in PullState
         /\ LiveOK(run[p], pull[p], Filled, canonical)
         /\ Planned(p) /\ Traced(p) /\ KeepsToItself(p) /\ WasSwept(run[p].msg)
<1>1. p \in Run /\ LiveOK(run[p], pull[p], Filled, canonical)  BY LiveRun
<1> QED  BY <1>1, NoneAssumption DEF LiveOK, PullHistory, ResumesSwept, Live

\* A run that ends may leave its message behind.
LEMMA EndHistory ==
  ASSUME PullInv, PullInv', PullHistory, NEW p \in Live,
         run' = [run EXCEPT ![p] = None], pull' = [pull EXCEPT ![p] = NotPulling],
         inbox' \subseteq inbox \cup {[run[p].msg EXCEPT !.tries = @ + 1]},
         UNCHANGED <<clock, stamp, claims, ledger, swept, slot, mtime, feed>>
  PROVE  PullHistory'
<1> DEFINE m == run[p].msg
<1>0. p \in Run  BY DEF Live
<1>1. /\ p \in Run /\ run'[p] = None /\ p \notin Live'
      /\ \A q \in Run \ {p} : run'[q] = run[q] /\ pull'[q] = pull[q]
  BY <1>0, RunAfter DEF Live
<1>2. m \in PullMessage /\ WasSwept(m)  BY HistoryFacts DEF PullRun
<1>3. \A n \in inbox' \ inbox : n.batch # None => swept[n.batch] >= 0
  BY <1>2 DEF PullMessage, WasSwept
<1>4. Hand(run'[p]) = {} /\ ~Streams(p)'  BY <1>1 DEF Hand, Streams
<1>5. Planned(p)' /\ Traced(p)'  BY <1>1 DEF Planned, Traced
<1>6. stamp' \in {stamp, stamp + 1}  OBVIOUS
<1> HIDE DEF m
<1> QED  BY <1>1, <1>3, <1>4, <1>5, <1>6, MoveOnly

LEMMA EndsHistory ==
  ASSUME PullInv, PullInv', PullHistory, NEW p \in Run,
         \/ ~Pulling(p) /\ ClaimVanished(p) /\ UNCHANGED pullVars
         \/ EndResume(p) \/ Kill(p) \/ Finish(p)
  PROVE  PullHistory'
<1>1. p \in Live
  BY DEF ClaimVanished, EndResume, Return, Kill, Fail, At, Finish, AtNext, Pulling
<1>2. run' = [run EXCEPT ![p] = None]
  BY DEF ClaimVanished, EndResume, Return, Kill, Fail, Requeue, Finish
<1>3. pull' = [pull EXCEPT ![p] = NotPulling]
  BY <1>1, ResumeHoldsNothing DEF EndResume, Kill, pullVars, Finish
<1>4. inbox' \subseteq inbox \cup {[run[p].msg EXCEPT !.tries = @ + 1]}
  BY DEF ClaimVanished, EndResume, Return, Kill, Fail, Requeue, Finish
<1>5. UNCHANGED <<clock, stamp, claims, ledger, swept, slot, mtime, feed>>
  BY DEF ClaimVanished, EndResume, Return, Kill, Fail, Finish, background, pullVars, remote
<1> QED  BY <1>1, <1>2, <1>3, <1>4, <1>5, EndHistory

\* A run that gives a file up has met an error.
LEMMA FileHistory ==
  ASSUME PullInv, PullInv', PullHistory, NEW p \in Run,
         (\E e \in {"transient", "unexpected"} : FileFails(p, e)) \/ FileVanished(p)
  PROVE  PullHistory'
<1> DEFINE s == [run[p] EXCEPT !.pc = "pick"]
<1>1. /\ p \in Live /\ run' = [run EXCEPT ![p] = s]
      /\ \E e : pull' = [pull EXCEPT ![p] = [pull[p] EXCEPT !.errors = @ \cup {e}, !.streamed = 0]]
      /\ UNCHANGED <<clock, stamp, inbox, claims, ledger, swept, slot, mtime, feed>>
  BY DEF FileFails, FileVanished, Pulling, background, remote
<1>2. /\ p \in Run /\ run[p] \in PullRun /\ pull[p] \in PullState /\ Planned(p)
      /\ WasSwept(run[p].msg)
  BY <1>1, HistoryFacts
<1>3. PICK e : pull' = [pull EXCEPT ![p] = [pull[p] EXCEPT !.errors = @ \cup {e}, !.streamed = 0]]
  BY <1>1
<1> DEFINE h == [pull[p] EXCEPT !.errors = @ \cup {e}, !.streamed = 0]
<1>4. /\ run'[p] = s /\ pull'[p] = h
      /\ \A q \in Run \ {p} : run'[q] = run[q] /\ pull'[q] = pull[q]
  <2>1. pull' = [pull EXCEPT ![p] = h]  BY <1>3
  <2> HIDE DEF s, h
  <2> QED  BY <1>1, <1>2, <2>1, RunAfter
<1>5. /\ s.pc = "pick" /\ s.msg = run[p].msg /\ s.started = run[p].started
      /\ s.req = run[p].req /\ h.rows = pull[p].rows /\ h.errors # {}
  BY <1>2 DEF PullRun, PullState
<1> HIDE DEF s, h
<1>6. Hand(run'[p]) = {} /\ ~Streams(p)' /\ ~OwnDelivery(run'[p])
  BY <1>4, <1>5 DEF Hand, Streams, OwnDelivery, AtClaim, AtWork
<1>7. Planned(p)' /\ Traced(p)'
  BY <1>1, <1>2, <1>4, <1>5 DEF Planned, Traced, AtClaim, AtWork
<1>8. stamp' \in {stamp, stamp + 1} /\ (run'[p].msg.batch # None => swept[run'[p].msg.batch] >= 0)
  BY <1>1, <1>2, <1>4, <1>5 DEF WasSwept
<1> QED  BY <1>1, <1>2, <1>4, <1>6, <1>7, <1>8, MoveOnly

-------------------------------------------------------------------------------
\* The driver's steps

LEMMA BeginHistory ==
  ASSUME PullInv, PullInv', PullHistory, NEW p \in Run, NEW m \in inbox, Begin(p, m)
  PROVE  PullHistory'
<1> DEFINE s == Reading(p, m)
           h == [pull[p] EXCEPT !.rows = ScanFeed(clock - Lookback)]
<1>1. /\ p \notin Live /\ m.batch = None
      /\ run' = [run EXCEPT ![p] = s] /\ pull' = [pull EXCEPT ![p] = h]
      /\ inbox' \subseteq inbox
      /\ UNCHANGED <<clock, stamp, claims, ledger, swept, slot, mtime, feed>>
  BY DEF Begin, Invoked, background, remote
<1>2. /\ run'[p] = s /\ pull'[p] = h
      /\ \A q \in Run \ {p} : run'[q] = run[q] /\ pull'[q] = pull[q]
  <2> HIDE DEF s, h
  <2> QED  BY <1>1, RunAfter
<1>3. s.pc = "list" /\ s.msg = m /\ s.started = clock /\ s.kind = "none"  BY DEF Reading
<1>4. h.rows \subseteq ledger /\ h.todo = {}
  <2>1. pull[p] = NotPulling  BY <1>1 DEF Live, PullInv, RunsOK, RunOK
  <2> QED  BY <2>1 DEF NotPulling, ScanFeed
<1>5. clock <= clock  BY DEF PullInv, StoresOK
<1> HIDE DEF s, h
<1>6. Hand(run'[p]) = {} /\ ~Streams(p)' /\ ~OwnDelivery(run'[p])
  BY <1>2, <1>3 DEF Hand, Streams, OwnDelivery, AtClaim, AtWork
<1>7. Planned(p)' /\ Traced(p)'
  BY <1>1, <1>2, <1>3, <1>4, <1>5 DEF Planned, Traced, AtClaim, AtWork
<1>8. stamp' \in {stamp, stamp + 1} /\ run'[p].msg.batch = None  BY <1>1, <1>2, <1>3
<1> QED  BY <1>1, <1>2, <1>6, <1>7, <1>8, MoveOnly

\* A resume works for the claim, not for a delivery of its own.
LEMMA ResumeHistory ==
  ASSUME PullInv, PullInv', PullHistory, NEW p \in Run, NEW m \in inbox, Resume(p, m)
  PROVE  PullHistory'
<1> DEFINE item == claims[m.batch].id
           s == [Reading(p, m) EXCEPT !.pc = "claim", !.req = item, !.id = item]
<1>1. /\ p \notin Live /\ m.batch # None /\ claims[m.batch] # None
      /\ run' = [run EXCEPT ![p] = s] /\ pull' = pull
      /\ inbox' \subseteq inbox
      /\ UNCHANGED <<clock, stamp, claims, ledger, swept, slot, mtime, feed>>
  BY DEF Resume, Invoked, background, pullVars, remote
<1>2. /\ run'[p] = s /\ pull'[p] = pull[p]
      /\ \A q \in Run \ {p} : run'[q] = run[q] /\ pull'[q] = pull[q]
  <2> HIDE DEF s
  <2> QED  BY <1>1, RegisterAfter
<1>3. /\ s.pc = "claim" /\ s.msg = m /\ s.started = clock /\ s.kind = "none"
      /\ s.req = item /\ s.id = item
  BY DEF Reading
<1>4. pull[p].rows \subseteq ledger
  <2>1. pull[p] = NotPulling  BY <1>1 DEF Live, PullInv, RunsOK, RunOK
  <2> QED  BY <2>1 DEF NotPulling
<1>5. m.batch \in Content /\ swept[m.batch] >= 0
  BY <1>1 DEF PullInv, StoresOK, PullMessage, PullHistory, ResumesSwept, WasSwept
<1>6. item \in ClaimedIds /\ item.batch = m.batch
  BY <1>1, <1>5 DEF ClaimedIds, PullInv, ClaimsOK, ClaimOK
<1>7. clock <= clock  BY DEF PullInv, StoresOK
<1> HIDE DEF s, item
<1>8. Hand(run'[p]) \subseteq ClaimedIds /\ ~Streams(p)' /\ ~OwnDelivery(run'[p])
  BY <1>1, <1>2, <1>3, <1>6 DEF Hand, Streams, OwnDelivery, AtWork
<1>9. Planned(p)' /\ Traced(p)'
  BY <1>1, <1>2, <1>3, <1>4, <1>6, <1>7 DEF Planned, Traced, AtWork
<1>10. stamp' \in {stamp, stamp + 1} /\ swept[run'[p].msg.batch] >= 0  BY <1>1, <1>2, <1>3, <1>5
<1> QED  BY <1>1, <1>2, <1>8, <1>9, <1>10, MoveOnly

\* What the listing leaves out is noted in the rows the run has scanned.
LEMMA ListHistory ==
  ASSUME PullInv, PullInv', PullHistory, NEW p \in Run, List(p) PROVE PullHistory'
<1>1. PICK from \in IF feed.operator THEN {0, clock} ELSE {0},
           to \in IF feed.operator THEN {clock, clock + 1} ELSE {clock + 1} :
        LET listed == {x \in Slot : slot[x] # None /\ InWindow(mtime[x], from, to)}
            todo == Candidates(p, listed, run[p].started) IN
        pull' = [pull EXCEPT ![p].todo = todo,
                             ![p].listing = {<<x, mtime[x]>> : x \in todo},
                             ![p].parts = {q[1] : q \in {y \in parts : InWindow(y[2], from, to)}},
                             ![p].rows = {}]
  BY DEF List
<1> DEFINE listed == {x \in Slot : slot[x] # None /\ InWindow(mtime[x], from, to)}
           todo == Candidates(p, listed, run[p].started)
           listing == {<<x, mtime[x]>> : x \in todo}
           there == {q[1] : q \in {y \in parts : InWindow(y[2], from, to)}}
           s == [run[p] EXCEPT !.pc = "pick"]
           h == [pull[p] EXCEPT !.todo = todo, !.listing = listing, !.parts = there, !.rows = {}]
<1>2. p \in Live /\ run[p].pc = "list"  BY DEF List, Goto, At
<1>3. /\ run[p] \in PullRun /\ pull[p] \in PullState /\ Planned(p) /\ WasSwept(run[p].msg)
      /\ run[p].msg.batch = None
  BY <1>2, HistoryFacts DEF LiveOK
<1>4. run' = [run EXCEPT ![p] = s] /\ pull' = [pull EXCEPT ![p] = h]
  BY <1>1 DEF List, Goto, PullInv, RunsOK
<1>5. /\ UNCHANGED <<clock, stamp, inbox, claims, ledger, swept, slot, mtime, feed>>
      /\ stamp' \in {stamp, stamp + 1}
  BY DEF List, background, remote
<1>6. /\ s.pc = "pick" /\ s.msg = run[p].msg /\ s.started = run[p].started
      /\ h.rows = {} /\ h.todo = todo
  BY <1>3 DEF PullRun, PullState
<1>7. /\ run'[p] = s /\ pull'[p] = h
      /\ \A q \in Run \ {p} : run'[q] = run[q] /\ pull'[q] = pull[q]
  <2> HIDE DEF s, h
  <2> QED  BY <1>4, RunAfter
<1>8. ASSUME NEW x \in Slot, Owed(run[p], x), ~feed.operator,
             x \notin todo
      PROVE  \E r \in ledger : <<x, SizeOf[slot[x]]>> \in r.id.objects
  <2>1. x \in listed
    <3>1. mtime[x] \in Nat /\ clock \in Nat /\ run[p].started \in Nat
      BY <1>3 DEF PullInv, RemoteOK, StoresOK, PullRun
    <3>2. mtime[x] < run[p].started /\ run[p].started <= clock /\ slot[x] # None
      BY <1>2, <1>3, <1>8 DEF Owed, Planned
    <3>3. from = 0 /\ to = clock + 1  BY <1>8
    <3> QED  BY <3>1, <3>2, <3>3 DEF InWindow
  <2> HIDE DEF listed
  <2>2. <<x, SizeOf[slot[x]]>> \in Noted(p)  BY <1>8, <2>1 DEF Candidates, Owed
  <2>3. PICK r \in pull[p].rows : <<x, SizeOf[slot[x]]>> \in r.id.objects
    BY <2>2 DEF Noted, AcquiredFinal, ObservedDefective, ObjectsOf, LatestDispositions
  <2>4. r \in ledger  BY <1>2, <1>3 DEF Planned
  <2> QED  BY <2>3, <2>4
<1> HIDE DEF s, h, todo
<1>9. Hand(run'[p]) = {} /\ ~Streams(p)' /\ ~OwnDelivery(run'[p])
  BY <1>6, <1>7 DEF Hand, Streams, OwnDelivery, AtClaim, AtWork
<1>10. Planned(p)'  BY <1>2, <1>3, <1>5, <1>6, <1>7 DEF Planned, AtClaim, AtWork
<1>11. Traced(p)'
  <2> SUFFICES ASSUME ~feed.operator, NEW x \in Slot, Owed(run[p], x)'
               PROVE  (x \in pull[p].todo \/ Told(p, x))'
    BY <1>5 DEF Traced
  <2>1. Owed(run[p], x)  BY <1>5, <1>6, <1>7 DEF Owed, Quiet
  <2>2. CASE x \in todo  BY <1>6, <1>7, <2>2
  <2>3. CASE x \notin todo
    <3>1. PICK r \in ledger : <<x, SizeOf[slot[x]]>> \in r.id.objects
      BY <1>5, <1>8, <2>1, <2>3
    <3> QED  BY <1>5, <3>1 DEF Told
  <2> QED  BY <2>2, <2>3
<1>12. run'[p].msg.batch # None => swept[run'[p].msg.batch] >= 0  BY <1>3, <1>6, <1>7
<1> QED  BY <1>2, <1>5, <1>7, <1>9, <1>10, <1>11, <1>12, MoveOnly

\* The next file leaves the list and is in hand.
LEMMA PickHistory ==
  ASSUME PullInv, PullInv', PullHistory, NEW p \in Run, Pick(p) PROVE PullHistory'
<1>1. PICK y \in pull[p].todo :
        pull' = [pull EXCEPT ![p].todo = @ \ {y}, ![p].file = y,
                             ![p].bytes = BytesSoFar(p), ![p].streamed = 0,
                             ![p].delivery = stamp + 1, ![p].received = clock]
  BY DEF Pick
<1> DEFINE n == BytesSoFar(p)
           s == [run[p] EXCEPT !.pc = "stream"]
           h == [pull[p] EXCEPT !.todo = @ \ {y}, !.file = y, !.bytes = n, !.streamed = 0,
                                !.delivery = stamp + 1, !.received = clock]
<1>2. p \in Live /\ run[p].msg.batch = None /\ run[p].pc \in {"pick", "done"}
  BY DEF Pick, AtNext, Pulling
<1>3. run[p] \in PullRun /\ pull[p] \in PullState /\ Planned(p) /\ Traced(p)
  BY <1>2, HistoryFacts
<1>12. run' = [run EXCEPT ![p] = s]  BY DEF Pick
<1>13. pull' = [pull EXCEPT ![p] = h]  BY <1>1 DEF PullInv, RunsOK
<1>4. run' = [run EXCEPT ![p] = s] /\ pull' = [pull EXCEPT ![p] = h]
  <2> HIDE DEF s, h
  <2> QED  BY <1>12, <1>13
<1>5. /\ UNCHANGED <<clock, inbox, claims, ledger, swept, slot, mtime, feed>>
      /\ stamp' = stamp + 1
  BY DEF Pick, background, remote
<1>6. /\ s.pc = "stream" /\ s.msg = run[p].msg /\ s.started = run[p].started
      /\ s.kind = run[p].kind /\ h.rows = pull[p].rows /\ h.todo = pull[p].todo \ {y} /\ h.file = y
      /\ h.delivery = stamp + 1 /\ h.errors = pull[p].errors /\ h.parts = pull[p].parts
  <2> HIDE DEF n
  <2> QED  BY <1>3 DEF PullRun, PullState
<1>7. /\ run'[p] = s /\ pull'[p] = h
      /\ \A q \in Run \ {p} : run'[q] = run[q] /\ pull'[q] = pull[q]
  <2> HIDE DEF s, h
  <2> QED  BY <1>4, RunAfter
<1> HIDE DEF s, h
<1>8. Hand(run'[p]) = {} /\ ~OwnDelivery(run'[p])
  BY <1>6, <1>7 DEF Hand, OwnDelivery, AtClaim, AtWork
<1>9. Planned(p)'  BY <1>2, <1>3, <1>5, <1>6, <1>7 DEF Planned, AtClaim, AtWork
<1>10. Traced(p)'
  <2>1. \A x \in Slot : ~InHand(p, x)  BY <1>2 DEF InHand, AtClaim
  <2>2. InHand(p, y)'  BY <1>6, <1>7 DEF InHand
  <2>3. \A x \in Slot : x \in pull[p].todo => x = y \/ x \in pull'[p].todo  BY <1>6, <1>7
  <2> QED  BY <1>2, <1>3, <1>5, <1>6, <1>7, <2>1, <2>2, <2>3, TraceMoves
<1>11. run'[p].msg.batch = None  BY <1>2, <1>6, <1>7
<1> QED  BY <1>2, <1>5, <1>6, <1>7, <1>8, <1>9, <1>10, <1>11, MoveOnly

\* The delivery a file gets is the one reserved for it, or a new one.
LEMMA StreamHistory ==
  ASSUME PullInv, PullInv', PullHistory, NEW p \in Run, Stream(p) PROVE PullHistory'
<1> DEFINE c == slot[pull[p].file]
           verdict == Judged(p, c)
           id == Delivered(p, c, verdict)
           s == [run[p] EXCEPT !.pc = IF verdict = "complete" THEN "claim" ELSE "plan",
                               !.kind = IF verdict = "complete" THEN "none" ELSE verdict,
                               !.req = id, !.id = id]
<1>0. PICK n : pull' = [pull EXCEPT ![p].streamed = n]  BY DEF Stream, Streamed
<1> DEFINE h == [pull[p] EXCEPT !.streamed = n]
<1>1. p \in Live /\ run[p].pc = "stream"  BY DEF Stream, At
<1>2. /\ run[p] \in PullRun /\ pull[p] \in PullState /\ Planned(p) /\ Traced(p)
      /\ run[p].msg.batch = None
  BY <1>1, HistoryFacts DEF LiveOK
<1>3. id \in Identity /\ verdict \in {"complete", "incomplete", "unreadable"}
  BY <1>1, DeliveredTyped
<1>4. /\ run' = [run EXCEPT ![p] = s] /\ pull' = [pull EXCEPT ![p] = h]
      /\ stamp' = stamp + 1
      /\ UNCHANGED <<clock, inbox, claims, ledger, swept, slot, mtime, feed>>
  BY <1>0 DEF Stream, Streamed, background, remote
<1>5. /\ id.delivery \in {pull[p].delivery, stamp + 1} /\ id.batch = c
      /\ id.key = feed.key[<<pull[p].file, c>>] /\ id.objects = Objects(p, pull[p].file, c)
  BY DEF Delivered
<1>19. \/ <<pull[p].file, SizeOf[c]>> \in Objects(p, pull[p].file, c)
       \/ feed.mode = "manifest" /\ verdict # "complete"
  <2>1. CASE feed.mode # "manifest"  BY <2>1 DEF Objects
  <2>2. CASE feed.mode = "manifest" /\ verdict = "complete"  BY <2>2 DEF Objects
  <2> QED  BY <2>1, <2>2
<1>6. /\ h.rows = pull[p].rows /\ h.todo = pull[p].todo /\ h.file = pull[p].file
      /\ h.errors = pull[p].errors /\ h.parts = pull[p].parts
  BY <1>2 DEF PullState
<1>20. c = slot[pull[p].file] /\ verdict = Judged(p, c)  OBVIOUS
<1> HIDE DEF c, verdict, id, h
<1>7. /\ s.pc \in {"claim", "plan"} /\ s.kind \in {"none", "incomplete", "unreadable"}
      /\ s.pc = "plan" => s.kind = verdict /\ verdict # "complete"
      /\ s.pc = "claim" => verdict = "complete"
      /\ s.msg = run[p].msg /\ s.started = run[p].started /\ s.req = id /\ s.id = id
  BY <1>2, <1>3 DEF PullRun
<1> HIDE DEF s
<1>8. /\ run'[p] = s /\ pull'[p] = h
      /\ \A q \in Run \ {p} : run'[q] = run[q] /\ pull'[q] = pull[q]
  BY <1>4, RunAfter
<1>9. stamp \in Nat /\ clock \in Nat /\ \A x \in Known : x.delivery \in Nat
  BY HandsTyped DEF Identity
<1>10. Unused(p, id)
  <2>1. CASE id.delivery = pull[p].delivery
    BY <1>1, <2>1 DEF Unused, PullHistory, MintedOnce, Streams
  <2>2. CASE id.delivery = stamp + 1
    <3>1. ASSUME NEW q \in Run, Streams(q) PROVE pull[q].delivery # stamp + 1
      <4>1. pull[q].delivery <= stamp /\ pull[q].delivery \in Nat
        BY <3>1, LiveRun DEF PullHistory, MintedOnce, Streams, LiveOK, PullState
      <4> QED  BY <1>9, <4>1
    <3> QED  BY <1>9, <2>2, <3>1 DEF Unused, PullHistory, MintedOnce
  <2> QED  BY <1>5, <2>1, <2>2
<1>11. id.delivery <= stamp'
  <2>1. pull[p].delivery <= stamp /\ pull[p].delivery \in Nat
    BY <1>1, <1>2 DEF PullHistory, MintedOnce, Streams, PullState
  <2> QED  BY <1>4, <1>5, <1>9, <2>1
<1>12. ClaimedIds' = ClaimedIds /\ LedgerIds' = LedgerIds /\ RegisteredIds' = RegisteredIds
  BY <1>4 DEF ClaimedIds, LedgerIds, RegisteredIds
<1>13. Hand(run'[p]) \subseteq {id} /\ ~Streams(p)' /\ run'[p].req \in {id}
  BY <1>7, <1>8 DEF Hand, Streams
<1>14. Moves(p, {id})
  BY <1>3, <1>4, <1>8, <1>9, <1>10, <1>11, <1>12, <1>13 DEF Moves
<1>15. Planned(p)'
  BY <1>1, <1>2, <1>4, <1>6, <1>7, <1>8 DEF Planned
<1>16. Traced(p)'
  <2>1. \A x \in Slot : InHand(p, x) => x = pull[p].file
    BY <1>1 DEF InHand, AtClaim
  <2>2. ASSUME NEW x \in Slot, x = pull[p].file PROVE InHand(p, x)'
    <3>1. c = slot'[x] /\ id.batch = slot'[x]  BY <1>4, <1>5, <1>20, <2>2
    <3>2. CASE s.pc = "claim"
      <4>1. <<x, SizeOf[slot'[x]]>> \in id.objects
        BY <1>5, <1>7, <1>19, <2>2, <3>1, <3>2
      <4> QED  BY <1>7, <1>8, <3>1, <3>2, <4>1 DEF InHand, AtClaim
    <3>3. CASE s.pc = "plan"
      <4>1. PICK i, d : i = id /\ d = verdict  OBVIOUS
      <4>2. Tells(p, i, d, x)
        BY <1>4, <1>5, <1>19, <1>20, <2>2, <3>1, <4>1, <1>7, <3>3 DEF Tells
      <4>3. Tells(p, i, d, x)'  BY <1>4, <1>6, <1>8, <4>2, TellsOn
      <4>4. Outcome(s) = d  BY <1>3, <1>7, <3>3, <4>1 DEF Outcome, Winner
      <4>5. Outcome(run[p])' = d /\ run'[p].id = i  BY <1>7, <1>8, <4>1, <4>4 DEF Outcome, Winner
      <4> QED  BY <1>7, <1>8, <3>3, <4>3, <4>5 DEF InHand, Tells
    <3> QED  BY <1>7, <3>2, <3>3
  <2> QED  BY <1>1, <1>2, <1>4, <1>6, <1>7, <1>8, <2>1, <2>2, TraceMoves
<1>17. run'[p].msg.batch = None /\ ledger' \ ledger = {} /\ inbox' \ inbox = {}
  BY <1>2, <1>4, <1>7, <1>8
<1>18. UNCHANGED <<swept, slot, mtime, feed>>  BY <1>4
<1> QED  BY <1>14, <1>15, <1>16, <1>17, <1>18, MoveHistory

-------------------------------------------------------------------------------
\* The steps of a registration

\* A step of a registration keeps the message, the request and the start.
LEMMA RegisterTraced ==
  ASSUME NEW p \in Live, Traced(p), UNCHANGED <<slot, mtime, feed>>, ledger \subseteq ledger',
         run'[p].msg = run[p].msg, run'[p].started = run[p].started, run[p].pc # "list",
         pull'[p] = pull[p],
         \A x \in Slot : InHand(p, x) => InHand(p, x)' \/ Told(p, x)'
  PROVE  Traced(p)'
  BY TraceMoves

LEMMA ClaimLoseHistory ==
  ASSUME PullInv, PullInv', PullHistory, NEW p \in Run, ClaimLose(p), UNCHANGED pullVars
  PROVE  PullHistory'
<1> DEFINE s == [run[p] EXCEPT !.pc = "read", !.at = clock]
<1>1. p \in Live /\ run[p].pc = "claim"  BY DEF ClaimLose, At
<1>2. run[p] \in PullRun /\ Planned(p) /\ Traced(p) /\ WasSwept(run[p].msg) /\ run[p] # None
  BY <1>1, HistoryFacts
<1>3. /\ run' = [run EXCEPT ![p] = s] /\ UNCHANGED pull
      /\ UNCHANGED <<clock, stamp, inbox, claims, ledger, swept, slot, mtime, feed>>
      /\ stamp' \in {stamp, stamp + 1}
  BY DEF ClaimLose, background, pullVars, remote
<1>4. /\ s.pc = "read" /\ s.msg = run[p].msg /\ s.started = run[p].started
      /\ s.kind = run[p].kind /\ s.req = run[p].req /\ s.id = run[p].id
  BY <1>2 DEF PullRun
<1> HIDE DEF s
<1>5. /\ run'[p] = s /\ pull'[p] = pull[p]
      /\ \A q \in Run \ {p} : run'[q] = run[q] /\ pull'[q] = pull[q]
  BY <1>3, RegisterAfter
<1>6. /\ Hand(run'[p]) \subseteq Hand(run[p]) /\ ~Streams(p)'
      /\ OwnDelivery(run'[p]) => OwnDelivery(run[p])
  BY <1>1, <1>2, <1>4, <1>5 DEF Hand, Streams, OwnDelivery, AtClaim, AtWork
<1>7. Planned(p)'  BY <1>1, <1>2, <1>3, <1>4, <1>5 DEF Planned, AtClaim, AtWork
<1>8. Traced(p)'
  <2>1. \A x \in Slot : InHand(p, x) => InHand(p, x)'
    BY <1>1, <1>3, <1>4, <1>5, InHandOn DEF AtClaim
  <2> QED  BY <1>1, <1>2, <1>3, <1>4, <1>5, <2>1, RegisterTraced
<1>9. run'[p].msg.batch # None => swept[run'[p].msg.batch] >= 0  BY <1>2, <1>4, <1>5 DEF WasSwept
<1> QED  BY <1>1, <1>3, <1>4, <1>5, <1>6, <1>7, <1>8, <1>9, MoveOnly

\* A loser notes its own delivery.
LEMMA LostHistory ==
  ASSUME PullInv, PullInv', PullHistory, NEW p \in Live, run[p].pc \in {"read", "take"},
         Lost(p), UNCHANGED <<clock, stamp, inbox, claims, ledger, swept, slot, pullVars>>
  PROVE  PullHistory'
<1> DEFINE s == [run[p] EXCEPT !.pc = "plan", !.kind = "LOST", !.id = run[p].req]
<1>1. /\ run[p] \in PullRun /\ Planned(p) /\ Traced(p) /\ WasSwept(run[p].msg)
      /\ run[p] # None /\ p \in Run
  BY HistoryFacts
<1>2. /\ run' = [run EXCEPT ![p] = s] /\ UNCHANGED <<pull, mtime, feed>>
      /\ stamp' \in {stamp, stamp + 1}
  BY DEF Lost, pullVars, remote
<1>3. /\ s.pc = "plan" /\ s.msg = run[p].msg /\ s.started = run[p].started
      /\ s.kind = "LOST" /\ s.req = run[p].req /\ s.id = run[p].req
  BY <1>1 DEF PullRun
<1> HIDE DEF s
<1>4. /\ run'[p] = s /\ pull'[p] = pull[p]
      /\ \A q \in Run \ {p} : run'[q] = run[q] /\ pull'[q] = pull[q]
  BY <1>1, <1>2, RegisterAfter
<1>5. /\ Hand(run'[p]) \subseteq Hand(run[p]) /\ ~Streams(p)'
      /\ OwnDelivery(run'[p]) => OwnDelivery(run[p])
  BY <1>1, <1>3, <1>4 DEF Hand, Streams, OwnDelivery, AtClaim, AtWork
<1>6. Planned(p)'  BY <1>1, <1>2, <1>3, <1>4 DEF Planned, AtClaim, AtWork
<1>7. Traced(p)'
  <2>1. \A x \in Slot : InHand(p, x) => InHand(p, x)'
    BY <1>3, <1>4 DEF InHand, AtClaim, Tells
  <2> QED  BY <1>1, <1>2, <1>3, <1>4, <2>1, RegisterTraced
<1>8. run'[p].msg.batch # None => swept[run'[p].msg.batch] >= 0  BY <1>1, <1>3, <1>4 DEF WasSwept
<1> QED  BY <1>1, <1>2, <1>3, <1>4, <1>5, <1>6, <1>7, <1>8, MoveOnly

LEMMA ClaimReadHistory ==
  ASSUME PullInv, PullInv', PullHistory, NEW p \in Run, ClaimRead(p), UNCHANGED pullVars
  PROVE  PullHistory'
<1> DEFINE c == claims[run[p].req.batch]
           s == [run[p] EXCEPT !.pc = "take", !.id = c.id, !.owner = c.owner]
<1>1. /\ p \in Live /\ run[p].pc = "read" /\ c # None
      /\ UNCHANGED <<clock, stamp, inbox, claims, ledger, swept, slot, mtime, feed, pull>>
      /\ stamp' \in {stamp, stamp + 1}
  BY DEF ClaimRead, At, background, pullVars, remote
<1>2. CASE Lost(p)  BY <1>1, <1>2, LostHistory
<1>3. CASE run' = [run EXCEPT ![p] = s]
  <2>1. /\ run[p] \in PullRun /\ Planned(p) /\ Traced(p) /\ WasSwept(run[p].msg)
        /\ run[p] # None /\ run[p].req.batch \in Content
    BY <1>1, HistoryFacts DEF LiveOK, Identity
  <2>2. c.id \in ClaimedIds /\ c.id.batch = run[p].req.batch
    BY <1>1, <2>1 DEF ClaimedIds, PullInv, ClaimsOK, ClaimOK
  <2>3. /\ s.pc = "take" /\ s.msg = run[p].msg /\ s.started = run[p].started
        /\ s.kind = run[p].kind /\ s.req = run[p].req /\ s.id = c.id
    BY <2>1 DEF PullRun
  <2> HIDE DEF s, c
  <2>4. /\ run'[p] = s /\ pull'[p] = pull[p]
        /\ \A q \in Run \ {p} : run'[q] = run[q] /\ pull'[q] = pull[q]
    BY <1>1, <1>3, RegisterAfter
  <2>5. /\ Hand(run'[p]) \subseteq ClaimedIds \cup Hand(run[p]) /\ ~Streams(p)'
        /\ OwnDelivery(run'[p]) => OwnDelivery(run[p])
    BY <1>1, <2>1, <2>2, <2>3, <2>4 DEF Hand, Streams, OwnDelivery, AtClaim, AtWork
  <2>6. Planned(p)'  BY <1>1, <2>1, <2>2, <2>3, <2>4 DEF Planned, AtClaim, AtWork
  <2>7. Traced(p)'
    <3>1. \A x \in Slot : InHand(p, x) => InHand(p, x)'
      BY <1>1, <2>3, <2>4 DEF InHand, AtClaim
    <3> QED  BY <1>1, <2>1, <2>3, <2>4, <3>1, RegisterTraced
  <2>8. run'[p].msg.batch # None => swept[run'[p].msg.batch] >= 0
    BY <2>1, <2>3, <2>4 DEF WasSwept
  <2> QED  BY <1>1, <2>3, <2>4, <2>5, <2>6, <2>7, <2>8, MoveOnly
<1> QED  BY <1>2, <1>3 DEF ClaimRead

\* The winner's delivery becomes the claim's; a taker works for the claim's.
LEMMA WinHistory ==
  ASSUME PullInv, PullInv', PullHistory, NEW p \in Live, NEW s,
         run' = [run EXCEPT ![p] = s], UNCHANGED pull,
         run[p].pc \in {"claim", "take"}, s.pc = "plan", s.kind \in {"WON", "TAKEN_OVER"},
         s.msg = run[p].msg, s.started = run[p].started, s.req = run[p].req,
         s.id \in Hand(run[p]), s.id.batch = run[p].req.batch,
         ClaimedIds' \subseteq ClaimedIds \cup {s.id},
         UNCHANGED <<clock, stamp, inbox, ledger, swept, slot, mtime, feed>>
  PROVE  PullHistory'
<1>1. /\ run[p] \in PullRun /\ Planned(p) /\ Traced(p) /\ WasSwept(run[p].msg)
      /\ run[p] # None /\ p \in Run
  BY HistoryFacts
<1>2. /\ run'[p] = s /\ pull'[p] = pull[p]
      /\ \A q \in Run \ {p} : run'[q] = run[q] /\ pull'[q] = pull[q]
  BY <1>1, RegisterAfter
<1>3. /\ Hand(run'[p]) \subseteq Hand(run[p]) /\ ~Streams(p)' /\ ~OwnDelivery(run'[p])
  BY <1>1, <1>2 DEF Hand, Streams, OwnDelivery, AtClaim, AtWork
<1>4. LedgerIds' = LedgerIds /\ RegisteredIds' = RegisteredIds  BY DEF LedgerIds, RegisteredIds
<1>5. stamp \in Nat /\ clock \in Nat  BY DEF PullInv, StoresOK
<1>6. Moves(p, {})  BY <1>2, <1>3, <1>4, <1>5 DEF Moves
<1>7. Planned(p)'  BY <1>1, <1>2 DEF Planned, AtClaim, AtWork
<1>8. Traced(p)'
  <2>1. \A x \in Slot : InHand(p, x) => InHand(p, x)'
    BY <1>2 DEF InHand, AtClaim, Winner, Outcome, Tells
  <2> QED  BY <1>1, <1>2, <2>1, RegisterTraced
<1>9. run'[p].msg.batch # None => swept[run'[p].msg.batch] >= 0  BY <1>1, <1>2 DEF WasSwept
<1>10. ledger' \ ledger = {} /\ inbox' \ inbox = {}  OBVIOUS
<1> QED  BY <1>1, <1>6, <1>7, <1>8, <1>9, <1>10, MoveHistory

LEMMA ClaimWinHistory ==
  ASSUME PullInv, PullInv', PullHistory, NEW p \in Run, ClaimWin(p), UNCHANGED pullVars
  PROVE  PullHistory'
<1> DEFINE b == run[p].req.batch
           s == [run[p] EXCEPT !.pc = "plan", !.kind = "WON", !.id = run[p].req]
           c == [id |-> run[p].req, owner |-> run[p].msg.rid, status |-> "in_progress",
                 claimedAt |-> clock, expires |-> clock + ClaimTTL]
<1>1. p \in Live /\ run[p].pc = "claim"  BY DEF ClaimWin, At
<1>2. /\ run[p] \in PullRun /\ run[p] # None  BY <1>1, HistoryFacts
<1>3. /\ run' = [run EXCEPT ![p] = s] /\ claims' = [claims EXCEPT ![b] = c] /\ UNCHANGED pull
      /\ UNCHANGED <<clock, stamp, inbox, ledger, swept, slot, mtime, feed>>
  BY DEF ClaimWin, background, pullVars, remote
<1>4. /\ s.pc = "plan" /\ s.kind = "WON" /\ s.msg = run[p].msg /\ s.started = run[p].started
      /\ s.req = run[p].req /\ s.id = run[p].req
  BY <1>2 DEF PullRun
<1>5. ClaimedIds' \subseteq ClaimedIds \cup {run[p].req}
  <2>1. c.id = run[p].req  OBVIOUS
  <2> HIDE DEF c, b, s
  <2>2. \A d \in Content : claims'[d] = claims[d] \/ claims'[d] = c
    BY <1>3 DEF PullInv, ClaimsOK
  <2> QED  BY <2>1, <2>2 DEF ClaimedIds
<1>6. run[p].req \in Hand(run[p])  BY <1>1, <1>2 DEF Hand, AtClaim
<1> HIDE DEF s
<1> QED  BY <1>1, <1>3, <1>4, <1>5, <1>6, WinHistory

LEMMA ClaimTakeHistory ==
  ASSUME PullInv, PullInv', PullHistory, NEW p \in Run, ClaimTake(p), UNCHANGED pullVars
  PROVE  PullHistory'
<1> DEFINE b == run[p].req.batch
           s == [run[p] EXCEPT !.pc = "plan", !.kind = "TAKEN_OVER"]
           c == [claims[b] EXCEPT !.owner = run[p].msg.rid, !.claimedAt = run[p].at]
<1>1. /\ p \in Live /\ run[p].pc = "take"
      /\ UNCHANGED <<clock, stamp, inbox, ledger, swept, slot, mtime, feed, pull>>
  BY DEF ClaimTake, At, background, pullVars, remote
<1>2. CASE ~OwnerUnchanged(p)
  <2>1. Lost(p) /\ claims' = claims  BY <1>2 DEF ClaimTake
  <2> QED  BY <1>1, <2>1, LostHistory
<1>3. CASE OwnerUnchanged(p)
  <2>1. run' = [run EXCEPT ![p] = s] /\ claims' = [claims EXCEPT ![b] = c]
    BY <1>3 DEF ClaimTake
  <2>2. /\ run[p] \in PullRun /\ run[p] # None /\ Planned(p) /\ run[p].req.batch \in Content
    BY <1>1, HistoryFacts DEF LiveOK, Identity
  <2>3. /\ s.pc = "plan" /\ s.kind = "TAKEN_OVER" /\ s.msg = run[p].msg
        /\ s.started = run[p].started /\ s.req = run[p].req /\ s.id = run[p].id
    BY <2>2 DEF PullRun
  <2>4. s.id \in Hand(run[p]) /\ s.id.batch = run[p].req.batch
    BY <1>1, <2>2, <2>3 DEF Hand, Planned, AtClaim
  <2>5. ClaimedIds' \subseteq ClaimedIds
    <3>1. claims[b] # None /\ claims[b] \in Claim
      BY <1>3, <2>2 DEF OwnerUnchanged, PullInv, ClaimsOK, ClaimOK
    <3>2. c.id = claims[b].id  BY <3>1 DEF Claim
    <3> HIDE DEF c, s
    <3>3. \A d \in Content : claims'[d] = claims[d] \/ (d = b /\ claims'[d] = c)
      BY <2>1, <2>2 DEF PullInv, ClaimsOK
    <3> QED  BY <2>2, <3>1, <3>2, <3>3 DEF ClaimedIds
  <2> HIDE DEF s
  <2> QED  BY <1>1, <2>1, <2>3, <2>4, <2>5, WinHistory
<1> QED  BY <1>2, <1>3

\* The rows of a plan are stamped together; the winner registers, the loser notes
\* a duplicate, and a defective file goes without a row only when it has one.
NotedAlready(s) ==
  \E r \in ledger : /\ r.disp = Outcome(s) /\ r.disp # "registered"
                    /\ r.id.key = s.id.key /\ r.id.objects = s.id.objects

LEMMA PlannedRowsKnown ==
  ASSUME PullInv, NEW p \in Live, run[p].pc = "plan"
  PROVE  /\ \A r \in PlannedRows(p) :
              /\ r.recorded = stamp + 1
              /\ r.id = run[p].id \/ r.id \in LedgerIds
              /\ r.disp = "registered" => r.id = run[p].id /\ Winner(run[p])
              /\ r.disp = "duplicate" => r.id = run[p].id /\ run[p].kind = "LOST"
         /\ PlannedRows(p) # {} =>
              \E r \in PlannedRows(p) : r.id = run[p].id /\ r.disp = Outcome(run[p])
         /\ PlannedRows(p) = {} => ~Winner(run[p]) /\ NotedAlready(run[p])
<1>1. run[p].kind \in {"WON", "TAKEN_OVER", "LOST", "incomplete", "unreadable"}
  BY LiveRun DEF LiveOK, PullRun
<1>2. \A r \in Corrected(run[p].id) : r \in ledger /\ r \in Row
  BY DEF Corrected, LivePrior, RegisteredDeliveries, LatestDispositions, PullInv, StoresOK
<1>3. CASE Winner(run[p])
  <2> DEFINE new == NewRow(run[p].id, "registered", {r.id.delivery : r \in Corrected(run[p].id)})
             old == {Superseded(r) : r \in Corrected(run[p].id)}
  <2>1. PlannedRows(p) = {new} \cup old  BY <1>3 DEF PlannedRows, RegistrationRows, Winner
  <2>2. new.id = run[p].id /\ new.disp = "registered" /\ new.recorded = stamp + 1  BY DEF NewRow
  <2>3. ASSUME NEW q \in old
        PROVE  q.recorded = stamp + 1 /\ q.disp = "superseded" /\ q.id \in LedgerIds
    <3>1. PICK r \in Corrected(run[p].id) : q = Superseded(r)  BY <2>3
    <3>2. r \in ledger /\ r \in Row  BY <1>2
    <3>3. q.id = r.id /\ q.recorded = stamp + 1 /\ q.disp = "superseded"
      BY <3>1, <3>2 DEF Superseded, Row
    <3> QED  BY <3>2, <3>3 DEF LedgerIds
  <2> HIDE DEF new, old
  <2> QED  BY <1>3, <2>1, <2>2, <2>3 DEF Outcome
<1>4. CASE run[p].kind = "LOST"
  <2> DEFINE new == NewRow(run[p].id, "duplicate", {})
  <2>1. PlannedRows(p) = {new} /\ ~Winner(run[p])  BY <1>4 DEF PlannedRows, Winner
  <2>2. new.id = run[p].id /\ new.disp = "duplicate" /\ new.recorded = stamp + 1  BY DEF NewRow
  <2> HIDE DEF new
  <2> QED  BY <1>4, <2>1, <2>2 DEF Outcome
<1>5. CASE run[p].kind \in {"incomplete", "unreadable"}
  <2>1. PlannedRows(p) = IF AlreadyNoted(run[p].id, run[p].kind) THEN {}
                         ELSE {NewRow(run[p].id, run[p].kind, {})}
    BY <1>5 DEF PlannedRows
  <2>2. CASE AlreadyNoted(run[p].id, run[p].kind)
    <3>1. Outcome(run[p]) = run[p].kind /\ ~Winner(run[p]) /\ run[p].kind # "registered"
      BY <1>5 DEF Outcome, Winner
    <3>2. NotedAlready(run[p])
      BY <2>2, <3>1 DEF NotedAlready, AlreadyNoted, LatestOfKey, LatestDispositions
    <3> QED  BY <2>1, <2>2, <3>1, <3>2
  <2>3. CASE ~AlreadyNoted(run[p].id, run[p].kind)
    <3> DEFINE new == NewRow(run[p].id, run[p].kind, {})
    <3>1. PlannedRows(p) = {new} /\ ~Winner(run[p])  BY <1>5, <2>1, <2>3 DEF Winner
    <3>2. new.id = run[p].id /\ new.disp = run[p].kind /\ new.recorded = stamp + 1  BY DEF NewRow
    <3> HIDE DEF new
    <3> QED  BY <1>5, <3>1, <3>2 DEF Outcome
  <2> QED  BY <2>2, <2>3
<1> QED  BY <1>1, <1>3, <1>4, <1>5 DEF Winner

LEMMA PlanHistory ==
  ASSUME PullInv, PullInv', PullHistory, NEW p \in Run, Plan(p), UNCHANGED pullVars
  PROVE  PullHistory'
<1> DEFINE rows == PlannedRows(p)
           s == [run[p] EXCEPT !.rows = rows, !.pc = AfterPlan(p)]
<1>1. p \in Live /\ run[p].pc = "plan"  BY DEF Plan, At
<1>2. /\ run[p] \in PullRun /\ Planned(p) /\ Traced(p) /\ WasSwept(run[p].msg)
      /\ run[p] # None
  BY <1>1, HistoryFacts
<1>3. /\ run' = [run EXCEPT ![p] = s] /\ UNCHANGED pull /\ stamp' = stamp + 1
      /\ UNCHANGED <<clock, inbox, claims, ledger, swept, slot, mtime, feed>>
  BY DEF Plan, background, pullVars, remote
<1>4. IF Winner(run[p]) THEN AfterPlan(p) = "copy"
      ELSE IF rows = {} THEN AfterPlan(p) = "done" ELSE AfterPlan(p) = "append"
  <2>1. CASE Winner(run[p])
    <3>1. rows # {}  BY <1>1, <2>1, PlannedRowsKnown
    <3> QED  BY <2>1, <3>1 DEF AfterPlan, Winner
  <2>2. CASE ~Winner(run[p])  BY <2>2 DEF AfterPlan, Winner
  <2> QED  BY <2>1, <2>2
<1>5. /\ \A r \in rows :
              /\ r.recorded = stamp + 1
              /\ r.id = run[p].id \/ r.id \in LedgerIds
              /\ r.disp = "registered" => r.id = run[p].id /\ Winner(run[p])
              /\ r.disp = "duplicate" => r.id = run[p].id /\ run[p].kind = "LOST"
      /\ rows # {} => \E r \in rows : r.id = run[p].id /\ r.disp = Outcome(run[p])
      /\ rows = {} => ~Winner(run[p]) /\ NotedAlready(run[p])
  BY <1>1, PlannedRowsKnown
<1> HIDE DEF rows
<1>6. /\ s.pc = AfterPlan(p) /\ s.msg = run[p].msg /\ s.started = run[p].started
      /\ s.kind = run[p].kind /\ s.req = run[p].req /\ s.id = run[p].id /\ s.rows = rows
  BY <1>2 DEF PullRun
<1> HIDE DEF s
<1>7. /\ run'[p] = s /\ pull'[p] = pull[p]
      /\ \A q \in Run \ {p} : run'[q] = run[q] /\ pull'[q] = pull[q]
  BY <1>3, RegisterAfter
<1>8. /\ Hand(run'[p]) \subseteq Hand(run[p]) /\ ~Streams(p)'
      /\ OwnDelivery(run'[p]) => OwnDelivery(run[p])
  BY <1>1, <1>2, <1>4, <1>6, <1>7 DEF Hand, Streams, OwnDelivery, AtClaim, AtWork
<1>9. s.pc \in {"copy", "append"} => PlanOK(run[p])'
  <2>1. stamp \in Nat /\ LedgerIds' = LedgerIds  BY <1>3 DEF PullInv, StoresOK, LedgerIds
  <2>2. stamp + 1 <= stamp + 1  BY <2>1
  <2>3. s.pc \in {"copy", "append"} => rows # {}  BY <1>4, <1>5, <1>6
  <2> QED  BY <1>3, <1>5, <1>6, <1>7, <2>1, <2>2, <2>3 DEF PlanOK, Winner, Outcome
<1>10. Planned(p)'
  <2>1. s.pc = "copy" => s.kind # "LOST"  BY <1>4, <1>6 DEF Winner
  <2> QED  BY <1>1, <1>2, <1>3, <1>4, <1>6, <1>7, <1>9, <2>1 DEF Planned, AtClaim, AtWork
<1>11. Traced(p)'
  <2> SUFFICES ASSUME NEW x \in Slot, InHand(p, x)
               PROVE  InHand(p, x)' \/ Told(p, x)'
    BY <1>1, <1>2, <1>3, <1>6, <1>7, RegisterTraced
  <2>1. Tells(p, run[p].id, Outcome(run[p]), x)  BY <1>1 DEF InHand, AtClaim
  <2>2. CASE s.pc \in {"copy", "append"}
    BY <1>1, <1>3, <1>6, <1>7, <2>2, InHandOn
  <2>3. CASE s.pc = "done"
    <3>1. NotedAlready(run[p])  BY <1>4, <1>5, <1>6, <2>3
    <3>2. PICK r \in ledger : /\ r.disp = Outcome(run[p]) /\ r.disp # "registered"
                              /\ r.id.key = run[p].id.key /\ r.id.objects = run[p].id.objects
      BY <3>1 DEF NotedAlready
    <3>3. Tells(p, r.id, r.disp, x)  BY <2>1, <3>2 DEF Tells
    <3>4. Told(p, x)  BY <3>3, TellingRow
    <3> QED  BY <1>3, <1>7, <3>4, ToldOn
  <2> QED  BY <1>4, <1>6, <2>2, <2>3
<1>12. stamp' \in {stamp, stamp + 1} /\ run'[p].req = run[p].req /\ (run'[p].msg.batch # None => swept[run'[p].msg.batch] >= 0)
       /\ inbox' \ inbox = {}
  BY <1>2, <1>3, <1>6, <1>7 DEF WasSwept
<1> QED  BY <1>1, <1>3, <1>7, <1>8, <1>10, <1>11, <1>12, MoveOnly

\* A plan's loser, once it is carried out, knows of no other use of its delivery
\* but a resume's.
LEMMA AppendHistory ==
  ASSUME PullInv, PullInv', PullHistory, NEW p \in Run, AppendRows(p), UNCHANGED pullVars
  PROVE  PullHistory'
<1> DEFINE next == IF run[p].kind \in {"WON", "TAKEN_OVER"} THEN "emit" ELSE "done"
           s == [run[p] EXCEPT !.pc = next]
           id == run[p].id
<1>1. p \in Live /\ run[p].pc = "append"  BY DEF AppendRows, Goto, At
<1>2. /\ run[p] \in PullRun /\ Planned(p) /\ Traced(p) /\ WasSwept(run[p].msg)
      /\ run[p] # None /\ KeepsToItself(p)
  BY <1>1, HistoryFacts
<1>3. /\ run' = [run EXCEPT ![p] = s] /\ UNCHANGED pull /\ ledger' = ledger \cup run[p].rows
      /\ UNCHANGED <<clock, stamp, inbox, claims, swept, slot, mtime, feed>>
  BY DEF AppendRows, Goto, background, pullVars, remote
<1>4. /\ s.pc = next /\ s.msg = run[p].msg /\ s.started = run[p].started
      /\ s.kind = run[p].kind /\ s.req = run[p].req /\ s.id = run[p].id /\ s.rows = run[p].rows
  BY <1>2 DEF PullRun
<1>5. next \in {"emit", "done"} /\ (next = "emit" <=> Winner(run[p]))  BY DEF Winner
<1> HIDE DEF s, next
<1>6. /\ run'[p] = s /\ pull'[p] = pull[p]
      /\ \A q \in Run \ {p} : run'[q] = run[q] /\ pull'[q] = pull[q]
  BY <1>3, RegisterAfter
<1>7. PlanOK(run[p]) /\ id \in Hand(run[p])  BY <1>1, <1>2 DEF Planned, Hand, AtWork
<1>8. /\ ClaimedIds' = ClaimedIds /\ LedgerIds' \subseteq LedgerIds \cup {id}
      /\ RegisteredIds' \subseteq RegisteredIds \cup {id}
      /\ ~Winner(run[p]) => RegisteredIds' \subseteq RegisteredIds
  <2>1. ClaimedIds' = ClaimedIds  BY <1>3 DEF ClaimedIds
  <2>2. LedgerIds' \subseteq LedgerIds \cup {id}  BY <1>3, <1>7 DEF LedgerIds, PlanOK
  <2>3. \A r \in run[p].rows : r.disp = "registered" => r.id = id /\ Winner(run[p])
    BY <1>7 DEF PlanOK
  <2>4. RegisteredIds' \subseteq RegisteredIds \cup {id}  BY <1>3, <2>3 DEF RegisteredIds
  <2>5. ~Winner(run[p]) => RegisteredIds' \subseteq RegisteredIds  BY <1>3, <2>3 DEF RegisteredIds
  <2> QED  BY <2>1, <2>2, <2>4, <2>5
<1>9. /\ Hand(run'[p]) \subseteq Hand(run[p]) /\ ~Streams(p)' /\ ~OwnDelivery(run'[p])
      /\ ~Winner(run[p]) => Hand(run'[p]) = {}
  BY <1>1, <1>2, <1>4, <1>5, <1>6 DEF Hand, Streams, OwnDelivery, AtClaim, AtWork, Winner
<1>10. Moves(p, {})
  <2>1. stamp \in Nat /\ clock \in Nat  BY DEF PullInv, StoresOK
  <2> QED  BY <1>3, <1>6, <1>7, <1>8, <1>9, <2>1 DEF Moves
<1>11. Planned(p)'
  <2>1. pull[p].rows \subseteq ledger'  BY <1>1, <1>2, <1>3 DEF Planned
  <2> QED  BY <1>1, <1>2, <1>3, <1>4, <1>5, <1>6, <2>1 DEF Planned, AtClaim, AtWork, Winner
<1>12. Traced(p)'
  <2> SUFFICES ASSUME NEW x \in Slot, InHand(p, x) PROVE Told(p, x)'
    BY <1>1, <1>2, <1>3, <1>4, <1>6, RegisterTraced
  <2>1. PICK r \in run[p].rows : r.id = id /\ r.disp = Outcome(run[p])
    BY <1>7 DEF PlanOK
  <2>2. Tells(p, r.id, r.disp, x)  BY <1>1, <2>1 DEF InHand, AtClaim
  <2>3. Tells(p, r.id, r.disp, x)'  BY <1>3, <1>6, <2>2, TellsOn
  <2>4. r \in ledger'  BY <1>3
  <2> QED  BY <2>3, <2>4 DEF Told, Tells
<1>13. ASSUME NEW r \in ledger' \ ledger PROVE r.recorded <= stamp' /\ NotedApart(r)'
  <2>1. r \in run[p].rows /\ r.recorded <= stamp'  BY <1>3, <1>7, <1>13 DEF PlanOK
  <2> SUFFICES ASSUME r.disp = "duplicate",
                      NEW x \in (ClaimedIds \cup RegisteredIds \cup Hands(Run))',
                      x.delivery = r.id.delivery
               PROVE  swept[x.batch] >= 0
    BY <1>3, <2>1 DEF NotedApart
  <2>2. r.id = id /\ run[p].kind = "LOST" /\ id = run[p].req
    BY <1>1, <1>2, <1>7, <2>1 DEF PlanOK, Planned, AtWork
  <2>3. x \in KnownBesides(p)
    <3>1. ~Winner(run[p])  BY <2>2 DEF Winner
    <3>2. Hands(Run)' \subseteq Hands(Run \ {p})
      <4>1. \A q \in Run : Hand(run'[q]) \subseteq IF q = p THEN {} ELSE Hand(run[q])
        BY <1>6, <1>9, <3>1
      <4> QED  BY <4>1 DEF Hands
    <3>3. RegisteredIds \subseteq LedgerIds  BY DEF RegisteredIds, LedgerIds
    <3> QED  BY <1>8, <3>1, <3>2, <3>3 DEF KnownBesides
  <2>4. CASE run[p].msg.batch = None
    BY <1>1, <1>2, <2>2, <2>3, <2>4 DEF KeepsToItself, OwnDelivery
  <2>5. CASE run[p].msg.batch # None
    <3>1. x \in Known /\ id \in Known
      <4>1. Hands(Run \ {p}) \subseteq Hands(Run) /\ Hand(run[p]) \subseteq Hands(Run)
        BY DEF Hands
      <4> QED  BY <1>7, <2>3, <4>1 DEF Known, KnownBesides
    <3>2. x = id  BY <2>2, <3>1 DEF PullHistory, MintedOnce
    <3> QED  BY <1>1, <1>2, <2>2, <2>5, <3>2 DEF Planned, WasSwept
  <2> QED  BY <2>4, <2>5
<1>14. run'[p].msg.batch # None => swept[run'[p].msg.batch] >= 0  BY <1>2, <1>4, <1>6 DEF WasSwept
<1>15. inbox' \ inbox = {} /\ UNCHANGED <<swept, slot, mtime, feed>>  BY <1>3
<1> HIDE DEF id
<1> QED  BY <1>10, <1>11, <1>12, <1>13, <1>14, <1>15, MoveHistory

\* The other steps of a plan touch nothing of the history.
LEMMA GotoHistory ==
  ASSUME PullInv, PullInv', PullHistory, NEW p \in Run,
         NothingToCopy(p) \/ Emit(p) \/ Complete(p), UNCHANGED pullVars
  PROVE  PullHistory'
<1>1. PICK next : /\ next \in {"append", "complete", "done"} /\ p \in Live
                  /\ run[p].pc \in {"copy", "emit", "complete"}
                  /\ (run[p].pc = "copy" <=> next = "append")
                  /\ (run[p].pc = "emit" <=> next = "complete")
                  /\ run' = [run EXCEPT ![p] = [run[p] EXCEPT !.pc = next]]
  <2>1. CASE NothingToCopy(p)  BY <2>1 DEF NothingToCopy, Goto, At
  <2>2. CASE Emit(p)  BY <2>2 DEF Emit, Goto, At
  <2>3. CASE Complete(p)  BY <2>3 DEF Complete, Goto, At
  <2> QED  BY <2>1, <2>2, <2>3
<1> DEFINE s == [run[p] EXCEPT !.pc = next]
<1>2. /\ run[p] \in PullRun /\ Planned(p) /\ Traced(p) /\ WasSwept(run[p].msg)
      /\ run[p] # None /\ Winner(run[p])
  BY <1>1, HistoryFacts DEF LiveOK
<1>3. /\ run' = [run EXCEPT ![p] = s] /\ UNCHANGED pull
      /\ UNCHANGED <<clock, stamp, inbox, ledger, swept, slot, mtime, feed>>
  BY <1>1 DEF NothingToCopy, Emit, Complete, background, pullVars, remote
<1>4. /\ s.pc = next /\ s.msg = run[p].msg /\ s.started = run[p].started
      /\ s.kind = run[p].kind /\ s.req = run[p].req /\ s.id = run[p].id /\ s.rows = run[p].rows
  BY <1>2 DEF PullRun
<1> HIDE DEF s
<1>5. /\ run'[p] = s /\ pull'[p] = pull[p]
      /\ \A q \in Run \ {p} : run'[q] = run[q] /\ pull'[q] = pull[q]
  BY <1>3, RegisterAfter
<1>6. ClaimedIds' \subseteq ClaimedIds
  <2> DEFINE b == run[p].id.batch
             c == [claims[b] EXCEPT !.status = "completed", !.expires = clock + ClaimTTL]
  <2>1. CASE claims' = claims  BY <2>1 DEF ClaimedIds
  <2>2. CASE Complete(p) /\ claims' # claims
    <3>1. claims' = [claims EXCEPT ![b] = c] /\ claims[b] # None
      BY <2>2 DEF Complete, Completable
    <3>2. b \in Content  BY <1>1, <1>2, HistoryFacts DEF LiveOK, Identity
    <3>3. claims[b] \in Claim  BY <3>1, <3>2 DEF PullInv, ClaimsOK, ClaimOK
    <3>4. c.id = claims[b].id  BY <3>3 DEF Claim
    <3> HIDE DEF c, b
    <3>5. \A d \in Content : claims'[d] = claims[d] \/ (d = b /\ claims'[d] = c)
      BY <3>1, <3>2 DEF PullInv, ClaimsOK
    <3> QED  BY <3>1, <3>2, <3>4, <3>5 DEF ClaimedIds
  <2> QED  BY <2>1, <2>2 DEF NothingToCopy, Emit, Complete
<1>7. LedgerIds' = LedgerIds /\ RegisteredIds' = RegisteredIds
  BY <1>3 DEF LedgerIds, RegisteredIds
<1>8. /\ Hand(run'[p]) \subseteq Hand(run[p]) /\ ~Streams(p)' /\ ~OwnDelivery(run'[p])
  BY <1>1, <1>2, <1>4, <1>5 DEF Hand, Streams, OwnDelivery, AtClaim, AtWork, Winner
<1>9. Moves(p, {})
  <2>1. stamp \in Nat /\ clock \in Nat  BY DEF PullInv, StoresOK
  <2> QED  BY <1>3, <1>5, <1>6, <1>7, <1>8, <2>1 DEF Moves
<1>10. Planned(p)'
  <2>1. run[p].pc = "copy" => PlanOK(run[p])  BY <1>1, <1>2 DEF Planned
  <2>2. next = "append" => PlanOK(run[p])'
    BY <1>1, <1>3, <1>4, <1>5, <1>7, <2>1 DEF PlanOK, Winner, Outcome
  <2> QED  BY <1>1, <1>2, <1>3, <1>4, <1>5, <2>2 DEF Planned, AtClaim, AtWork, Winner
<1>11. Traced(p)'
  <2>1. \A x \in Slot : InHand(p, x) => InHand(p, x)'
    BY <1>1, <1>3, <1>4, <1>5, InHandOn DEF InHand, AtClaim
  <2> QED  BY <1>1, <1>2, <1>3, <1>4, <1>5, <2>1, RegisterTraced
<1>12. run'[p].msg.batch # None => swept[run'[p].msg.batch] >= 0  BY <1>2, <1>4, <1>5 DEF WasSwept
<1>13. inbox' \ inbox = {} /\ ledger' \ ledger = {} /\ UNCHANGED <<swept, slot, mtime, feed>>
  BY <1>3
<1> QED  BY <1>9, <1>10, <1>11, <1>12, <1>13, MoveHistory

-------------------------------------------------------------------------------
\* The steps of no run

\* What is remembered outlives the clock, the stamps, the claims that expire and
\* the messages that the sweep and the schedule send.
LEMMA QuietHistory ==
  ASSUME PullInv, PullInv', PullHistory, UNCHANGED <<run, pull, ledger, feed>>,
         ClaimedIds' \subseteq ClaimedIds,
         stamp' \in {stamp, stamp + 1}, clock' \in {clock, clock + 1},
         \A p \in Live : \A x \in Slot :
           Owed(run[p], x)' => Owed(run[p], x) /\ slot'[x] = slot[x],
         swept' = [b \in Content |-> swept'[b]],
         \A b \in Content : swept[b] >= 0 => swept'[b] >= 0,
         \A m \in inbox' \ inbox : m.batch # None => swept'[m.batch] >= 0
  PROVE  PullHistory'
<1>1. /\ stamp \in Nat /\ clock \in Nat /\ stamp <= stamp' /\ clock <= clock'
      /\ stamp' \in Nat /\ clock' \in Nat
      /\ \A x \in Known : x \in Identity /\ x.delivery \in Nat /\ x.batch \in Content
  BY HandsTyped DEF Identity
<1>2. /\ Hands(Run)' = Hands(Run) /\ \A p \in Run : Hands(Run \ {p})' = Hands(Run \ {p})
      /\ LedgerIds' = LedgerIds /\ RegisteredIds' = RegisteredIds
  BY DEF Hands, Hand, LedgerIds, RegisteredIds
<1>3. /\ Known' \subseteq Known /\ \A p \in Run : KnownBesides(p)' \subseteq KnownBesides(p)
      /\ (ClaimedIds \cup RegisteredIds \cup Hands(Run))'
           \subseteq ClaimedIds \cup RegisteredIds \cup Hands(Run)
      /\ ClaimedIds \cup RegisteredIds \cup Hands(Run) \subseteq Known
  BY <1>2 DEF Known, KnownBesides, RegisteredIds, LedgerIds
<1>4. Live' = Live /\ \A p \in Run : Streams(p)' <=> Streams(p)  BY DEF Live, Streams
<1>5. MintedOnce'
  <2>1. \A x \in Known' : x.delivery <= stamp'  BY <1>1, <1>3 DEF PullHistory, MintedOnce
  <2>2. ASSUME NEW p \in Run, Streams(p) PROVE pull[p].delivery <= stamp'
    <3>1. pull[p].delivery \in Nat  BY <2>2, LiveRun DEF LiveOK, PullState, Streams
    <3> QED  BY <1>1, <2>2, <3>1 DEF PullHistory, MintedOnce
  <2> QED  BY <1>3, <1>4, <2>1, <2>2 DEF PullHistory, MintedOnce
<1>6. ResumesSwept'
  <2>1. \A m \in inbox : WasSwept(m) => WasSwept(m)'  BY DEF WasSwept, PullInv, StoresOK, PullMessage
  <2>2. \A p \in Live : WasSwept(run[p].msg) => WasSwept(run[p].msg)'
    BY LiveRun DEF WasSwept, LiveOK, PullRun, PullMessage
  <2> QED  BY <1>4, <2>1, <2>2 DEF PullHistory, ResumesSwept, WasSwept
<1>7. RowsStamped'
  <2>1. \A r \in ledger : r.recorded \in Nat  BY DEF PullInv, StoresOK, Row
  <2> QED  BY <1>1, <2>1 DEF PullHistory, RowsStamped
<1>8. ASSUME NEW r \in ledger PROVE NotedApart(r)'
  BY <1>1, <1>3 DEF PullHistory, NotedApart
<1>9. ASSUME NEW p \in Run PROVE KeepsToItself(p)' /\ Planned(p)' /\ Traced(p)'
  <2>1. KeepsToItself(p) /\ Planned(p) /\ Traced(p)  BY DEF PullHistory
  <2>2. KeepsToItself(p)'  BY <1>3, <1>4, <2>1 DEF KeepsToItself
  <2>3. Planned(p)'
    <3> SUFFICES ASSUME p \in Live PROVE Planned(p)'  BY <1>4 DEF Planned
    <3>1. run[p].started \in Nat /\ \A r \in run[p].rows : r.recorded \in Nat
      BY LiveRun DEF LiveOK, PullRun, Row
    <3>2. PlanOK(run[p]) => PlanOK(run[p])'  BY <1>1, <1>2, <3>1 DEF PlanOK
    <3> QED  BY <1>1, <2>1, <3>1, <3>2 DEF Planned
  <2>4. Traced(p)'
    <3> SUFFICES ASSUME p \in Live, ~feed.operator, run[p].pc # "list", run[p].msg.batch = None,
                        pull[p].errors = {}, NEW x \in Slot, Owed(run[p], x)'
                 PROVE  (x \in pull[p].todo \/ InHand(p, x) \/ Told(p, x))'
      BY <1>4 DEF Traced
    <3>1. Owed(run[p], x) /\ slot'[x] = slot[x]  OBVIOUS
    <3>2. x \in pull[p].todo \/ InHand(p, x) \/ Told(p, x)  BY <2>1, <3>1 DEF Traced
    <3>3. Told(p, x) => Told(p, x)'  BY <3>1, ToldOn
    <3>4. InHand(p, x) => InHand(p, x)'  BY <3>1, InHandOn
    <3> QED  BY <3>2, <3>3, <3>4
  <2> QED  BY <2>2, <2>3, <2>4
<1> QED  BY <1>5, <1>6, <1>7, <1>8, <1>9 DEF PullHistory

\* A file the partner writes now is younger than every run.
LEMMA UploadHistory ==
  ASSUME PullInv, PullInv', PullHistory, NEW u \in feed.uploads, Upload(u[1], u[2])
  PROVE  PullHistory'
<1>1. /\ slot' = [slot EXCEPT ![u[1]] = u[2]] /\ mtime' = [mtime EXCEPT ![u[1]] = clock]
      /\ UNCHANGED <<clock, stamp, inbox, claims, ledger, swept, run, pull, feed>>
  BY DEF Upload
<1>2. /\ slot \in [Slot -> Content \cup {None}] /\ mtime \in [Slot -> Nat] /\ clock \in Nat
  BY DEF PullInv, RemoteOK, StoresOK
<1>3. ASSUME NEW p \in Live, NEW x \in Slot, Owed(run[p], x)'
      PROVE  Owed(run[p], x) /\ slot'[x] = slot[x]
  <2>1. run[p].started <= clock /\ run[p].started \in Nat
    BY HistoryFacts DEF Planned, PullRun
  <2>2. CASE x = u[1]
    <3>1. mtime'[x] = clock  BY <1>1, <1>2, <2>2
    <3>2. mtime'[x] < run[p].started  BY <1>1, <1>3 DEF Owed
    <3> QED  BY <1>2, <2>1, <3>1, <3>2
  <2>3. CASE x # u[1]
    <3>1. slot'[x] = slot[x] /\ mtime'[x] = mtime[x]  BY <1>1, <1>2, <2>3
    <3> QED  BY <1>1, <1>3, <3>1 DEF Owed, Quiet
  <2> QED  BY <2>2, <2>3
<1>4. ClaimedIds' = ClaimedIds  BY <1>1 DEF ClaimedIds
<1>5. swept = [b \in Content |-> swept[b]]  BY DEF PullHistory, ResumesSwept
<1>6. stamp' \in {stamp, stamp + 1} /\ clock' \in {clock, clock + 1} /\ inbox' \ inbox = {}
  BY <1>1
<1> QED  BY <1>1, <1>3, <1>4, <1>5, <1>6, QuietHistory

\* The steps that leave the files where they are.
LEMMA StillHistory ==
  ASSUME PullInv, PullInv', PullHistory, UNCHANGED <<run, pull, ledger, feed, slot, mtime>>,
         ClaimedIds' \subseteq ClaimedIds,
         stamp' \in {stamp, stamp + 1}, clock' \in {clock, clock + 1},
         swept' = [b \in Content |-> swept'[b]],
         \A b \in Content : swept[b] >= 0 => swept'[b] >= 0,
         \A m \in inbox' \ inbox : m.batch # None => swept'[m.batch] >= 0
  PROVE  PullHistory'
<1>1. \A p \in Live : \A x \in Slot :
        Owed(run[p], x)' => Owed(run[p], x) /\ slot'[x] = slot[x]
  BY DEF Owed, Quiet
<1> QED  BY <1>1, QuietHistory

\* The sweep says what it resumes before it sends the message.
LEMMA InvokeHistory ==
  ASSUME PullInv, PullInv', PullHistory,
         (\E force \in BOOLEAN : Schedule(force)) \/ (\E b \in Content : SweepStuck(b))
  PROVE  PullHistory'
<1>1. /\ UNCHANGED <<run, pull, ledger, feed, slot, mtime, claims, clock>> /\ stamp' = stamp + 1
  BY DEF Schedule, SweepStuck, pullVars, remote
<1>2. ClaimedIds' = ClaimedIds  BY <1>1 DEF ClaimedIds
<1>3. swept = [b \in Content |-> swept[b]] /\ clock \in Nat /\ clock >= 0
  BY DEF PullHistory, ResumesSwept, PullInv, StoresOK
<1>4. CASE \E force \in BOOLEAN : Schedule(force)
  <2>1. PICK force \in BOOLEAN : Schedule(force)  BY <1>4
  <2>2. swept' = swept /\ \A m \in inbox' \ inbox : m.batch = None
    BY <2>1 DEF Schedule, background, Invocation
  <2> QED  BY <1>1, <1>2, <1>3, <2>2, StillHistory
<1>5. CASE \E b \in Content : SweepStuck(b)
  <2>1. PICK b \in Content : SweepStuck(b)  BY <1>5
  <2>2. swept' = [swept EXCEPT ![b] = clock] /\ \A m \in inbox' \ inbox : m.batch = b
    BY <2>1 DEF SweepStuck, Invocation
  <2>3. \A d \in Content : swept'[d] = IF d = b THEN clock ELSE swept[d]  BY <1>3, <2>2
  <2>4. swept' = [d \in Content |-> swept'[d]]  BY <1>3, <2>2
  <2>5. /\ \A d \in Content : swept[d] >= 0 => swept'[d] >= 0
        /\ \A m \in inbox' \ inbox : m.batch # None => swept'[m.batch] >= 0
    BY <1>3, <2>2, <2>3
  <2> QED  BY <1>1, <1>2, <2>4, <2>5, StillHistory
<1> QED  BY <1>4, <1>5

LEMMA PlatformHistory ==
  ASSUME PullInv, PullInv', PullHistory,
         \/ \E c \in Content : \E o \in feed.declares[c] : PartArrives(o)
         \/ \E b \in Content : Reap(b) /\ UNCHANGED pullVars
         \/ \E p \in Run, m \in inbox : ResumeGone(p, m)
         \/ \E m \in inbox : Expire(m) /\ UNCHANGED pullVars
         \/ Tick /\ UNCHANGED pullVars
         \/ ScanOverdue \/ Announce \/ Mark \/ SkipMarked \/ SweepEnds
         \/ UNCHANGED allVars
  PROVE  PullHistory'
<1>1. /\ UNCHANGED <<run, pull, ledger, feed, slot, mtime, swept, stamp>> /\ inbox' \subseteq inbox
      /\ clock' \in {clock, clock + 1}
      /\ claims' = claims \/ \E b \in Content : claims' = [claims EXCEPT ![b] = None]
  BY DEF PartArrives, Reap, ResumeGone, Expire, Tick, ScanOverdue, Announce, Mark, SkipMarked,
         SweepEnds, allVars, vars, pullVars, remote, background
<1>2. ClaimedIds' \subseteq ClaimedIds
  <2>1. claims = [b \in Content |-> claims[b]]  BY DEF PullInv, ClaimsOK
  <2>2. \A d \in Content : claims'[d] = claims[d] \/ claims'[d] = None  BY <1>1, <2>1
  <2> QED  BY <2>2 DEF ClaimedIds
<1>3. swept = [b \in Content |-> swept[b]]  BY DEF PullHistory, ResumesSwept
<1>4. stamp' \in {stamp, stamp + 1} /\ inbox' \ inbox = {}  BY <1>1
<1> QED  BY <1>1, <1>2, <1>3, <1>4, StillHistory

-------------------------------------------------------------------------------
LEMMA DriveHistory ==
  ASSUME PullInv, PullInv', PullHistory, NEW p \in Run, Drive(p) PROVE PullHistory'
<1>1. CASE Register(p)
  BY <1>1, ClaimWinHistory, ClaimLoseHistory, ClaimReadHistory, ClaimTakeHistory, PlanHistory,
     AppendHistory, GotoHistory, EndsHistory DEF Register
<1>2. CASE NothingToCopy(p)  BY <1>2, GotoHistory DEF NothingToCopy
<1> QED
  BY <1>1, <1>2, ListHistory, PickHistory, StreamHistory, EndsHistory, FileHistory DEF Drive

LEMMA NextHistory == PullInv /\ PullHistory /\ [PullNext]_allVars => PullHistory'
<1> SUFFICES ASSUME PullInv, PullHistory, [PullNext]_allVars PROVE PullHistory'  OBVIOUS
<1>0. PullInv'  BY NextPullInv
<1>1. CASE \E p \in Run, m \in inbox : Begin(p, m) \/ Resume(p, m) \/ ResumeGone(p, m)
  BY <1>0, <1>1, BeginHistory, ResumeHistory, PlatformHistory
<1>2. CASE \E p \in Run : Drive(p) \/ Kill(p) \/ \E e \in {"transient", "unexpected"} : FileFails(p, e)
  BY <1>0, <1>2, DriveHistory, EndsHistory, FileHistory
<1>3. CASE \/ \E c \in Content : SweepStuck(c) \/ (Reap(c) /\ UNCHANGED pullVars)
           \/ \E c \in Content : \E o \in feed.declares[c] : PartArrives(o)
  BY <1>0, <1>3, InvokeHistory, PlatformHistory
<1> QED
  BY <1>0, <1>1, <1>2, <1>3, UploadHistory, InvokeHistory, PlatformHistory DEF PullNext

LEMMA InitHistory == PullInit => PullHistory
<1> SUFFICES ASSUME PullInit PROVE PullHistory  OBVIOUS
<1>1. /\ Live = {} /\ ledger = {} /\ inbox = {} /\ ClaimedIds = {} /\ LedgerIds = {}
      /\ \A p \in Run : Hand(run[p]) = {}
  BY DEF PullInit, RegistrationInit, Live, ClaimedIds, LedgerIds, Hand
<1>2. Known = {}  BY <1>1 DEF Known, Hands
<1>3. MintedOnce  BY <1>1, <1>2 DEF MintedOnce, Streams
<1>4. ResumesSwept  BY <1>1 DEF ResumesSwept, PullInit, RegistrationInit
<1> QED  BY <1>1, <1>3, <1>4 DEF PullHistory, RowsStamped, KeepsToItself, Planned, Traced

LEMMA HistoryAlways == PullSpec => []PullHistory
  BY PullInvAlways, InitHistory, NextHistory, PTL DEF PullSpec

\* A registered delivery that was noted as a duplicate of itself was resumed: the
\* run that lost its claim to no one but itself held a message of the sweep.
THEOREM SelfDuplicatesAreResumed == PullSpec => []SelfDuplicateOnlyAfterResume
<1>1. ASSUME PullHistory PROVE SelfDuplicateOnlyAfterResume
  <2> SUFFICES ASSUME NEW r \in ledger, NEW q \in ledger, r.disp = "registered",
                      q.disp = "duplicate", r.id.delivery = q.id.delivery
               PROVE  swept[r.id.batch] >= 0
    BY DEF SelfDuplicateOnlyAfterResume
  <2>1. NotedApart(q) /\ r.id \in RegisteredIds  BY <1>1 DEF PullHistory, RegisteredIds
  <2> QED  BY <2>1 DEF NotedApart
<1> QED  BY <1>1, HistoryAlways, PTL

\* What a run may take leaves out the objects of every row it has scanned, whatever
\* the later dispositions of the same delivery.
LEMMA NotedLeftOut ==
  ASSUME PullInv, PullHistory, NEW p \in Live, ~run[p].msg.force, feed.mode # "manifest",
         NEW r \in pull[p].rows
  PROVE  r.id.objects \subseteq Noted(p)
<1> DEFINE rows == pull[p].rows
<1>1. rows \subseteq ledger  BY HistoryFacts DEF Planned
<1>2. stamp \in Nat /\ \A q \in rows : q \in Row /\ q.recorded <= stamp
  BY <1>1 DEF PullInv, StoresOK, PullHistory, RowsStamped
<1>3. \A q \in rows : q.recorded \in Nat /\ q.disp \in Dispositions  BY <1>2 DEF Row
<1> HIDE DEF rows
<1>4. r \in rows  BY DEF rows
<1>5. PICK q \in LatestDispositions(rows) : q.id.delivery = r.id.delivery
  BY <1>2, <1>3, <1>4, CurrentRow
<1>6. q \in rows  BY <1>5 DEF LatestDispositions
<1>7. q.id = r.id  BY <1>1, <1>4, <1>5, <1>6 DEF PullHistory, MintedOnce, Known, LedgerIds
<1>9. q.disp \in {"registered", "duplicate", "superseded", "unreadable", "incomplete"}
  BY <1>3, <1>6 DEF Dispositions
<1>10. q.id.objects \subseteq AcquiredFinal(rows) \cup ObservedDefective(rows)
  BY <1>5, <1>9 DEF AcquiredFinal, ObservedDefective, ObjectsOf
<1> QED  BY <1>7, <1>10 DEF Noted, rows

\* A scheduled run of a trailer or timer feed never takes again a file that a row
\* of its scan names with that size, for any history of that row's delivery.
THEOREM NotedStaysNoted == PullSpec => NotedIsNotTakenAgain
<1>1. ASSUME PullInv, PullInv', PullHistory, [PullNext]_allVars,
             NEW p \in Run, At(p, "list"), ~run[p].msg.force, feed.mode # "manifest",
             NEW x \in pull'[p].todo, NEW r \in pull[p].rows
      PROVE  <<x, SizeOf[slot[x]]>> \notin r.id.objects
  <2>1. p \in Live /\ run[p].pc = "list" /\ Planned(p)  BY <1>1, HistoryFacts DEF At
  <2>2. pull[p].todo = {}  BY <2>1 DEF Planned
  <2>3. r.id.objects \subseteq Noted(p)  BY <1>1, <2>1, NotedLeftOut
  <2>4. \A y \in pull'[p].todo : <<y, SizeOf[slot[y]]>> \notin Noted(p)
    <3>1. pull = [q \in Run |-> pull[q]]  BY <1>1 DEF PullInv, RunsOK
    <3>2. CASE pull' = pull  BY <2>2, <3>2
    <3>3. CASE \E q \in Run : List(q)
      <4>1. PICK q \in Run : List(q)  BY <3>3
      <4>2. CASE q = p
        <5>0. List(p)  BY <4>1, <4>2
        <5>1. PICK from \in IF feed.operator THEN {0, clock} ELSE {0},
                   to \in IF feed.operator THEN {clock, clock + 1} ELSE {clock + 1} :
                LET listed == {s \in Slot : slot[s] # None /\ InWindow(mtime[s], from, to)}
                    todo == Candidates(p, listed, run[p].started) IN
                pull' = [pull EXCEPT
                           ![p].todo = todo, ![p].listing = {<<s, mtime[s]>> : s \in todo},
                           ![p].parts = {z[1] : z \in {y \in parts : InWindow(y[2], from, to)}},
                           ![p].rows = {}]
          BY <5>0 DEF List
        <5> DEFINE listed == {s \in Slot : slot[s] # None /\ InWindow(mtime[s], from, to)}
                   listing == {<<s, mtime[s]>> : s \in Candidates(p, listed, run[p].started)}
                   there == {z[1] : z \in {y \in parts : InWindow(y[2], from, to)}}
        <5> DEFINE todo == Candidates(p, listed, run[p].started)
                   h == [pull[p] EXCEPT !.todo = todo, !.listing = listing,
                                        !.parts = there, !.rows = {}]
        <5>2. pull' = [pull EXCEPT ![p] = h]  BY <3>1, <5>1
        <5>3. h.todo = todo /\ \A y \in todo : <<y, SizeOf[slot[y]]>> \notin Noted(p)
          BY <1>1, <2>1, HistoryFacts DEF PullState, Candidates
        <5> HIDE DEF h, todo
        <5>4. pull'[p] = h  BY <3>1, <5>2
        <5> QED  BY <5>3, <5>4
      <4>3. CASE q # p
        <5>1. pull'[p] = pull[p]  BY <3>1, <4>1, <4>3 DEF List
        <5> QED  BY <2>2, <5>1
      <4> QED  BY <4>2, <4>3
    <3>4. CASE \E q \in Run : \/ \E m \in inbox : Begin(q, m)
                              \/ Pick(q) \/ Stream(q) \/ FileVanished(q)
                              \/ \E e \in {"transient", "unexpected"} : FileFails(q, e)
      <4>1. PICK q \in Run : \/ \E m \in inbox : Begin(q, m)
                             \/ Pick(q) \/ Stream(q) \/ FileVanished(q)
                             \/ \E e \in {"transient", "unexpected"} : FileFails(q, e)
        BY <3>4
      <4>2. q # p
        BY <2>1, <4>1 DEF Begin, Invoked, Pick, AtNext, Stream, FileVanished, FileFails, At
      <4>3. pull'[p] = pull[p]
        BY <3>1, <4>1, <4>2 DEF Begin, Pick, Stream, Streamed, FileVanished, FileFails
      <4> QED  BY <2>2, <4>3
    <3>5. CASE \E q \in Run : Finish(q) \/ Kill(q)
      <4>1. PICK q \in Run : pull' = [pull EXCEPT ![q] = NotPulling]
        BY <3>5 DEF Finish, Kill
      <4>2. pull'[p].todo \subseteq pull[p].todo  BY <3>1, <4>1 DEF NotPulling
      <4> QED  BY <2>2, <4>2
    <3> QED
      BY <1>1, <3>2, <3>3, <3>4, <3>5 DEF PullNext, Drive, Register, Upload, PartArrives,
         SweepStuck, Schedule, Resume, ResumeGone, NothingToCopy, EndResume, ScanOverdue,
         Announce, Mark, SkipMarked, SweepEnds, pullVars, allVars
  <2> QED  BY <1>1, <2>3, <2>4
<1>2. PullInv /\ PullInv' /\ PullHistory /\ [PullNext]_allVars =>
        [\A p \in Run : At(p, "list") /\ ~run[p].msg.force /\ feed.mode # "manifest" =>
           \A s \in pull'[p].todo : \A r \in pull[p].rows :
             <<s, SizeOf[slot[s]]>> \notin r.id.objects]_allVars
  BY <1>1
<1> QED  BY <1>2, PullInvAlways, HistoryAlways, PTL DEF NotedIsNotTakenAgain, PullSpec

\* A run that ends well, after a listing of every file, leaves none untold that
\* was there when it started, by a claim or by a row that says what the code
\* compares of it, whatever other runs, takeovers and the partner did meanwhile.
THEOREM RunsOverlookNothing == PullSpec => NothingOverlooked
<1>1. ASSUME PullInv, PullHistory, NEW p \in Run, AtNext(p),
             pull[p].errors = {}, pull[p].todo = {}, ~feed.operator,
             NEW x \in Slot, slot[x] # None, Quiet(x, run[p].started), mtime[x] < run[p].started
      PROVE  Told(p, x)
  <2>1. p \in Live /\ run[p].msg.batch = None /\ run[p].pc \in {"pick", "done"}
    BY <1>1 DEF AtNext, Pulling
  <2>2. x \in pull[p].todo \/ InHand(p, x) \/ Told(p, x)
    BY <1>1, <2>1 DEF PullHistory, Traced, Owed
  <2> QED  BY <1>1, <2>1, <2>2 DEF InHand, AtClaim
<1>2. PullInv /\ PullHistory =>
        [\A p \in Run :
           /\ AtNext(p) /\ run'[p] = None /\ failures' = failures
           /\ pull[p].errors = {} /\ pull[p].todo = {} /\ ~feed.operator
           => \A s \in Slot :
                slot[s] # None /\ Quiet(s, run[p].started) /\ mtime[s] < run[p].started
                => Told(p, s)]_allVars
  BY <1>1
<1> QED  BY <1>2, PullInvAlways, HistoryAlways, PTL DEF NothingOverlooked

================================================================================
