------------------------------- MODULE SftpPull -------------------------------
(***************************************************************************)
(* A feed with the sftp-pull driver (ingestion/drivers/sftp_pull.py): a    *)
(* schedule invokes the driver of the feed, which folds the ledger, lists  *)
(* the partner's directory, selects the files it has not noted yet and     *)
(* takes them one by one, each streamed to the canonical zone BEFORE its   *)
(* registration.  One file failing does not stop the next.                 *)
(*                                                                         *)
(*   list -> pick -> stream -> claim -> ... -> done -> stream -> ...       *)
(*                                                                         *)
(* The hourly absence detector (absence/detector.py) resumes a claim left  *)
(* in progress by its batch, and announces the days without a delivery.    *)
(*                                                                         *)
(* `slot` of Registration holds the remote files here, whose names and     *)
(* byte counts are the objects <<slot, size>>.  In manifest mode a slot is *)
(* a manifest and its content stands for the delivery it declares: objects *)
(* on the remote beside it, its parts.  A part arrives once and stays.     *)
(***************************************************************************)
EXTENDS Registration

CONSTANTS
  Feeds,       \* the feeds to check: one is chosen in the initial state; maxSent and
               \* maxPulls bound its uploads and runs, until bounds their times
  SizeOf,      \* bytes of the file of each content
  BytesOf,     \* bytes of each delivery: the file, or a manifest and its parts
  QuietWindow, \* timer.quiet_window_minutes
  Budget,      \* CONVEYER_DRIVER_BYTES_BUDGET
  BudgetTime,  \* _BUDGET_ELAPSED_SECONDS (600 s)
  Lookback,    \* CONVEYER_SFTP_LOOKBACK_DAYS
  Day,         \* length of a day
  Deadline,    \* when in a day its delivery is expected by
  OverdueDays, \* lookback_days of overdue_dates
  MaxSweeps    \* bound on the overdue sweeps

Modes == {"trailer", "timer", "manifest"}

ASSUME SftpPullAssumption ==
  /\ \A f \in Feeds :
       /\ f.mode \in Modes /\ f.expected \in BOOLEAN /\ f.operator \in BOOLEAN
       /\ f.uploads \subseteq Slot \X Content /\ f.key \in [f.uploads -> Key]
       /\ f.verdict \in [Content -> {"complete", "incomplete", "unreadable"}]
       /\ f.declares \in [Content -> SUBSET Object] /\ f.flawed \in [Content -> SUBSET Object]
       /\ \A u \in f.uploads : <<u[1], SizeOf[u[2]]>> \in Object
       /\ f.maxSent \in Nat /\ f.maxPulls \in Nat /\ f.until \in Nat
  /\ SizeOf \in [Content -> Nat] /\ BytesOf \in [Content -> Nat]
  /\ QuietWindow \in Nat /\ Budget \in Nat /\ Lookback \in Nat /\ OverdueDays \in Nat
  /\ Day \in Nat \ {0} /\ Deadline \in 0..Day
  /\ MaxSweeps \in Nat

\* The run's own budget ends before Lambda's does.
ASSUME BudgetAssumption == BudgetTime \in Nat /\ BudgetTime < LambdaMax

\* A manifest of which nothing is declared is one that does not parse.  It is
\* unreadable.
ASSUME ManifestAssumption ==
  \A f \in Feeds : \A c \in Content :
    f.mode = "manifest" /\ f.declares[c] = {} => f.verdict[c] = "unreadable"

\* An invocation of the driver; a resume names its batch.
PullMessage == [force : BOOLEAN, batch : Content \cup {None}, rid : Nat, tries : Nat, born : Nat]

\* A run of the driver: the steps of a file are those of its registration.
PullRun ==
  [pc : Steps \cup {"list", "pick", "stream"}, msg : PullMessage,
   req : Identity \cup {None}, id : Identity \cup {None},
   kind : {"none", "WON", "TAKEN_OVER", "LOST", "incomplete", "unreadable"},
   owner : Nat, at : Nat, started : Nat, rows : SUBSET Row]

\* None is no run.
ASSUME NoneAssumption == None \notin PullRun

VARIABLES
  feed,    \* the feed, which never changes
  mtime,   \* modification time of every remote file
  parts,   \* the parts on the remote, with their modification times
  pull,    \* what a run of the driver holds besides its registration
  pulls,   \* runs scheduled so far
  sweeper, \* the overdue sweep: the days it has still to announce
  overdue, \* the days announced as delivery-overdue
  marked   \* the overdue#feed#day markers

remote == <<feed, mtime, parts>>
absence == <<sweeper, overdue, marked>>
pullVars == <<remote, pull, pulls, absence>>
allVars == <<vars, pullVars>>

-------------------------------------------------------------------------------
\* The partner

Upload(s, c) ==
  /\ <<s, c>> \in feed.uploads /\ sent < feed.maxSent /\ clock <= feed.until /\ slot[s] # c
  /\ slot' = [slot EXCEPT ![s] = c]
  /\ mtime' = [mtime EXCEPT ![s] = clock]
  /\ sent' = sent + 1
  /\ UNCHANGED <<clock, stamp, inbox, claims, ledger, canonical, events, run, swept, recon, failures>>
  /\ UNCHANGED <<feed, parts, pull, pulls, absence>>

PartArrives(o) ==
  /\ feed.mode = "manifest" /\ sent < feed.maxSent /\ clock <= feed.until
  /\ \A q \in parts : q[1][1] # o[1]
  /\ parts' = parts \cup {<<o, clock>>}
  /\ sent' = sent + 1
  /\ UNCHANGED <<clock, stamp, slot, inbox, claims, ledger, canonical, events, run, swept, recon, failures>>
  /\ UNCHANGED <<feed, mtime, pull, pulls, absence>>

-------------------------------------------------------------------------------
\* What starts a run: the schedule, an operator (with force), the hourly sweep

Invocation(force, batch) ==
  [force |-> force, batch |-> batch, rid |-> stamp + 1, tries |-> 0, born |-> clock]

Schedule(force) ==
  /\ pulls < feed.maxPulls /\ clock <= feed.until /\ force = feed.operator
  /\ pulls' = pulls + 1
  /\ inbox' = inbox \cup {Invocation(force, None)}
  /\ stamp' = stamp + 1
  /\ UNCHANGED <<clock, slot, claims, ledger, canonical, events, run, background>>
  /\ UNCHANGED <<remote, pull, absence>>

\* sweep_stuck_claims, for a claim of this driver.
SweepStuck(b) ==
  /\ Stuck(claims[b], clock) /\ clock - swept[b] >= SweepPeriod
  /\ swept' = [swept EXCEPT ![b] = clock]
  /\ inbox' = inbox \cup {Invocation(FALSE, b)}
  /\ stamp' = stamp + 1
  /\ UNCHANGED <<clock, slot, claims, ledger, canonical, events, run, recon, failures, sent>>
  /\ UNCHANGED pullVars

-------------------------------------------------------------------------------
\* The folds of the ledger (core/folds.py)

\* scan_feed since an instant: the predicate is on received_at.
ScanFeed(since) == {r \in ledger : r.id.received >= since}

\* The objects of the rows whose latest disposition is one of these.
ObjectsOf(rows, dispositions) ==
  UNION {r.id.objects : r \in {q \in LatestDispositions(rows) : q.disp \in dispositions}}

AcquiredFinal(rows) == ObjectsOf(rows, {"registered", "duplicate", "superseded"})

\* Mutant: an incomplete file is left to be read again.
ObservedUnreadable(rows) ==
  IF feed.mode = "manifest" THEN {}
  ELSE ObjectsOf(rows, {"unreadable"})

\* Manifest-mode deliveries are never defective: their manifests are read again
\* in every run.
ObservedDefective(rows) ==
  IF feed.mode = "manifest" THEN {} ELSE ObjectsOf(rows, {"unreadable", "incomplete"})

-------------------------------------------------------------------------------
\* acquire

Reading(p, m) ==
  [pc |-> "list", msg |-> m, req |-> None, id |-> None, kind |-> "none", owner |-> 0,
   at |-> 0, started |-> clock, rows |-> {}]

NotPulling ==
  [rows |-> {}, listing |-> {}, parts |-> {}, todo |-> {}, bytes |-> 0, streamed |-> 0,
   file |-> None, delivery |-> 0, received |-> 0, errors |-> {}]

\* Read the clock and scan the ledger.
Begin(p, m) ==
  /\ m.batch = None
  /\ Invoked(p, m, Reading(p, m))
  /\ pull' = [pull EXCEPT ![p].rows = ScanFeed(clock - Lookback)]
  /\ UNCHANGED <<clock, stamp, slot, claims, ledger, canonical, events, background>>
  /\ UNCHANGED <<remote, pulls, absence>>

\* quiet_window_satisfied
Quiet(s, now) == feed.mode = "timer" => now - mtime[s] >= QuietWindow

\* The files to skip.
Noted(p) ==
  IF run[p].msg.force THEN {}
  ELSE AcquiredFinal(pull[p].rows) \cup ObservedDefective(pull[p].rows)

\* A window is half open: [from, to).
InWindow(t, from, to) == from <= t /\ t < to

\* Mutant: a file already noted under its name is dropped, whatever its size.
CandidatesByName(p, listed, now) ==
  {s \in listed : Quiet(s, now) /\ \A f \in Noted(p) : f[1] # s}

\* select_candidates, select_manifests: `now` is the start of the run.
Candidates(p, listed, now) ==
  {s \in listed : Quiet(s, now) /\ <<s, SizeOf[slot[s]]>> \notin Noted(p)}

\* listdir, later than the scan.  An operator's window narrows the listing, the
\* parts in it too: [0, clock + 1) is no window.
List(p) ==
  /\ Goto(p, "list", "pick")
  /\ \E from \in IF feed.operator THEN {0, clock} ELSE {0},
        to \in IF feed.operator THEN {clock, clock + 1} ELSE {clock + 1} :
       LET listed == {s \in Slot : slot[s] # None /\ InWindow(mtime[s], from, to)}
           todo == Candidates(p, listed, run[p].started) IN
       pull' = [pull EXCEPT ![p].todo = todo,
                            ![p].listing = {<<s, mtime[s]>> : s \in todo},
                            ![p].parts = {q[1] : q \in {x \in parts : InWindow(x[2], from, to)}},
                            ![p].rows = {}]
  /\ UNCHANGED <<clock, stamp, slot, inbox, claims, ledger, canonical, events, background>>
  /\ UNCHANGED <<remote, pulls, absence>>

Pulling(p) == p \in Live /\ run[p].msg.batch = None

\* The head of the loop over the candidates.
AtNext(p) == Pulling(p) /\ run[p].pc \in {"pick", "done"}

\* The bytes of the files that ended, the last one included.
BytesSoFar(p) == pull[p].bytes + pull[p].streamed

\* _budget_exceeded
Exhausted(p) == clock - run[p].started > BudgetTime \/ BytesSoFar(p) > Budget

\* The oldest candidate is next; the code breaks a tie by name.
Oldest(p, s) ==
  \A f, g \in pull[p].listing : f[1] = s /\ g[1] \in pull[p].todo => f[2] <= g[2]

\* The next file: its delivery id and received_at are minted before its bytes
\* are read.
Pick(p) ==
  /\ AtNext(p) /\ ~Exhausted(p)
  /\ run' = [run EXCEPT ![p].pc = "stream"]
  /\ \E s \in pull[p].todo :
       /\ Oldest(p, s)
       /\ pull' = [pull EXCEPT ![p].todo = @ \ {s}, ![p].file = s,
                               ![p].bytes = BytesSoFar(p), ![p].streamed = 0,
                               ![p].delivery = stamp + 1, ![p].received = clock]
  /\ stamp' = stamp + 1
  /\ UNCHANGED <<clock, slot, inbox, claims, ledger, canonical, events, background>>
  /\ UNCHANGED <<remote, pulls, absence>>

\* What completeness says of the content read: a timer feed is complete by its
\* selection, a manifest whose parts were not in the listing is incomplete.
Judged(p, c) ==
  CASE feed.mode = "timer" -> "complete"
    [] feed.mode = "manifest" /\ ~(feed.declares[c] \subseteq pull[p].parts) -> "incomplete"
    [] OTHER -> feed.verdict[c]

\* A manifest that does not parse or lacks parts is abandoned before anything is
\* streamed.
IsStreamed(p, c) ==
  feed.mode = "manifest" => feed.declares[c] # {} /\ feed.declares[c] \subseteq pull[p].parts

\* What is wholly in the canonical zone after the stream.  What an abandoned
\* manifest leaves there is nobody's, and is not kept here.
IsStaged(p, c) == feed.mode = "manifest" => Judged(p, c) = "complete"

\* The parts the listing has under the names content c declares.
PreObserved(p, c) == {o \in pull[p].parts : \E d \in feed.declares[c] : d[1] = o[1]}

\* The objects of the row for content c of slot s: what is staged or, of a
\* defective manifest, the parts that were observed and never the manifest.
Objects(p, s, c) ==
  LET file == {<<s, SizeOf[c]>>} IN
  IF feed.mode # "manifest" THEN file
  ELSE CASE Judged(p, c) = "complete" -> feed.declares[c] \cup file
         [] Judged(p, c) = "incomplete" -> PreObserved(p, c)
         [] OTHER -> feed.flawed[c]

\* The bytes of content c that may be moved: a manifest is abandoned at the first
\* part that is not what it declares.
BytesMoved(p, c) ==
  IF ~IsStreamed(p, c) THEN {0}
  ELSE IF feed.mode = "manifest" /\ Judged(p, c) = "unreadable" THEN 0..BytesOf[c]
  ELSE {BytesOf[c]}

\* The identity a file gets: a defective one is given a fresh delivery id by
\* record_nondelivery, whatever was streamed under the first.
Delivered(p, c, verdict) ==
  LET s == pull[p].file IN
  [delivery |-> IF verdict = "complete" THEN pull[p].delivery ELSE stamp + 1,
   slot |-> s, key |-> feed.key[<<s, c>>], batch |-> c,
   received |-> IF verdict = "complete" THEN pull[p].received ELSE clock,
   objects |-> Objects(p, s, c)]

\* What the stream of a file of content c leaves: its bytes in the canonical
\* zone and, in the run, the registration or the non-delivery that follows.
Streamed(p, c, objects) ==
  LET verdict == Judged(p, c) IN
  /\ canonical' = canonical \cup objects
  /\ \E n \in BytesMoved(p, c) : pull' = [pull EXCEPT ![p].streamed = n]
  /\ run' = [run EXCEPT ![p].pc = IF verdict = "complete" THEN "claim" ELSE "plan",
                        ![p].kind = IF verdict = "complete" THEN "none" ELSE verdict,
                        ![p].req = Delivered(p, c, verdict),
                        ![p].id = Delivered(p, c, verdict)]
  /\ stamp' = stamp + 1

\* Mutant: the bytes are left to the copy of the registration, as an s3-push
\* delivery's are.
StreamNothing(p) ==
  /\ At(p, "stream")
  /\ Streamed(p, slot[pull[p].file], {})
  /\ UNCHANGED <<clock, slot, inbox, claims, ledger, events, background>>
  /\ UNCHANGED <<remote, pulls, absence>>

\* The file as it is now, which need not be the file that was listed.
Stream(p) ==
  LET c == slot[pull[p].file] IN
  /\ At(p, "stream")
  /\ Streamed(p, c, IF IsStaged(p, c) THEN {<<pull[p].delivery, c>>} ELSE {})
  /\ UNCHANGED <<clock, slot, inbox, claims, ledger, events, background>>
  /\ UNCHANGED <<remote, pulls, absence>>

\* E1 has nothing to copy: no object of the registration has a src_key.
NothingToCopy(p) ==
  /\ Goto(p, "copy", "append")
  /\ UNCHANGED <<clock, stamp, slot, inbox, claims, ledger, canonical, events, background>>
  /\ UNCHANGED pullVars

\* A step of a file raises: a TransientError is remembered, any other exception
\* is logged and forgotten, and the loop goes on.  The bytes of the file are not
\* counted.
FileFails(p, error) ==
  /\ Pulling(p) /\ run[p].pc \notin {"list", "pick", "done"}
  /\ clock <= LastFailure /\ failures < MaxFailures
  /\ failures' = failures + 1
  /\ run' = [run EXCEPT ![p].pc = "pick"]
  /\ pull' = [pull EXCEPT ![p].errors = @ \cup {error}, ![p].streamed = 0]
  /\ UNCHANGED <<clock, stamp, slot, inbox, claims, ledger, canonical, events, swept, recon, sent>>
  /\ UNCHANGED <<remote, pulls, absence>>

\* No candidate is left, or the budget is spent and the rest is carried over.
\* A remembered TransientError fails the run now.
Finish(p) ==
  /\ AtNext(p)
  /\ pull[p].todo = {} \/ Exhausted(p)
  /\ IF "transient" \in pull[p].errors THEN Requeue(p)
     ELSE run' = [run EXCEPT ![p] = None] /\ UNCHANGED inbox
  /\ pull' = [pull EXCEPT ![p] = NotPulling]
  /\ UNCHANGED <<clock, stamp, slot, claims, ledger, canonical, events, background>>
  /\ UNCHANGED <<remote, pulls, absence>>

-------------------------------------------------------------------------------
\* _resume

\* The claim is gone: nothing to do.
ResumeGone(p, m) ==
  /\ m.batch # None /\ claims[m.batch] = None
  /\ p \notin Live /\ m \in inbox
  /\ inbox' = inbox \ {m}
  /\ UNCHANGED <<clock, stamp, slot, claims, ledger, canonical, events, run, background>>
  /\ UNCHANGED pullVars

\* The registration is rebuilt from the claim, whatever its status, and enters
\* at claim().  Its objects must all be in the canonical zone.
Resume(p, m) ==
  /\ m.batch # None /\ claims[m.batch] # None
  /\ LET item == claims[m.batch].id IN
     /\ <<item.delivery, item.batch>> \in canonical
     /\ Invoked(p, m, [Reading(p, m) EXCEPT !.pc = "claim", !.req = item, !.id = item])
  /\ UNCHANGED <<clock, stamp, slot, claims, ledger, canonical, events, background>>
  /\ UNCHANGED pullVars

-------------------------------------------------------------------------------
\* sweep_overdue

DayOf(t) == t \div Day

\* overdue_dates: the expected days, back to the lookback, whose deadline has
\* passed and on which no delivery that is registered now was received.
OverdueDates(received, now) ==
  {d \in 0..DayOf(now) :
     /\ DayOf(now) - d <= OverdueDays /\ now >= d * Day + Deadline
     /\ \A t \in received : DayOf(t) # d}

ScanOverdue ==
  /\ feed.expected /\ sweeper.pc = "idle" /\ sweeper.runs < MaxSweeps
  /\ LET received == {r.id.received : r \in RegisteredDeliveries(ledger)} IN
     sweeper' = [pc |-> "announce", runs |-> sweeper.runs + 1,
                 days |-> OverdueDates(received, clock)]
  /\ UNCHANGED <<vars, remote, pull, pulls, overdue, marked>>

\* The dates are walked in order.
NextDate == CHOOSE d \in sweeper.days : \A e \in sweeper.days : d <= e

\* Mutant: the date is marked before it is announced.
AnnounceMarkingFirst ==
  /\ sweeper.pc = "announce" /\ sweeper.days # {} /\ NextDate \notin marked
  /\ marked' = marked \cup {NextDate}
  /\ sweeper' = [sweeper EXCEPT !.pc = "mark"]
  /\ UNCHANGED <<vars, remote, pull, pulls, overdue>>

Announce ==
  /\ sweeper.pc = "announce" /\ sweeper.days # {} /\ NextDate \notin marked
  /\ overdue' = overdue \cup {NextDate}
  /\ sweeper' = [sweeper EXCEPT !.pc = "mark"]
  /\ UNCHANGED <<vars, remote, pull, pulls, marked>>

Mark ==
  /\ sweeper.pc = "mark"
  /\ marked' = marked \cup {NextDate}
  /\ sweeper' = [sweeper EXCEPT !.pc = "announce", !.days = @ \ {NextDate}]
  /\ UNCHANGED <<vars, remote, pull, pulls, overdue>>

\* A marked date was announced by an earlier sweep.
SkipMarked ==
  /\ sweeper.pc = "announce" /\ sweeper.days \cap marked # {} /\ NextDate \in marked
  /\ sweeper' = [sweeper EXCEPT !.days = @ \ {NextDate}]
  /\ UNCHANGED <<vars, remote, pull, pulls, overdue, marked>>

\* The sweep ends, or dies wherever it is.
SweepEnds ==
  /\ sweeper.pc # "idle"
  /\ sweeper' = [sweeper EXCEPT !.pc = "idle", !.days = {}]
  /\ UNCHANGED <<vars, remote, pull, pulls, overdue, marked>>

-------------------------------------------------------------------------------
PullInit ==
  /\ RegistrationInit
  /\ feed \in Feeds
  /\ mtime = [s \in Slot |-> 0] /\ parts = {}
  /\ pull = [p \in Run |-> NotPulling] /\ pulls = 0
  /\ sweeper = [pc |-> "idle", runs |-> 0, days |-> {}]
  /\ overdue = {} /\ marked = {}

\* The steps of a registration, the same whatever the driver.
Register(p) ==
  /\ \/ ClaimWin(p) \/ ClaimLose(p) \/ ClaimRead(p) \/ ClaimTake(p)
     \/ Plan(p) \/ AppendRows(p) \/ Emit(p) \/ Complete(p)
     \/ (~Pulling(p) /\ ClaimVanished(p))
  /\ UNCHANGED pullVars

\* The claim expired between the PutItem and the GetItem of a file.
FileVanished(p) ==
  /\ Pulling(p) /\ At(p, "read") /\ claims[run[p].req.batch] = None
  /\ run' = [run EXCEPT ![p].pc = "pick"]
  /\ pull' = [pull EXCEPT ![p].errors = @ \cup {"transient"}, ![p].streamed = 0]
  /\ UNCHANGED <<clock, stamp, slot, inbox, claims, ledger, canonical, events, background>>
  /\ UNCHANGED <<remote, pulls, absence>>

\* A resumed registration is the whole invocation.
EndResume(p) == ~Pulling(p) /\ Return(p) /\ UNCHANGED pullVars

\* The invocation is killed or times out.
Kill(p) ==
  /\ Fail(p)
  /\ pull' = [pull EXCEPT ![p] = NotPulling]
  /\ UNCHANGED <<remote, pulls, absence>>

Drive(p) ==
  \/ List(p) \/ Pick(p) \/ Stream(p) \/ NothingToCopy(p) \/ Finish(p)
  \/ Register(p) \/ FileVanished(p) \/ EndResume(p)

PullNext ==
  \/ \E u \in feed.uploads : Upload(u[1], u[2])
  \/ \E c \in Content : SweepStuck(c) \/ (Reap(c) /\ UNCHANGED pullVars)
  \/ \E c \in Content : \E o \in feed.declares[c] : PartArrives(o)
  \/ \E force \in BOOLEAN : Schedule(force)
  \/ \E p \in Run, m \in inbox : Begin(p, m) \/ Resume(p, m) \/ ResumeGone(p, m)
  \/ \E p \in Run : Drive(p) \/ Kill(p) \/ \E e \in {"transient", "unexpected"} : FileFails(p, e)
  \/ \E m \in inbox : Expire(m) /\ UNCHANGED pullVars
  \/ Tick /\ UNCHANGED pullVars
  \/ ScanOverdue \/ Announce \/ Mark \/ SkipMarked \/ SweepEnds

PullSpec == PullInit /\ [][PullNext]_allVars

-------------------------------------------------------------------------------
\* Every variable holds what the code stores in it.
PullTypeOK ==
  /\ feed \in Feeds /\ mtime \in [Slot -> Nat] /\ parts \subseteq Object \X Nat
  /\ \A s \in Slot : slot[s] # None => <<s, slot[s]>> \in feed.uploads
  /\ \A b \in Content : claims[b] # None => claims[b] \in Claim /\ claims[b].id.batch = b
  /\ ledger \subseteq Row /\ events \subseteq Identity /\ canonical \subseteq Nat \X Content
  /\ \A p \in Run :
       /\ p \in Live => run[p] \in PullRun
       /\ pull[p].todo \subseteq Slot /\ pull[p].parts \subseteq Object
       /\ pull[p].bytes \in Nat /\ pull[p].streamed \in Nat
       /\ pull[p].errors \subseteq {"transient", "unexpected"}
       /\ p \in Live /\ run[p].pc \notin {"list", "pick", "stream"}
            => run[p].req \in Identity /\ run[p].id \in Identity
       /\ p \notin Live => pull[p] = NotPulling
  /\ overdue \subseteq Nat /\ marked \subseteq Nat

\* "By the time a resumable ClaimItem exists at all, every object was already
\* streamed to canonical before the claim": whatever runs die, race or take
\* over, and whatever the partner overwrites meanwhile, the canonical zone holds
\* the very content a claim names, under the delivery the claim names, and so
\* does it for every event.
StagedBeforeClaim ==
  /\ \A b \in Content : claims[b] # None => <<claims[b].id.delivery, b>> \in canonical
  /\ \A e \in events : <<e.delivery, e.batch>> \in canonical

\* A registered delivery is never demoted to a duplicate of itself, unless the
\* sweep sent a resume for it: only a resume, which does not look at the status
\* of the claim it rebuilds its request from, registers again under an identity
\* that is not its own.
SelfDuplicateOnlyAfterResume ==
  \A r, q \in ledger :
    r.disp = "registered" /\ q.disp = "duplicate" /\ r.id.delivery = q.id.delivery
    => swept[r.id.batch] >= 0

\* A date is marked only when it was announced: whenever the sweep dies, the
\* date is announced by a later one.
MarkedIsAnnounced == marked \subseteq overdue

\* A scheduled run of a trailer or timer feed never takes again a file that any
\* row of its lookback notes under the same name and size, whatever became of
\* that delivery since: registered, superseded, a duplicate or defective.
NotedIsNotTakenAgain ==
  [][\A p \in Run : At(p, "list") /\ ~run[p].msg.force /\ feed.mode # "manifest" =>
       \A s \in pull'[p].todo : \A r \in pull[p].rows :
         <<s, SizeOf[slot[s]]>> \notin r.id.objects]_allVars

\* The ledger tells of the file in slot s: it has a row that lists its name and
\* size, or its content is registered under another name, or it is a manifest
\* and the ledger has the verdict of run p on its key, with the parts observed.
Told(p, s) ==
  LET c == slot[s] IN
  \E r \in ledger :
    \/ <<s, SizeOf[c]>> \in r.id.objects
    \/ r.disp = "registered" /\ r.id.batch = c
    \/ /\ feed.mode = "manifest" /\ r.disp = Judged(p, c)
       /\ r.id.key = feed.key[<<s, c>>] /\ r.id.objects = Objects(p, s, c)

\* A run that succeeds overlooks nothing: when its listing held every file, no
\* file of it raised and none was carried over, the ledger tells of every file
\* that was there, was quiet and is unchanged.  The file may go without a row of
\* its own when its run took over a claim of the same content in another slot:
\* the row then carries the identity of the claim.  Two versions of a
\* manifest with one verdict and the same parts observed share a row.
NothingOverlooked ==
  [][\A p \in Run :
       /\ AtNext(p) /\ run'[p] = None /\ failures' = failures
       /\ pull[p].errors = {} /\ pull[p].todo = {} /\ ~feed.operator
       => \A s \in Slot :
            slot[s] # None /\ Quiet(s, run[p].started) /\ mtime[s] < run[p].started
            => Told(p, s)]_allVars

================================================================================
