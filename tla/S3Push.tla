-------------------------------- MODULE S3Push --------------------------------
(***************************************************************************)
(* A feed with the s3-push driver (ingestion/drivers/s3_push.py): the      *)
(* partner puts an object in the vestibule, EventBridge invokes the        *)
(* registrar with its key, and the hourly sweep (absence/detector.py)      *)
(* invokes it again for a claim left in progress.                          *)
(*                                                                         *)
(* An upload is the object whose key the event names: the single object of *)
(* a trailer feed, or the manifest, with its parts, of a manifest feed.    *)
(***************************************************************************)
EXTENDS Registration

CONSTANTS
  Uploads,   \* the <<slot, content>> pairs a partner may put
  KeyOf,     \* delivery_key of each: the basename, or the manifest_id
  ObjectsOf, \* what each stages, or what is observed of it when it is defective
  Verdict,   \* what core.completeness says of each content
  MaxSent    \* bound on the uploads and redeliveries of a behaviour

ASSUME S3PushAssumption ==
  /\ Uploads \subseteq Slot \X Content
  /\ KeyOf \in [Uploads -> Key] /\ ObjectsOf \in [Uploads -> SUBSET Object]
  /\ Verdict \in [Content -> {"complete", "incomplete", "unreadable"}]
  /\ MaxSent \in Nat

\* The event names the key alone.
Event(s) == [slot |-> s, rid |-> stamp + 1, tries |-> 0, born |-> clock]

\* The partner puts or overwrites an object.
Upload(s, c) ==
  /\ sent < MaxSent /\ slot[s] # c
  /\ slot' = [slot EXCEPT ![s] = c]
  /\ inbox' = inbox \cup {Event(s)}
  /\ stamp' = stamp + 1 /\ sent' = sent + 1
  /\ UNCHANGED <<clock, claims, ledger, canonical, events, run, swept, recon, failures>>

\* Events are delivered at least once: a copy is a new invocation.
Redeliver(m) ==
  /\ sent < MaxSent
  /\ inbox' = inbox \cup {[m EXCEPT !.rid = stamp + 1]}
  /\ stamp' = stamp + 1 /\ sent' = sent + 1
  /\ UNCHANGED <<clock, slot, claims, ledger, canonical, events, run, swept, recon, failures>>

\* The delivery a run acquires from the slot of m, as the slot is now.
Acquired(m) ==
  LET c == slot[m.slot] IN
  [delivery |-> stamp + 1, slot |-> m.slot, key |-> KeyOf[<<m.slot, c>>], batch |-> c,
   received |-> clock, objects |-> ObjectsOf[<<m.slot, c>>]]

\* s3_push.acquire up to its registration: hash the object, judge it, read the
\* clock, mint a delivery id.  A defective object goes to record_nondelivery,
\* which claims nothing.
Start(p, m) ==
  LET verdict == Verdict[slot[m.slot]] IN
  /\ Invoked(p, m,
       [pc |-> IF verdict = "complete" THEN "claim" ELSE "plan",
        msg |-> m, req |-> Acquired(m), id |-> Acquired(m),
        kind |-> IF verdict = "complete" THEN "none" ELSE verdict,
        owner |-> 0, at |-> 0, started |-> clock, rows |-> {}])
  /\ stamp' = stamp + 1
  /\ UNCHANGED <<clock, slot, claims, ledger, canonical, events, background>>

\* sweep_stuck_claims replays the event of the claim's recorded trigger key.
Sweep(b) ==
  /\ Stuck(claims[b], clock) /\ clock - swept[b] >= SweepPeriod
  /\ swept' = [swept EXCEPT ![b] = clock]
  /\ inbox' = inbox \cup {Event(claims[b].id.slot)}
  /\ stamp' = stamp + 1
  /\ UNCHANGED <<clock, slot, claims, ledger, canonical, events, run, recon, failures, sent>>

Next ==
  \/ \E u \in Uploads : Upload(u[1], u[2])
  \/ \E m \in inbox : Redeliver(m) \/ \E p \in Run : Start(p, m)
  \/ \E b \in Content : Sweep(b)
  \/ RegistrationNext

Spec == RegistrationInit /\ [][Next]_vars

\* The platform runs what it accepted, invocations proceed, time passes and the
\* hourly sweep keeps running.
Fairness ==
  /\ \A p \in Run : WF_vars(Advance(p))
  /\ WF_vars(\E p \in Run, m \in inbox : Start(p, m))
  /\ \A b \in Content : WF_vars(Sweep(b))
  /\ WF_vars(Tick)

FairSpec == Spec /\ Fairness

-------------------------------------------------------------------------------
\* Every variable holds what the code stores in it.
TypeOK ==
  /\ clock \in Nat /\ stamp \in Nat
  /\ slot \in [Slot -> Content \cup {None}]
  /\ \A s \in Slot : slot[s] # None => <<s, slot[s]>> \in Uploads
  /\ inbox \subseteq Message /\ \A m \in inbox : slot[m.slot] # None
  /\ claims = [b \in Content |-> claims[b]]
  /\ \A b \in Content : claims[b] # None => claims[b] \in Claim /\ claims[b].id.batch = b
  /\ ledger \subseteq Row
  /\ canonical \subseteq Nat \X Content
  /\ events \subseteq Identity
  /\ run = [p \in Run |-> run[p]]
  /\ \A p \in Live : run[p] \in RunState /\ run[p].rows \subseteq Row
  /\ swept \in [Content -> Int]
  /\ recon \in [busy : BOOLEAN, rows : SUBSET Row, runs : Nat]

\* What the spine is told is real: a delivery-registered event is about a
\* delivery whose registered row is in the ledger and whose canonical objects
\* hold the very content that was hashed, although the partner may overwrite
\* the vestibule object at any time (execute's order E1, E2, E3; the pinned
\* copy).
EventBacked ==
  \A e \in events :
    /\ <<e.delivery, e.batch>> \in canonical
    /\ \E r \in ledger : r.id = e /\ r.disp = "registered"

\* A completed claim turns every later copy of the content into a duplicate, so
\* the content must have been announced, whoever completed the claim.
CompletedBacked ==
  \A b \in Content :
    claims[b] # None /\ claims[b].status = "completed" => \E e \in events : e.batch = b

\* One content is registered under two identities only when the first claim
\* had expired.
ReRegistrationOnlyAfterTTL ==
  \A r, q \in ledger :
    /\ r.disp = "registered" /\ q.disp = "registered"
    /\ r.id.batch = q.id.batch /\ r.id.delivery < q.id.delivery
    => q.id.received - r.id.received > ClaimTTL - LambdaMax

\* A key that was ever registered keeps a live delivery, whatever the races of
\* corrections, takeovers and late appends.  The weekly job has no such promise:
\* its append of a plan made on an older snapshot is unconditional.
KeyStaysLive ==
  recon.runs = 0 =>
    \A r \in ledger : r.disp = "registered" =>
      \E q \in RegisteredDeliveries(ledger) : q.id.key = r.id.key

\* p's takeover of b succeeds in this step.
Takes(p, b) ==
  At(p, "take") /\ run[p].req.batch = b /\ run'[p] # None /\ run'[p].kind = "TAKEN_OVER"

\* A takeover never displaces the first attempt of an invocation, nor meets one
\* that won the claim (the staleness threshold against the Lambda timeout): a
\* first attempt that works for the content at that moment took it over itself
\* and was displaced by somebody else.  A retry can be met: between p's read and
\* its update it may take the claim over under the request id it shares with the
\* owner p observed.
TakeoverFindsOwnerDead ==
  [][\A p \in Run, b \in Content : Takes(p, b) =>
       \A q \in Run \ {p} : Executes(q, b) /\ run[q].msg.tries = 0 =>
         run[q].kind = "TAKEN_OVER" /\ run[q].msg.rid # run[p].owner]_vars

\* "Never a silent skip": whichever side of a race it was on, an invocation that
\* returns leaves in the ledger the content it registered or lost, or the verdict
\* on the defective delivery it read, with the objects it observed.  A defective
\* delivery is told by names and byte counts alone: another content with the
\* same ones shares the row of the first.
NoSilentSkip ==
  [][\A p \in Run : At(p, "done") /\ run'[p] = None /\ failures' = failures =>
       LET req == run[p].req IN
       \E r \in ledger :
         IF run[p].kind \in {"incomplete", "unreadable"}
         THEN r.disp = run[p].kind /\ r.id.key = req.key /\ r.id.objects = req.objects
         ELSE r.id.batch = req.batch]_vars

\* When nothing changed the live duplicates between the weekly query and its
\* append, every key is left with one live delivery, the newest.
ReconcileKeepsTheNewest ==
  [][LET live == RegisteredDeliveries(ledger) IN
     recon.busy /\ stamp' # stamp /\ ~recon'.busy /\ recon.rows = LiveDuplicates(ledger)
     => RegisteredDeliveries(ledger') =
          {r \in live : \A q \in live : q.id.key = r.id.key => q.id.delivery <= r.id.delivery}]_vars

\* A claim left in progress is completed by somebody.
StuckClaimCompletes ==
  \A b \in Content :
    claims[b] # None /\ claims[b].status = "in_progress"
      ~> claims[b] # None /\ claims[b].status = "completed"

-------------------------------------------------------------------------------
\* What the design says and the code does not do.

\* "current delivery per delivery_key is a fold (latest received_at wins)": the
\* newest delivery ever registered for a key stays live.
NewestStaysLive ==
  \A r \in ledger : r.disp = "registered" =>
    \E q \in RegisteredDeliveries(ledger) :
      q.id.key = r.id.key /\ q.id.delivery >= r.id.delivery

\* "a stale in_progress claim provably has no live owner": the run that takes a
\* claim over is then the only one that works for it.
SingleExecutor ==
  \A b \in Content, p, q \in Run : Executes(p, b) /\ Executes(q, b) => p = q

================================================================================
