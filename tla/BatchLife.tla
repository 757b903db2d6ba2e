------------------------------- MODULE BatchLife -------------------------------
(***************************************************************************)
(* What the durable tables promise of one batch to whoever reads them      *)
(* (src/design/004_runner_spine.md): its raw rows, the rows refused before *)
(* and after the transforms and its facts are each written at most once    *)
(* and never changed, nothing is refused any more once facts exist, and    *)
(* what is announced as completed is everything that was committed, all of *)
(* it folded.                                                              *)
(*                                                                         *)
(* Attempts, retries, reruns, redeployments and provisioning do not show   *)
(* here.                                                                   *)
(***************************************************************************)

CONSTANT None

VARIABLES
  raw,        \* the landed rows, each with its locator
  preq,       \* the rows refused by the raw contract
  postq,      \* the candidates refused by the business checks
  facts,      \* fact table -> its rows of this batch
  folded,     \* the fact tables whose rows are in their state table
  closed,     \* the completion marker
  announced   \* the tables counted by the last batch-completed, None before

vars == <<raw, preq, postq, facts, folded, closed, announced>>

Init ==
  /\ raw = {} /\ preq = {} /\ postq = {}
  /\ DOMAIN facts = {} /\ folded = {}
  /\ closed = FALSE /\ announced = None

Land ==
  /\ raw = {} /\ raw' # {}
  /\ UNCHANGED <<preq, postq, facts, folded, closed, announced>>

RefuseRaw ==
  /\ raw # {} /\ preq = {} /\ preq' # {}
  /\ DOMAIN facts = {}
  /\ UNCHANGED <<raw, postq, facts, folded, closed, announced>>

RefuseCandidates ==
  /\ raw # {} /\ postq = {} /\ postq' # {}
  /\ DOMAIN facts = {}
  /\ UNCHANGED <<raw, preq, facts, folded, closed, announced>>

\* One more table; what is committed stays.
Commit ==
  /\ raw # {}
  /\ \E t \in DOMAIN facts' : /\ t \notin DOMAIN facts
                              /\ DOMAIN facts' = DOMAIN facts \cup {t}
  /\ \A t \in DOMAIN facts : facts'[t] = facts[t]
  /\ UNCHANGED <<raw, preq, postq, folded, closed, announced>>

Fold ==
  /\ \E t \in DOMAIN facts : folded' = folded \cup {t}
  /\ UNCHANGED <<raw, preq, postq, facts, closed, announced>>

Close ==
  /\ closed' = TRUE
  /\ UNCHANGED <<raw, preq, postq, facts, folded, announced>>

Announce ==
  /\ closed /\ DOMAIN facts \subseteq folded
  /\ announced' = DOMAIN facts
  /\ UNCHANGED <<raw, preq, postq, facts, folded, closed>>

Next == Land \/ RefuseRaw \/ RefuseCandidates \/ Commit \/ Fold \/ Close \/ Announce

Spec == Init /\ [][Next]_vars
================================================================================
