-------------------------------- MODULE Record --------------------------------
(***************************************************************************)
(* What the record of a pipeline promises: facts are durable and are       *)
(* appended once per batch and table; the state holds, for every table and *)
(* domain, the fact that wins the declared order.  BatchRun and Rebuild    *)
(* implement this.                                                         *)
(*                                                                         *)
(* A row is the content_hash of a fact: a natural, compared as the code    *)
(* compares the hashes, which determines every declared column and so the  *)
(* table, record_key, domain_id and the declared ordering columns.         *)
(* Batches are numbered in the order of (received_at, batch_id).           *)
(***************************************************************************)
EXTENDS Naturals

CONSTANTS
  Batch,
  Row,
  TableOf,   \* the fact table of each row
  DomainOf,  \* its domain_id
  Ordering   \* its declared ordering columns, which compare first

ASSUME RecordAssumption ==
  /\ Batch \subseteq Nat /\ Row \subseteq Nat
  /\ Ordering \in [Row -> Nat]

VARIABLES
  facts,  \* the rows of every fact table
  state   \* the rows of every state table, each the winning fact whole

Fact == [batch : Batch, row : Row]

Table(f) == TableOf[f.row]

SameDomain(f, g) == Table(f) = Table(g) /\ DomainOf[f.row] = DomainOf[g.row]

\* The strict order of the MERGE condition and of the reduce: the declared
\* columns, then source_ts = received_at, then content_hash.
Beats(f, g) ==
  \/ Ordering[f.row] > Ordering[g.row]
  \/ /\ Ordering[f.row] = Ordering[g.row]
     /\ f.batch > g.batch \/ (f.batch = g.batch /\ f.row > g.row)

\* reduce_batch_winners: of each domain the fact that no other beats.
Winners(F) == {f \in F : \A g \in F : SameDomain(f, g) => ~Beats(g, f)}

\* Mutant: the MERGE has lost its condition.
MergedUnconditionally(target, source) ==
  {s \in target : ~\E w \in source : SameDomain(w, s)} \cup source

\* The conditional MERGE of reduced facts: a source row is inserted for a domain
\* without a row, and replaces a row that it beats.
Merged(target, source) ==
  {s \in target : ~\E w \in source : SameDomain(w, s) /\ Beats(w, s)}
    \cup {w \in source : \A s \in target : SameDomain(w, s) => Beats(w, s)}

FactsOf(b, t) == {f \in facts : f.batch = b /\ Table(f) = t}

Init == facts = {} /\ state = {}

\* One batch adds its facts to one table, for good.
Commit ==
  /\ facts \subseteq facts' /\ facts' # facts
  /\ \E f \in facts' \ facts :
       /\ \A g \in facts' \ facts : g.batch = f.batch /\ Table(g) = Table(f)
       /\ FactsOf(f.batch, Table(f)) = {}
  /\ UNCHANGED state

\* Facts are folded into the state: nothing but facts enters it, and nothing
\* leaves it but to a fact that beats it.
Absorb ==
  /\ state' \subseteq state \cup facts
  /\ state' = Winners(state \cup state')
  /\ UNCHANGED facts

Next == Commit \/ Absorb

Spec == Init /\ [][Next]_<<facts, state>>

================================================================================
