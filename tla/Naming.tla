------------------------------- MODULE Naming -------------------------------
(***************************************************************************)
(* The names the spine composes and the arguments a job is started with    *)
(* (core/naming.py, core/args.py, config.py): a pipeline's slug, the       *)
(* tables and URIs derived from it, and the parse of argv.                 *)
(*                                                                         *)
(* A pipeline is a sequence of characters; Lower, Upper and Digits stand   *)
(* for their classes.  A table is a sequence of dot-components, each a     *)
(* sequence of characters, of which a generated suffix counts as one.  A   *)
(* spec URI is [scheme, segments], the bucket of an s3 URI its first       *)
(* segment; an object URI is [bucket, feed_id, received_at, delivery_id,   *)
(* name], the name one of a few shapes.                                    *)
(***************************************************************************)
EXTENDS Naturals, Sequences, FiniteSets, SequencesExt, TLC

CONSTANT None       \* an absent value

Lower    == {"a", "b", "c", "p"}
Upper    == {"A", "_"}
Digits   == {"0", "1"}
TableSuffixes == {"__raw", "__quarantine", "__facts", "__state", "__markers"}

Elems(s) == {s[i] : i \in DOMAIN s}
\* f with the value v at x.
Put(f, x, v) == [y \in DOMAIN f \cup {x} |-> IF y = x THEN v ELSE f[y]]
NoRepeats(s) == \A i, j \in DOMAIN s : s[i] = s[j] => i = j

-----------------------------------------------------------------------------
(* The pipeline grammar: segments joined by "/", each opening with a       *)
(* letter or a digit and holding no two dashes in a row.                   *)
PipelineOK(p) ==
  /\ p # <<>> /\ p[Len(p)] # "/"
  /\ \A i \in DOMAIN p :
       /\ p[i] \in Lower \cup Digits \cup {"-", "/"}
       /\ i = 1 \/ p[i - 1] = "/" => p[i] \in Lower \cup Digits
       /\ i < Len(p) /\ p[i] = "-" => p[i + 1] # "-"

slug(p) == FlattenSeq([i \in DOMAIN p |-> IF p[i] = "/" THEN <<"-", "-">> ELSE <<p[i]>>])

\* Mutant: pairs of dashes are decoded first.
unslug_pairs(v) ==
  LET from[i \in 1..(Len(v) + 1)] ==
        IF i > Len(v) THEN <<>>
        ELSE IF i < Len(v) /\ v[i] = "-" /\ v[i + 1] = "-" THEN <<"/">> \o from[i + 2]
        ELSE <<v[i]>> \o from[i + 1]
  IN from[1]

(* Left to right, a run of three dashes decodes to "-/" and one of two to  *)
(* "/".                                                                    *)
Dashes(v, i, n) == i + n - 1 <= Len(v) /\ \A k \in i..(i + n - 1) : v[k] = "-"
Decodes(v) ==
  LET from[i \in 1..(Len(v) + 1)] ==
        CASE i > Len(v)      -> <<>>
          [] Dashes(v, i, 3) -> <<"-", "/">> \o from[i + 3]
          [] Dashes(v, i, 2) /\ ~Dashes(v, i, 3) -> <<"/">> \o from[i + 2]
          [] OTHER           -> <<v[i]>> \o from[i + 1]
  IN from
unslug(v) == Decodes(v)[1]

(* The trailing segment alone, for the names of tables.                    *)
table_slug(p) == SubSeq(p, SelectLastInSeq(p, LAMBDA c : c = "/") + 1, Len(p))

(* A qualified table: two or more identifiers.                             *)
Identifier(c) ==
  /\ c # <<>> /\ c[1] \in Lower \cup Upper
  /\ Elems(c) \subseteq Lower \cup Upper \cup Digits \cup TableSuffixes
check_qualified_table(t) == Len(t) >= 2 /\ \A c \in Elems(t) : Identifier(c)

(* Derived, never checked where it is derived; only used where it is an    *)
(* identifier, since every read and write qualifies it.                    *)
markers_table(raw_table, pipeline) ==
  <<raw_table[1], Append(table_slug(pipeline), "__markers")>>

table_class_inventory_uri(uri) ==
  [uri EXCEPT !.segments = Append(Front(uri.segments), <<"table-classes.json">>)]

(* An execution is named by its batch; a deliberate rerun adds --r<n>.     *)
execution_name(batch_id) == <<batch_id>>
rerun_execution_name(batch_id, n) == <<batch_id, n>>
is_rerun_execution_name(name) == Len(name) = 2

(* Every object of a delivery lies under its own landing prefix, its name  *)
(* one plain segment.                                                      *)
BadObjectNames == {"", ".", "..", "a/b", "a%2fb"}
check_object_uris(seed, landing_bucket) ==
  \A u \in Elems(seed.object_uris) :
    /\ u.bucket = landing_bucket
    /\ <<u.feed_id, u.received_at, u.delivery_id>> =
         <<seed.feed_id, seed.received_at, seed.delivery_id>>
    /\ u.name \notin BadObjectNames

(* The first "spine" segment is to open spine/specs/<slug>/<file>.         *)
SpecsRoot == <<<<"spine">>, <<"specs">>>>
check_spec_uri_allowlist(uri, pipeline_slug, artifacts_bucket) ==
  LET segments == SelectSeq(uri.segments, LAMBDA s : s \notin {<<>>, <<".">>})
      root     == SelectInSeq(segments, LAMBDA s : s = SpecsRoot[1])
      expected == Append(SpecsRoot, pipeline_slug)
  IN /\ uri.scheme \in {"s3", "file"}
     /\ uri.scheme = "s3" => uri.segments[1] = <<artifacts_bucket>>
     /\ <<"..">> \notin Elems(segments)
     /\ root > 0 /\ Len(segments) > root + 2
     /\ SubSeq(segments, root, root + 2) = expected

-----------------------------------------------------------------------------
(* argv: a token is [form, key, value], of form "flag" (--key), "equals"   *)
(* (--key=value) or "plain".  The last occurrence of a key counts, a flag  *)
(* without a value maps to "".                                             *)
parse_args(argv) ==
  LET keyed == {i \in DOMAIN argv : argv[i].form # "plain"}
      last(key) == Max({i \in keyed : argv[i].key = key})
      valued(i) == i < Len(argv) /\ argv[i + 1].form = "plain"
      value(i) == IF argv[i].form = "equals" THEN argv[i].value
                  ELSE IF valued(i) THEN argv[i + 1].value ELSE ""
  IN [key \in {argv[i].key : i \in keyed} |-> value(last(key))]

ARGV_KEYS ==
  {"env", "aws-region", "catalog-kind", "ledger-catalog-kind", "spine-db",
   "run-ledger-table", "event-bus", "landing-bucket", "artifacts-bucket",
   "pipeline-spec-uri", "delivery", "sfn-retry-count", "sfn-redrive-count",
   "run-config", "sla-minutes"}

(* RunnerConfig: every key present, the two catalog kinds of their         *)
(* literals, the counts numbers; the attempt's id from the override or     *)
(* else from Glue.  None when from_args raises.                            *)
IntTexts == {"0", "1", "2", "60", "90"}
from_args(argv) ==
  LET parsed == parse_args(argv)
      attempt == CASE "attempt-id" \in DOMAIN parsed -> parsed["attempt-id"]
                   [] "attempt-id" \notin DOMAIN parsed /\ "JOB_RUN_ID" \in DOMAIN parsed ->
                        parsed["JOB_RUN_ID"]
                   [] OTHER -> None
  IN IF /\ attempt # None
        /\ ARGV_KEYS \subseteq DOMAIN parsed
        /\ parsed["catalog-kind"] \in {"glue", "hadoop"}
        /\ parsed["ledger-catalog-kind"] \in {"glue", "sql"}
        /\ {parsed["sfn-retry-count"], parsed["sfn-redrive-count"], parsed["sla-minutes"]}
             \subseteq IntTexts
     THEN [k \in ARGV_KEYS |-> parsed[k]] @@ [attempt_id |-> attempt]
     ELSE None
=============================================================================
