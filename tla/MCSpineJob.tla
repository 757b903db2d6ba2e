------------------------------ MODULE MCSpineJob ------------------------------
(***************************************************************************)
(* The scenes of SpineJob for TLC: one sound delivery, and what differs    *)
(* from it: its contents, its spec, its name, its arguments, and what      *)
(* happens while it runs.                                                  *)
(***************************************************************************)
EXTENDS SpineJob

(* Lists of scenes. *)
Cross(xs, ys) == [i \in 1..(Len(xs) * Len(ys)) |-> <<xs[((i - 1) \div Len(ys)) + 1], ys[((i - 1) % Len(ys)) + 1]>>]
Each(xs, f(_)) == [i \in DOMAIN xs |-> f(xs[i])]

MCIdentifiers == {"id", "name", "amount", "day", "f1", "f2", "ref", "k1", "k2", "k3", "batch_id",
                  "_conveyer_x", "business/k1", "business/k2", "n", "reason_code", "business/missing-domain-id", "missing-domain-id"}
MCInts == [c \in {"0", "1", "2", "3", "9", "90"} |->
             CASE c = "0" -> 0 [] c = "1" -> 1 [] c = "2" -> 2 [] c = "3" -> 3 [] c = "9" -> 9 [] c = "90" -> 90]
MCDates == [c \in {"d1", "d2"} |-> IF c = "d1" THEN 1 ELSE 2]
MCMatching == ("[ab]" :> {"a", "b"}) @@ ("(?<x>a)" :> {"a"}) @@ ("(?P<x>a)" :> {"a"})

-----------------------------------------------------------------------------
(* The sound spec and delivery.                                            *)
PA == <<"p", "/", "a">>
Db == <<"c">>
T(suffix) == <<Db, <<"a", suffix>>>>
Other == <<Db, <<"b", "__state">>>>
Type(kind) == [kind |-> kind, fmt |-> IF kind \in Temporal THEN "yyyy-MM-dd" ELSE None, precision |-> 0, scale |-> 0]
DecimalType == [kind |-> "decimal", fmt |-> None, precision |-> 2, scale |-> 1]

Col(name, type, nullable) ==
  [name |-> name, type |-> type, required |-> ~nullable, nullable |-> nullable,
   allowed |-> None, pattern |-> None, min |-> None, max |-> None]
FactCol(name, type) == [name |-> name, type |-> type]
Id == Col("id", Type("int"), FALSE)
Name == Col("name", Type("string"), TRUE)

Ft(fact, state) ==
  [fact_table |-> T(fact), state_table |-> T(state),
   columns |-> <<FactCol("id", Type("int")), FactCol("name", Type("string"))>>,
   domain_id_col |-> "id", record_key |-> <<"id">>, ordering |-> <<"name">>]

RowCheck(id, expr) ==
  [kind |-> "row", id |-> id, fact_type |-> "f1", expr |-> expr, reason |-> "business/k1",
   columns |-> <<>>, co_effect |-> None, ref_columns |-> <<>>]
Member(id) ==
  [kind |-> "membership", id |-> id, fact_type |-> "f1", expr |-> None, reason |-> "business/k2",
   columns |-> <<"name">>, co_effect |-> "ref", ref_columns |-> <<"n">>]

Cx(n) == Leaf("Column", n)
Str(v) == Leaf("String", v)
Num(v) == Leaf("Number", v)

Base ==
  [pipeline |-> PA, sla |-> "60", repeated |-> {}, fold |-> "last",
   module |-> [importable |-> TRUE, apply_arity |-> 2, returns |-> {"f1"},
               exports_post_check |-> FALSE, exports_fold |-> FALSE],
   raw_table |-> T("__raw"), quarantine_table |-> T("__quarantine"),
   read |-> [delimiter |-> "comma", quote |-> "quote", header |-> TRUE, multiline |-> FALSE,
             skip |-> 0, compression |-> "none"],
   columns |-> <<Id, Name>>, forbid_replacement_chars |-> FALSE,
   fact_types |-> ("f1" :> Ft("__facts", "__state")), checks |-> <<>>, co_effects |-> << >>]

TwoTypes ==
  [Base EXCEPT !.fact_types = @ @@ ("f2" :> [Ft("__facts", "__state") EXCEPT
                                             !.fact_table = <<Db, <<"a", "__facts", "b">>>>,
                                             !.state_table = <<Db, <<"a", "__state", "b">>>>]),
               !.module.returns = {"f1", "f2"}]

(* What the two scripts leave behind for a spec.                           *)
StepsOf(s) == AdmissionSteps(s) \o RecordSteps(s)
TableOf(step, rows) == [class |-> step.class, columns |-> step.columns, rows |-> rows]
Provisioned(s) ==
  [t \in {StepsOf(s)[i].table : i \in DOMAIN StepsOf(s)} |->
     TableOf(CHOOSE x \in Elems(StepsOf(s)) : x.table = t, <<>>)]
RefTable(rows) == [class |-> "state", columns |-> Of({"n"}, StringType), rows |-> rows]
Ref(n) == [k \in {"n"} |-> n]

L(cells) == [cells |-> cells, shape |-> "plain"]
Odd(cells, shape) == [cells |-> cells, shape |-> shape]
Header == L(<<"id", "name">>)
Obj(rank, lines) == [rank |-> rank, readable |-> TRUE, ext |-> "csv", lines |-> lines]
TwoRows == Obj(1, <<Header, L(<<"1", "a">>), L(<<"2", "">>)>>)

Uri(name) == [bucket |-> "landing", feed_id |-> "f", received_at |-> 1, delivery_id |-> "d", name |-> name]
Detail ==
  [fields |-> V1_FIELDS, version |-> 1, pipeline |-> PA, feed_id |-> "f", delivery_id |-> "d",
   batch_id |-> "b", received_at |-> 1, object_uris |-> <<Uri("o1")>>, size |-> 1]

Eq(key, value) == Token("equals", key, value)
Arguments ==
  <<Eq("env", "x"), Eq("aws-region", "x"), Eq("catalog-kind", "glue"), Eq("ledger-catalog-kind", "glue"),
    Eq("spine-db", "x"), Eq("run-ledger-table", "x"), Eq("event-bus", "x"), Eq("landing-bucket", "landing"),
    Eq("artifacts-bucket", "artifacts"), Eq("pipeline-spec-uri", "uri"), Eq("run-config", "config"),
    Token("flag", "sla-minutes", ""), Token("plain", "", "60")>>
SpecUri == [scheme |-> "s3", segments |-> <<<<"artifacts">>, <<"spine">>, <<"specs">>, slug(PA), <<"spec.yaml">>>>]

NoBudget == [faults |-> 0, losses |-> 0, reruns |-> 0, refreshes |-> 0, scripts |-> 0]
Plain0 ==
  [specs |-> <<Base>>, details |-> {Detail}, machines |-> {slug(PA)}, argv |-> Arguments, uri |-> SpecUri,
   objects |-> ("o1" :> TwoRows), catalog |-> Provisioned(Base) @@ (Other :> RefTable(<<Ref("a")>>)),
   inventory |-> build_table_class_inventory(Base) @@ (Other :> "state"), refreshed |-> << >>,
   budget |-> NoBudget]

WithSpec(s) ==
  [Plain0 EXCEPT !.specs = <<s>>, !.catalog = Provisioned(s) @@ (Other :> RefTable(<<Ref("a")>>)),
                 !.inventory = build_table_class_inventory(s) @@ (Other :> "state")]
Delivering(sc, lines) == [sc EXCEPT !.objects = ("o1" :> Obj(1, lines))]

-----------------------------------------------------------------------------
(* Contents.                                                               *)
Strict == [Base EXCEPT !.columns = <<[Id EXCEPT !.min = "1", !.max = "2"],
                                     [Name EXCEPT !.allowed = {"a", "b", "g"}, !.pattern = "[ab]"]>>,
                       !.forbid_replacement_chars = TRUE]
Judged == [Base EXCEPT !.checks = <<RowCheck("k1", Node("Or", <<Node("Is", <<Cx("name"), Leaf("Null", "")>>),
                                                               Node("EQ", <<Cx("name"), Str("a")>>)>>))>>]
Joined2 == [Base EXCEPT !.checks = <<Member("k2"), RowCheck("k1", Node("LTE", <<Cx("id"), Num("2")>>))>>,
                        !.co_effects = ("ref" :> [table |-> Other, own_state |-> FALSE, columns |-> {"n"}])]
Temp == [Base EXCEPT !.columns = <<[Id EXCEPT !.nullable = TRUE],
                                   [Col("day", Type("date"), TRUE) EXCEPT !.min = "d1", !.max = "d1"],
                                   Col("amount", DecimalType, TRUE), Name>>]
Lines ==
  <<Header, L(<<"1", "a">>), L(<<"1", "a">>), L(<<"9", "a">>), L(<<"90", "b">>), L(<<"x", "b">>), L(<<"", "b">>),
    L(<<"2", "">>), L(<<"3", "b">>), L(<<"0", "a">>), L(<<"2", "g">>), L(<<"2", "z">>), L(<<>>), L(<<"1">>),
    L(<<"1", "a", "a">>), Odd(<<"1", "a">>, "opens"), Odd(<<"1", "a">>, "closes"), Odd(<<"2", "b">>, "junk")>>
Headless == [Base EXCEPT !.read.header = FALSE, !.columns = <<[Id EXCEPT !.required = FALSE, !.nullable = TRUE], Name>>]
Multi == [Base EXCEPT !.read.multiline = TRUE]

Objects2 == [Plain0 EXCEPT !.details = {[Detail EXCEPT !.object_uris = <<Uri("o1"), Uri("o2")>>]},
                           !.objects = ("o1" :> [TwoRows EXCEPT !.rank = 2])
                                       @@ ("o2" :> Obj(1, <<L(<<"name", "extra", "id">>), L(<<"b", "z", "3">>)>>))]
Bad(object) == [Objects2 EXCEPT !.objects["o2"] = object]

Contents ==
  Each(<<Base, Strict, Judged, Joined2, TwoTypes, [Headless EXCEPT !.read.skip = 1]>>,
       LAMBDA s : Delivering(WithSpec(s), Lines))
  \o <<Delivering(WithSpec(Multi), <<Header, L(<<"1", "a">>), Odd(<<"1", "a">>, "opens"), L(<<"2", "b">>), Odd(<<"1", "a">>, "closes"),
                                     L(<<>>), Odd(<<"2", "b">>, "junk"), Odd(<<"1", "a">>, "opens"), L(<<"1", "a">>)>>),
        Delivering(WithSpec(Temp), <<L(<<"day", "amount", "id", "name">>), L(<<"d1", "9", "1", "a">>), L(<<"d2", "1", "1", "a">>),
                                    L(<<"zz", "90", "", "b">>), L(<<"", "", "", "">>)>>),
        Delivering(WithSpec(Base), <<Header>>), Delivering(WithSpec(Base), <<>>), Objects2,
        Delivering(WithSpec(Strict), <<L(<<"id", "g", "name">>), L(<<"1", "z", "a">>)>>),
        Delivering(WithSpec(Strict), <<L(<<"id", "z", "name">>), L(<<"1", "g", "a">>), L(<<"1", "z", "a">>)>>),
        Bad([TwoRows EXCEPT !.readable = FALSE]), Bad([TwoRows EXCEPT !.ext = "gz"]),
        Bad(Obj(1, <<L(<<"name">>)>>)), Bad(Obj(1, <<L(<<"id", "id">>)>>)), Bad(Obj(1, <<Odd(<<"id">>, "opens")>>)),
        Delivering(WithSpec([Base EXCEPT !.read.compression = "gzip"]), <<Header>>),
        Delivering(WithSpec([Base EXCEPT !.module.returns = {}]), <<Header>>),
        Delivering(WithSpec([Base EXCEPT !.columns = <<[Id EXCEPT !.type = Type("long")], Name>>]), <<Header>>)>>

-----------------------------------------------------------------------------
(* Specs that differ in one place.                                         *)
C1(c) == [Base EXCEPT !.columns = <<c, Name>>]
F1(f(_)) == [Base EXCEPT !.fact_types["f1"] = f(@)]
Checked(c) == [Joined2 EXCEPT !.checks = <<c>>]
Variants ==
  <<[Base EXCEPT !.repeated = {"read"}], [Base EXCEPT !.sla = "90"], [Base EXCEPT !.fold = "custom"],
   [Base EXCEPT !.pipeline = <<"p", "/", "b">>], [Base EXCEPT !.read.quote = "comma"],
   [Base EXCEPT !.read.compression = "zstd"], [Base EXCEPT !.read.skip = 4097],
   [Base EXCEPT !.module.importable = FALSE], [Base EXCEPT !.module.apply_arity = 1],
   [Base EXCEPT !.module.exports_post_check = TRUE], [Base EXCEPT !.module.exports_fold = TRUE],
   [Base EXCEPT !.columns = <<>>], [Base EXCEPT !.columns = <<Id, Id>>],
   [Base EXCEPT !.fact_types = << >>], [Base EXCEPT !.quarantine_table = <<Db>>],
   C1([Id EXCEPT !.name = "batch_id"]), C1([Id EXCEPT !.name = "_conveyer_x"]), C1([Id EXCEPT !.name = "no good"]),
   C1([Id EXCEPT !.required = FALSE]), C1([Id EXCEPT !.allowed = {}]),
   C1([Id EXCEPT !.pattern = "(?P<x>a)"]), C1([Id EXCEPT !.pattern = "(?<x>a)"]), C1([Id EXCEPT !.pattern = "[ab]"]),
   C1([Id EXCEPT !.min = "x"]), C1([Id EXCEPT !.min = "2", !.max = "1"]),
   C1([Id EXCEPT !.type = [DecimalType EXCEPT !.precision = 39]]),
   [Base EXCEPT !.columns = <<Id, [Name EXCEPT !.max = "1"]>>]>>
  \o Each(
          <<[Temp.columns[2] EXCEPT !.type.fmt = "qq"], [Temp.columns[2] EXCEPT !.type.fmt = "YYYY"],
           [Temp.columns[2] EXCEPT !.min = "d2"], [Temp.columns[2] EXCEPT !.min = "zz"],
           [Temp.columns[2] EXCEPT !.min = ""]>>,
          LAMBDA c : [Temp EXCEPT !.columns[2] = c])
  \o <<F1(LAMBDA f : [f EXCEPT !.state_table = f.fact_table]), F1(LAMBDA f : [f EXCEPT !.domain_id_col = "amount"]),
        F1(LAMBDA f : [f EXCEPT !.record_key = <<>>]), F1(LAMBDA f : [f EXCEPT !.record_key = <<"amount">>]),
        F1(LAMBDA f : [f EXCEPT !.columns = Append(@, FactCol("batch_id", Type("string")))]),
        F1(LAMBDA f : [f EXCEPT !.columns = Append(@, FactCol("amount", [DecimalType EXCEPT !.scale = 3]))]),
        F1(LAMBDA f : [f EXCEPT !.columns = Append(@, FactCol("k3", Type("bool"))), !.ordering = <<"k3">>]),
        F1(LAMBDA f : [f EXCEPT !.columns = Append(@, FactCol("k3", Type("bool")))])>>
  \o Each(
          <<[Member("k2") EXCEPT !.co_effect = "n"], [Member("k2") EXCEPT !.columns = <<"amount">>],
           [Member("k2") EXCEPT !.ref_columns = <<"id">>], [Member("k2") EXCEPT !.ref_columns = <<>>],
           [Member("k2") EXCEPT !.fact_type = "f2"], [Member("missing-domain-id") EXCEPT !.reason = "business/k2"],
           [Member("k2") EXCEPT !.reason = "business/missing-domain-id"], [Member("k2") EXCEPT !.kind = "batch_check"]>>, Checked)
  \o <<[Joined2 EXCEPT !.checks = <<Member("k2"), Member("k2")>>],
        [Joined2 EXCEPT !.co_effects["ref"].own_state = TRUE],
        [Joined2 EXCEPT !.co_effects["ref"].table = T("__facts")],
        [Joined2 EXCEPT !.co_effects["ref"].table = <<Db, <<"a", "b">>>>],
        [Joined2 EXCEPT !.co_effects["ref"].columns = {"n", "k1"}],
        [Joined2 EXCEPT !.co_effects["ref"].columns = None],
        [Joined2 EXCEPT !.co_effects["ref"].columns = None, !.checks[1].ref_columns = <<"k1">>]>>

(* Expressions of a check: every operator over leaves of every family.     *)
Leaves == <<Cx("id"), Cx("name"), Cx("day"), Cx("amount"), Str("a"), Num("1"), Leaf("Null", ""),
            Leaf("Float", "1e0"), [Leaf("Cast", "temporal") EXCEPT !.args = <<Str("d1")>>], Node("Neg", <<Num("1")>>),
            Node("Is", <<Cx("id"), Leaf("Null", "")>>)>>
Few == <<Cx("id"), Cx("name"), Cx("k1")>>
Binary(kinds, xs, ys) == Each(Cross(kinds, Cross(xs, ys)), LAMBDA k : Node(k[1], k[2]))
Unary == Each(Cross(<<"Not", "Length", "Trim", "Upper", "Year", "TsOrDsToDate", "Floor", "Paren", "Sum">>, Leaves),
              LAMBDA k : Node(k[1], <<k[2]>>))
Equal(xs, ys) == Binary(<<"EQ">>, xs, ys)
Hiding(n, h) == [n EXCEPT !.hidden = <<h>>]
Deep ==
  Equal(Unary, <<Cx("name"), Num("1"), Leaf("Null", "")>>)
  \o Binary(<<"EQ", "And", "Is", "In", "Like">>, Leaves, Leaves)
  \o Each(Binary(<<"EQ", "Like">>, Few, Few), LAMBDA e : Node("Not", <<e>>))
  \o Equal(Binary(<<"Add", "Coalesce", "Nullif", "Concat", "Round", "DateDiff", "Substring">>, Few, Few),
           <<Cx("name"), Num("1")>>)
  \o Equal(Each(Cross(<<Cx("id"), Node("EQ", <<Cx("id"), Num("1")>>)>>, Cross(Few, Few)),
                LAMBDA k : Node("Case", <<k[1]>> \o k[2])), <<Cx("name")>>)
  \o Each(Cross(<<"Like", "In">>, Few), LAMBDA k : Hiding(Node(k[1], <<Cx("name"), Str("a")>>), k[2]))
  \o Equal(Each(Cross(<<"Trim", "Substring">>, Few), LAMBDA k : Hiding(Node(k[1], <<Cx("name")>>), k[2])),
           <<Cx("name")>>)
  \o <<Hiding(Node("Case", <<Cx("id"), Node("Is", <<Cx("id"), Leaf("Null", "")>>)>>), Cx("k1")),
       Hiding(Cx("name"), Str("t")), Node("Other", <<Cx("id")>>), Node("Between", <<Cx("id"), Num("1"), Cx("name")>>),
       Node("EQ", <<Node("Replace", <<Cx("name"), Cx("id")>>), Str("a")>>),
       Node("GT", <<Node("TsOrDsAdd", <<Cx("day"), Num("1")>>), Cx("id")>>), Leaf("Boolean", "true")>>

Typed == [Temp EXCEPT !.fact_types["f1"].columns =
            @ \o <<FactCol("day", Type("date")), FactCol("amount", DecimalType)>>]
\* Parsed and probed only: without an inventory no job starts.
Grammar == Each(Deep, LAMBDA e : [WithSpec([Typed EXCEPT !.checks = <<RowCheck("k1", e)>>]) EXCEPT !.inventory = None])

(* The aggregates of batch checks, which no spec may carry yet: what is    *)
(* accepted is read and computed as the walk says, and its compiled tree   *)
(* refers to the columns the walk collected.                               *)
Aggregates ==
  Each(Cross(<<"Sum", "Avg", "Min", "Max", "Count">>, Leaves \o Equal(Few, Few) \o <<Node("Sum", <<Cx("id")>>)>>),
       LAMBDA k : Node(k[1], <<k[2]>>))
AggregateExprs == Aggregates \o Binary(<<"Add", "Div", "EQ">>, Aggregates, <<Cx("id"), Num("1"), Aggregates[1]>>)
RECURSIVE TreeColumns(_)
TreeColumns(tree) ==
  IF tree.tree = "column" THEN {tree.name}
  ELSE IF tree.tree \in {"op", "call"} THEN UNION {TreeColumns(tree.args[i]) : i \in DOMAIN tree.args}
  ELSE {}
\* What the grammar accepts is what the engine and the compiled tree do.
ASSUME AggregatesSound ==
  \A i \in DOMAIN AggregateExprs :
    LET e == AggregateExprs[i]
        v == validate_expression(e, "aggregate", FamilyMap(Typed.fact_types["f1"]))
        tree == compile_agg_node(e)
    IN v.ok => /\ EngineReads(e) = v.columns
               /\ EngineCoercesNothing(e, FamilyMap(Typed.fact_types["f1"]))
               /\ tree # NoTree => TreeColumns(tree) = v.columns

-----------------------------------------------------------------------------
(* Names, details, arguments and URIs.                                     *)
Chars == <<<<"a">>, <<"-">>, <<"/">>>>
Longer(words) == Each(Cross(words, Chars), LAMBDA w : w[1] \o w[2])
Words == Chars \o Longer(Chars) \o Longer(Longer(Chars)) \o Longer(Longer(Longer(Chars)))
         \o <<<<"a", "-", "/", "a", "-", "a">>, <<"a", "/", "0">>>>
Dashed(w) == FlattenSeq(Each(w, LAMBDA c : IF c = "/" THEN <<"-", "-">> ELSE <<c>>))
Named ==
  Each(Words, LAMBDA w : [Plain0 EXCEPT !.specs = <<[Base EXCEPT !.pipeline = w]>>, !.details = {[Detail EXCEPT !.pipeline = w]},
                                        !.uri.segments[4] = Dashed(w), !.machines = {Dashed(w), <<"a">>}])

Addressed(d) == [Plain0 EXCEPT !.details = {d}]
Elsewhere(u) == Addressed([Detail EXCEPT !.object_uris = <<u>>])
Called(argv) == [Plain0 EXCEPT !.argv = argv]
At2(uri) == [Plain0 EXCEPT !.uri = uri]
Segments(s) == [SpecUri EXCEPT !.segments = s]
Odds ==
  <<Addressed([Detail EXCEPT !.fields = @ \ {"size_bytes"}]), Addressed([Detail EXCEPT !.batch_id = "x"]),
   Addressed([Detail EXCEPT !.size = 2]), Addressed([Detail EXCEPT !.version = 2]),
   Addressed([Detail EXCEPT !.feed_id = "x"]), Addressed([Detail EXCEPT !.object_uris = <<>>]),
   [Plain0 EXCEPT !.machines = {}], [Plain0 EXCEPT !.specs = <<>>], [Plain0 EXCEPT !.inventory = None],
   Elsewhere([Uri("o1") EXCEPT !.bucket = "artifacts"]), Elsewhere([Uri("o1") EXCEPT !.received_at = 2]),
   Elsewhere([Uri("o1") EXCEPT !.name = ".."]),
   Called(Tail(Arguments)), Called(Append(Arguments, Eq("catalog-kind", "sql"))),
   Called(Append(Arguments, Eq("ledger-catalog-kind", "hadoop"))), Called(Append(Arguments, Eq("sla-minutes", "x"))),
   Called(Append(Arguments, Eq("attempt-id", "override"))), Called(Append(Arguments, Eq("run-config", "broken"))),
   Called(Append(Arguments, Token("flag", "env", ""))), Called(Append(Arguments, Eq("sla-minutes", "90"))),
   At2([SpecUri EXCEPT !.scheme = "http"]), At2(Segments(<<<<"landing">>>> \o Tail(SpecUri.segments))),
   At2(Segments(SpecUri.segments \o <<<<"..">>, <<"x">>>>)), At2(Segments(Front(SpecUri.segments))),
   At2(Segments(<<<<"artifacts">>, <<"spine">>, <<"x">>>> \o SpecUri.segments)),
   At2(Segments(<<<<"artifacts">>, <<".">>, <<>>>> \o Tail(SpecUri.segments)))>>

-----------------------------------------------------------------------------
(* Lives: faults, reruns, redeployments, tables provisioned meanwhile.     *)
Mixed == <<Header, L(<<"1", "a">>), L(<<"2", "b">>), L(<<"x", "b">>)>>
Accepted == SubSeq(Mixed, 1, 3)
Budget(f, l, r, c, s) == [faults |-> f, losses |-> l, reruns |-> r, refreshes |-> c, scripts |-> s]
OneBad == [TwoTypes EXCEPT !.checks = Judged.checks]
Lenient == [OneBad EXCEPT !.checks = <<>>, !.columns = <<[Id EXCEPT !.max = "1"], Name>>]
Stricter == [Lenient EXCEPT !.checks = Judged.checks]
Dropped == [Base EXCEPT !.checks = Judged.checks]
Wider == [Base EXCEPT !.columns = Append(@, Col("amount", Type("string"), TRUE)),
                      !.fact_types["f1"].columns = Append(@, FactCol("amount", Type("string")))]
Retyped == [Base EXCEPT !.fact_types["f1"].columns[2].type = Type("int"),
                        !.columns[2].type = Type("int")]
Swapped == [Base EXCEPT !.fact_types["f1"] = [@ EXCEPT !.fact_table = T("__state"), !.state_table = T("__facts")]]
\* A column of reasons among the facts, which post_check overwrites.
Reasoned == [Dropped EXCEPT !.columns = Append(@, Col("reason_code", Type("string"), TRUE)),
                            !.fact_types["f1"].columns = Append(@, FactCol("reason_code", Type("string")))]
WithReasons == <<L(<<"id", "name", "reason_code">>), L(<<"1", "a", "z">>), L(<<"2", "b", "z">>)>>
InRef == [TwoTypes EXCEPT !.checks = <<Member("k2")>>, !.co_effects = Joined2.co_effects]

Living(specs, b) == [Delivering(WithSpec(specs[1]), Mixed) EXCEPT !.specs = specs, !.budget = b]
Lives ==
  <<Living(<<OneBad>>, Budget(2, 0, 0, 0, 0)),
   Living(<<OneBad, Lenient>>, Budget(1, 0, 1, 0, 0)),
   Living(<<Lenient, OneBad, Dropped>>, Budget(1, 0, 1, 0, 0)),
   Delivering(Living(<<TwoTypes, Stricter>>, Budget(1, 0, 1, 0, 0)), Accepted),
   Delivering(Living(<<Reasoned>>, Budget(1, 0, 0, 0, 0)), WithReasons),
   Living(<<Base>>, Budget(0, 1, 0, 0, 0)),
   Living(<<[Headless EXCEPT !.read.skip = Len(Mixed)], [Headless EXCEPT !.read.skip = 1]>>, Budget(0, 0, 1, 0, 0)),
   [Living(<<InRef>>, Budget(1, 0, 1, 1, 0)) EXCEPT !.refreshed = (Other :> <<Ref("b"), Ref("b")>>)],
   [Living(<<Base, Wider>>, Budget(0, 0, 0, 0, 2)) EXCEPT !.catalog = << >>, !.inventory = None],
   Living(<<Base, Wider>>, Budget(0, 0, 1, 0, 1)),
   [Living(<<Base, Retyped>>, Budget(1, 0, 0, 0, 2)) EXCEPT !.machines = {}],
   [Living(<<Base, Swapped>>, Budget(1, 0, 0, 0, 1)) EXCEPT !.machines = {}]>>

MCScenes == Elems(Lives \o Contents \o Each(Variants, WithSpec) \o Odds \o Named \o Grammar)
=============================================================================
