---------------------------- MODULE CheckGrammar ----------------------------
(***************************************************************************)
(* The expression grammar of business checks (core/check_grammar.py).  An  *)
(* author writes a check as SQL text; sqlglot parses it, one bottom-up     *)
(* walk decides whether every node is in the allowed set, computes the     *)
(* coarse family of the whole and the columns it refers to, and Spark      *)
(* later executes the AUTHORED text.  So the walk has to have seen         *)
(* everything the engine will evaluate.                                    *)
(*                                                                         *)
(* A node is [kind, name, args, hidden]: args are the sub-expressions in   *)
(* the positions the grammar admits, in order, and hidden those sqlglot    *)
(* also accepts for other overloads of the same call (trim's characters,   *)
(* substring's fourth argument, a NOT LIKE's negation, the subject of      *)
(* CASE x WHEN ...).  Case carries condition, branch, condition, branch,   *)
(* ... and perhaps a default.  Grammar, sqlglot's parser and the wording   *)
(* of the refusals are abstracted.                                         *)
(***************************************************************************)
EXTENDS Naturals, Sequences, FiniteSets, SequencesExt

CONSTANT MaxNesting     \* how deep the text of a check nests
ASSUME NestingAssumption == MaxNesting \in Nat

Poly     == "poly"      \* Python None: NULL, or an undeclared column
Families == {"string", "numeric", "temporal", "boolean"}

(* The nodes of an expression; a text is nested at most MaxNesting deep.   *)
EngineParts(n) == n.args \o n.hidden
Layers(n) ==
  LET layer[d \in 0..MaxNesting] ==
        IF d = 0 THEN {n}
        ELSE UNION {{EngineParts(m)[i] : i \in DOMAIN EngineParts(m)} : m \in layer[d - 1]}
  IN layer
Subtrees(n) == UNION {Layers(n)[d] : d \in 0..MaxNesting}

Node(kind, args) == [kind |-> kind, name |-> "", args |-> args, hidden |-> <<>>]
Leaf(kind, name) == [kind |-> kind, name |-> name, args |-> <<>>, hidden |-> <<>>]

(* family_of_kind: the column kinds of a fact schema, reduced to families. *)
family_of_kind(kind) ==
  CASE kind = "string"                      -> "string"
    [] kind \in {"int", "long", "decimal"}  -> "numeric"
    [] kind \in {"date", "timestamp"}       -> "temporal"
    [] kind = "bool"                        -> "boolean"
    [] OTHER                                -> Poly

-----------------------------------------------------------------------------
(* A handler's demand on a node: whether the node's shape is the admitted  *)
(* one, the family wanted of the first and of every other operand ("same": *)
(* all such operands share one family; "any": no demand), and the family   *)
(* of the result ("same": the shared one).                                 *)

Handler(ok, first, rest, result) ==
  [ok |-> ok, first |-> first, rest |-> rest, result |-> result]

Refused == Handler(FALSE, "any", "any", Poly)
Plain(n) == n.hidden = <<>>

same_family_binary(result)            == Handler(TRUE, "same", "same", result)
fixed_family_binary(operand, result)  == Handler(TRUE, operand, operand, result)
fixed_family_unary(operand, result)   == Handler(TRUE, operand, operand, result)

(* A bare column; a qualified reference (hidden table part) is refused.    *)
h_column(n, schema) ==
  Handler(Plain(n), "any", "any",
          IF n.name \in DOMAIN schema THEN schema[n.name] ELSE Poly)

(* String, Number, Boolean, Null, Paren; Float is a literal in scientific  *)
(* notation.                                                               *)
h_literal(n) == CASE n.kind = "String" -> Handler(TRUE, "any", "any", "string")
                  [] n.kind = "Number" -> Handler(TRUE, "any", "any", "numeric")
                  [] n.kind = "Float"  -> Refused
h_boolean == Handler(TRUE, "any", "any", "boolean")
h_null    == Handler(TRUE, "any", "any", Poly)
h_paren   == Handler(TRUE, "same", "same", "same")

(* Cast is admitted only as a typed literal, DATE '...' or TIMESTAMP '...' *)
is_typed_literal_cast(n) == n.args # <<>> /\ n.args[1].kind = "String" /\ n.name = "temporal"
h_cast(n) == Handler(is_typed_literal_cast(n), "any", "any", "temporal")

h_is(n) == Handler(Plain(n) /\ n.args[2].kind = "Null", "any", "any", "boolean")

(* IN over a non-empty list of literals; a negative number is Neg(Number). *)
literal_member(m) ==
  \/ m.kind \in {"String", "Number", "Float", "Boolean", "Cast"}
  \/ m.kind = "Neg" /\ m.args[1].kind \in {"Number", "Float"}

h_in(n) ==
  Handler(/\ Plain(n)
          /\ Len(n.args) > 1
          /\ \A i \in 2..Len(n.args) : literal_member(n.args[i]),
          "same", "same", "boolean")

h_between   == Handler(TRUE, "same", "same", "boolean")
h_like(n)   == Handler(Plain(n), "string", "string", "boolean")
h_homogeneous_variadic          == Handler(TRUE, "same", "same", "same")
h_fixed_family_variadic(f, res) == Handler(TRUE, f, f, res)
h_nullif    == Handler(TRUE, "same", "same", "same")
h_trim(n)   == Handler(Plain(n), "string", "string", "string")
h_length(n) == Handler(Plain(n), "string", "string", "numeric")
h_round(n)  == Handler(Plain(n), "numeric", "numeric", "numeric")
h_floor_ceil(n) == Handler(Plain(n), "numeric", "numeric", "numeric")
\* Mutant: the fourth argument that sqlglot hides is not looked for.
h_substring_hiding(n) == Handler(TRUE, "string", "numeric", "string")
h_substring(n)  == Handler(Plain(n), "string", "numeric", "string")
h_replace       == Handler(TRUE, "string", "string", "string")
h_ts_or_ds_to_date == Handler(TRUE, "temporal", "temporal", "temporal")
h_datediff(n)   == Handler(Plain(n), "temporal", "temporal", "numeric")
h_ts_or_ds_add(n) == Handler(Plain(n), "temporal", "numeric", "temporal")

(* CASE looks at its conditions, branches and default, and never at the    *)
(* subject of a simple CASE x WHEN ...: hidden is not looked at.           *)
h_case == Handler(TRUE, "boolean", "same", "same")

(* An aggregate takes exactly one argument.                                *)
aggregate_unary(n, operand, result) == Handler(Plain(n), operand, operand, result)
h_count(n) == Handler(Plain(n) /\ n.args[1].kind \notin {"Star", "Distinct"},
                      "any", "any", "numeric")

Comparisons    == {"EQ", "NEQ", "LT", "LTE", "GT", "GTE", "NullSafeEQ"}
ArithmeticOps  == {"Add", "Sub", "Mul", "Div", "Mod"}
AggregateKinds == {"Sum", "Count", "Min", "Max", "Avg"}

HANDLERS_SCALAR(n, schema) ==
  CASE n.kind = "Column"                         -> h_column(n, schema)
    [] n.kind \in {"String", "Number", "Float"}  -> h_literal(n)
    [] n.kind = "Boolean"                        -> h_boolean
    [] n.kind = "Null"                           -> h_null
    [] n.kind = "Paren"                          -> h_paren
    [] n.kind = "Cast"                           -> h_cast(n)
    [] n.kind \in Comparisons                    -> same_family_binary("boolean")
    [] n.kind \in {"And", "Or"}       -> fixed_family_binary("boolean", "boolean")
    [] n.kind = "Not"                 -> fixed_family_unary("boolean", "boolean")
    [] n.kind = "Is"                  -> h_is(n)
    [] n.kind = "In"                  -> h_in(n)
    [] n.kind = "Between"             -> h_between
    [] n.kind = "Like"                -> h_like(n)
    [] n.kind \in ArithmeticOps       -> fixed_family_binary("numeric", "numeric")
    [] n.kind \in {"Neg", "Abs"}      -> fixed_family_unary("numeric", "numeric")
    [] n.kind = "Case"                -> h_case
    [] n.kind \in {"Coalesce", "Greatest", "Least"} -> h_homogeneous_variadic
    [] n.kind = "Nullif"              -> h_nullif
    [] n.kind = "Round"               -> h_round(n)
    [] n.kind \in {"Floor", "Ceil"}   -> h_floor_ceil(n)
    [] n.kind = "Length"              -> h_length(n)
    [] n.kind = "Trim"                -> h_trim(n)
    [] n.kind \in {"Upper", "Lower"}  -> fixed_family_unary("string", "string")
    [] n.kind = "Substring"           -> h_substring(n)
    [] n.kind = "Concat"              -> h_fixed_family_variadic("string", "string")
    [] n.kind = "Replace"             -> h_replace
    [] n.kind = "TsOrDsToDate"        -> h_ts_or_ds_to_date
    [] n.kind \in {"Year", "Month", "Day"} -> fixed_family_unary("temporal", "numeric")
    [] n.kind = "DateDiff"            -> h_datediff(n)
    [] n.kind = "TsOrDsAdd"           -> h_ts_or_ds_add(n)
    [] OTHER                          -> Refused

HANDLERS_AGGREGATE_EXTRA(n) ==
  CASE n.kind \in {"Sum", "Avg"} -> aggregate_unary(n, "numeric", "numeric")
    [] n.kind \in {"Min", "Max"} -> aggregate_unary(n, "same", "same")
    [] n.kind = "Count"          -> h_count(n)

(* The table of a position; an aggregate is unknown to the scalar table.   *)
HANDLERS_BY_POSITION(n, schema, position) ==
  IF n.kind \in AggregateKinds
  THEN IF position = "aggregate" THEN HANDLERS_AGGREGATE_EXTRA(n) ELSE Refused
  ELSE HANDLERS_SCALAR(n, schema)

Wanted(n, h, i) ==
  IF n.kind = "Case" THEN IF i % 2 = 1 /\ i < Len(n.args) THEN h.first ELSE h.rest
                     ELSE IF i = 1 THEN h.first ELSE h.rest

(* _unify over a set: polymorphic operands agree with anything.            *)
unify(families) == Cardinality(families \ {Poly}) <= 1
Unified(families) ==
  IF families \subseteq {Poly} THEN Poly ELSE CHOOSE f \in families : f # Poly

(* The operands a handler walks; it does not walk into a typed literal,    *)
(* nor into the NULL of IS NULL.                                           *)
Operands(n) == CASE n.kind = "Cast" -> <<>>
                 [] n.kind = "Is"   -> <<n.args[1]>>
                 [] OTHER           -> n.args

(* The columns a walk collects: a column's own name, and its operands'.    *)
union_columns(n, kids) ==
  (IF n.kind = "Column" THEN {n.name} ELSE {}) \cup UNION {kids[i].columns : i \in DOMAIN kids}

(* What the walk makes of a node, given what it made of the operands.      *)
Walked(n, h, kids) ==
  LET peers == {kids[i].family : i \in {j \in DOMAIN kids : Wanted(n, h, j) = "same"}}
  IN [ok      |-> /\ h.ok
                  /\ \A i \in DOMAIN kids :
                        /\ kids[i].ok
                        /\ Wanted(n, h, i) \in Families => kids[i].family \in {Poly, Wanted(n, h, i)}
                  /\ unify(peers),
      family  |-> IF h.result = "same" THEN Unified(peers) ELSE h.result,
      columns |-> union_columns(n, kids)]

(* An aggregate's argument re-enters at the scalar table.  x is a node and *)
(* its position.                                                           *)
Positions == {"scalar", "aggregate"}
PositionBelow(n, position) == IF n.kind \in AggregateKinds THEN "scalar" ELSE position
Walks(n, schema) ==
  LET walk[x \in Subtrees(n) \X Positions] ==
        Walked(x[1], HANDLERS_BY_POSITION(x[1], schema, x[2]),
               [i \in DOMAIN Operands(x[1]) |-> walk[<<x[1].args[i], PositionBelow(x[1], x[2])>>]])
  IN walk
validate_expression(n, position, schema) == Walks(n, schema)[<<n, position>>]

-----------------------------------------------------------------------------
(* The published function table: admitted arity, argument families (the    *)
(* last one repeats) and result; Poly where the position is polymorphic.   *)
Unbounded == 999
FunctionEntry(kind, lo, hi, args, result) ==
  [kind |-> kind, arity |-> <<lo, hi>>, args |-> args, result |-> result]

SCALAR_FUNCTIONS == {
  FunctionEntry("Abs",       1, 1, <<"numeric">>, "numeric"),
  FunctionEntry("Round",     1, 2, <<"numeric", "numeric">>, "numeric"),
  FunctionEntry("Floor",     1, 1, <<"numeric">>, "numeric"),
  FunctionEntry("Ceil",      1, 1, <<"numeric">>, "numeric"),
  FunctionEntry("Greatest",  1, Unbounded, <<Poly>>, Poly),
  FunctionEntry("Least",     1, Unbounded, <<Poly>>, Poly),
  FunctionEntry("Length",    1, 1, <<"string">>, "numeric"),
  FunctionEntry("Trim",      1, 1, <<"string">>, "string"),
  FunctionEntry("Upper",     1, 1, <<"string">>, "string"),
  FunctionEntry("Lower",     1, 1, <<"string">>, "string"),
  FunctionEntry("Substring", 1, 3, <<"string", "numeric", "numeric">>, "string"),
  FunctionEntry("Concat",    1, Unbounded, <<"string">>, "string"),
  FunctionEntry("Replace",   2, 3, <<"string", "string", "string">>, "string"),
  FunctionEntry("Coalesce",  1, Unbounded, <<Poly>>, Poly),
  FunctionEntry("Nullif",    2, 2, <<Poly, Poly>>, Poly),
  FunctionEntry("Year",      1, 1, <<"temporal">>, "numeric"),
  FunctionEntry("Month",     1, 1, <<"temporal">>, "numeric"),
  FunctionEntry("Day",       1, 1, <<"temporal">>, "numeric"),
  FunctionEntry("DateDiff",  2, 2, <<"temporal", "temporal">>, "numeric"),
  FunctionEntry("TsOrDsAdd", 2, 2, <<"temporal", "numeric">>, "temporal")}

AGGREGATE_FUNCTIONS == {
  FunctionEntry("Sum",   1, 1, <<"numeric">>, "numeric"),
  FunctionEntry("Count", 1, 1, <<Poly>>, "numeric"),
  FunctionEntry("Avg",   1, 1, <<"numeric">>, "numeric"),
  FunctionEntry("Min",   1, 1, <<Poly>>, Poly),
  FunctionEntry("Max",   1, 1, <<Poly>>, Poly)}

-----------------------------------------------------------------------------
(* compile_aggregate: the accepted aggregate as a tree of column           *)
(* references, numbers, arithmetic and the five calls; NoTree outside      *)
(* that scope.  A sum's empty set counts as zero.                          *)
NoTree == [tree |-> "none"]
AggCall(n, arg) == [tree |-> "call", kind |-> n.kind, args |-> <<arg>>,
                    coalesce_zero |-> n.kind = "Sum"]

CompiledAgg(n, kids) ==
  LET whole == \A i \in DOMAIN kids : kids[i] # NoTree
  IN CASE n.kind = "Paren"  -> kids[1]
       [] n.kind = "Column" -> [tree |-> "column", name |-> n.name]
       [] n.kind \in {"Number", "Float"} -> [tree |-> "literal", text |-> n.name]
       [] n.kind \in ArithmeticOps \cup {"Neg"} /\ whole ->
            [tree |-> "op", kind |-> n.kind, args |-> kids]
       [] n.kind \in AggregateKinds /\ whole -> AggCall(n, kids[1])
       [] OTHER -> NoTree

compile_agg_node(n) ==
  LET compiled[m \in Subtrees(n)] == CompiledAgg(m, [i \in DOMAIN m.args |-> compiled[m.args[i]]])
  IN compiled[n]

-----------------------------------------------------------------------------
(* What the engine does with the authored text, which sqlglot never        *)
(* renders: it reads every column the text names, hidden or not, and it    *)
(* coerces in silence where an operator is handed operands of different    *)
(* families (external: Spark's analyzer).                                  *)
EngineReads(n) == {m.name : m \in {x \in Subtrees(n) : x.kind = "Column"}}

(* The engine's own signature of a call: by the published table for a      *)
(* function, by the operator's own rule otherwise.                         *)
EntryOf(n) == {e \in SCALAR_FUNCTIONS \cup AGGREGATE_FUNCTIONS : e.kind = n.kind}
Admits(e, count) == e.arity[1] <= count /\ (e.arity[2] = Unbounded \/ count <= e.arity[2])

Among(kids, is) == {kids[i] : i \in is}
Everyone(kids)  == Among(kids, DOMAIN kids)
Conditions(n)   == {i \in DOMAIN n.args : i % 2 = 1 /\ i < Len(n.args)}

ResultOf(e, kids) == IF e.result = Poly THEN Unified(Everyone(kids)) ELSE e.result
EngineResult(n, kids, schema) ==
  CASE n.kind = "Column" ->
         IF n.name \in DOMAIN schema THEN schema[n.name] ELSE Poly
    [] n.kind = "String" -> "string"
    [] n.kind \in {"Number", "Float", "Neg"} \cup ArithmeticOps -> "numeric"
    [] n.kind = "Null" -> Poly
    [] n.kind = "Cast" -> n.name
    [] n.kind = "TsOrDsToDate" -> "temporal"
    [] n.kind = "Case"  -> Unified(Among(kids, DOMAIN n.args \ Conditions(n)))
    [] n.kind = "Paren" -> kids[1]
    [] EntryOf(n) # {}  -> ResultOf(CHOOSE e \in EntryOf(n) : TRUE, kids)
    [] OTHER -> "boolean"

EngineTypes(n, schema) ==
  LET type[m \in Subtrees(n)] == EngineResult(m, [i \in DOMAIN m.args |-> type[m.args[i]]], schema)
  IN type
EngineType(n, schema) == EngineTypes(n, schema)[n]

(* A call agrees with its entry, a CASE with the types of its branches and  *)
(* of its conditions, or of what it compares with its subject.             *)
TableAgrees(e, kids) ==
  LET f(i) == e.args[IF i <= Len(e.args) THEN i ELSE Len(e.args)]
  IN /\ Admits(e, Len(kids))
     /\ \A i \in DOMAIN kids : f(i) = Poly \/ kids[i] \in {Poly, f(i)}
     /\ e.kind # "Count" /\ f(1) = Poly => unify(Everyone(kids))
CaseAgrees(n, kids) ==
  /\ unify(Among(kids, DOMAIN n.args \ Conditions(n)))
  /\ IF n.hidden = <<>> THEN Among(kids, Conditions(n)) \subseteq {"boolean", Poly}
                        ELSE unify(Among(kids, Conditions(n) \cup {Len(kids)}))

\* kids: the types of the node's parts.
EngineAgrees(n, kids) ==
  LET all(f) == Everyone(kids) \subseteq {f, Poly}
  IN CASE n.kind \in Comparisons \cup {"In", "Between"} -> unify(Everyone(kids))
       [] n.kind \in {"And", "Or", "Not"}       -> all("boolean")
       [] n.kind \in ArithmeticOps \cup {"Neg"} -> all("numeric")
       [] n.kind = "Like"         -> Among(kids, DOMAIN n.args) \subseteq {"string", Poly}
       [] n.kind = "TsOrDsToDate" -> all("temporal")
       [] n.kind = "Case"         -> CaseAgrees(n, kids)
       [] EntryOf(n) # {}         -> TableAgrees(CHOOSE e \in EntryOf(n) : TRUE, kids)
       [] OTHER -> TRUE

EngineCoercesNothing(n, schema) ==
  LET type == EngineTypes(n, schema)
  IN \A m \in Subtrees(n) :
       EngineAgrees(m, [i \in DOMAIN EngineParts(m) |-> type[EngineParts(m)[i]]])

(* A CASE with a subject anywhere in the text: the one shape whose hidden  *)
(* part the walk does not look at.                                         *)
SimpleCase(n) == \E m \in Subtrees(n) : m.kind = "Case" /\ m.hidden # <<>>

-----------------------------------------------------------------------------
(* The trees that sqlglot's parser returns (external): a literal has no    *)
(* parts, a call as many arguments as its function takes, an operator its  *)
(* operands, and only some kinds accept more than the grammar admits.      *)
LiteralKinds == {"String", "Number", "Float", "Boolean", "Null"}
BareKinds ==
  LiteralKinds \cup Comparisons \cup ArithmeticOps
  \cup {"Paren", "Cast", "And", "Or", "Not", "Between", "Neg", "Abs", "Coalesce", "Greatest", "Least", "Nullif",
        "Upper", "Lower", "Concat", "Replace", "TsOrDsToDate", "Year", "Month", "Day"}
WellShaped(n) ==
  /\ n.args \in Seq(ToSet(n.args)) /\ n.hidden \in Seq(ToSet(n.hidden))
  /\ n.kind \in BareKinds => n.hidden = <<>>
  /\ n.kind \in LiteralKinds \cup {"Column"} => n.args = <<>>
  /\ n.kind \in {"Paren", "Cast"} => Len(n.args) = 1
  /\ n.kind = "Is" => Len(n.args) = 2
  /\ \A e \in EntryOf(n) : Admits(e, Len(n.args))
Parsed(n) ==
  /\ \A m \in Subtrees(n) : WellShaped(m)
  /\ \A m \in Layers(n)[MaxNesting] : EngineParts(m) = <<>>
=============================================================================
