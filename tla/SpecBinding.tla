---------------------------- MODULE SpecBinding ----------------------------
(***************************************************************************)
(* What a pipeline spec has to satisfy before a job of it may land         *)
(* anything: the models it is parsed into (core/model.py), the probes made *)
(* of it in the engine (entrypoints/glue_main.py), and the validation of   *)
(* its bindings against the catalog (core/bind_checks.py).                 *)
(*                                                                         *)
(* A spec is a record                                                      *)
(*   pipeline, sla, repeated, module, fold, raw_table, quarantine_table,   *)
(*   read        [delimiter, quote, header, multiline, skip, compression], *)
(*   columns     the raw contract's, each [name, type, required, nullable, *)
(*               allowed, pattern, min, max]; forbid_replacement_chars,    *)
(*   fact_types  name -> [fact_table, state_table, columns, domain_id_col, *)
(*               record_key, ordering],                                    *)
(*   checks      a sequence of [kind, id, fact_type, expr, reason,         *)
(*               columns, co_effect, ref_columns],                         *)
(*   co_effects  alias -> [table, own_state, columns].                     *)
(* A type is [kind, fmt, precision, scale]; None is an absent value, and   *)
(* repeated the mapping keys its text writes twice.  Identifiers, patterns *)
(* and formats are atoms; which of them conform is given by the constants. *)
(* The pipeline and the tables are names of Naming.                        *)
(***************************************************************************)
EXTENDS CheckGrammar, Naming

CONSTANTS
  Identifiers,      \* the names that match the identifier grammars
  PrefixedNames,    \* those of them that begin with _conveyer_
  PythonRegexes,    \* the patterns Python compiles ...
  JavaRegexes,      \* ... and those the JVM compiles
  AlphabetFmts,     \* the formats drawn from Spark's pattern letters ...
  EngineFmts,       \* ... and those whose sequence the JVM accepts
  IntCells, DateCells  \* the texts that parse as a number, as a date: text -> value

Temporal == {"date", "timestamp"}
Integral == {"int", "long"}

-----------------------------------------------------------------------------
(* Parsing: every validator of the models must be satisfied.               *)

(* parse_pipeline_spec_yaml: a duplicate key is refused before the plain   *)
(* loader would apply the last one.                                        *)
NoDuplicateKeys(s) == s.repeated = {}

(* DialectModel and ReadSpecModel. *)
DialectOK(r) == r.delimiter # r.quote
MaxSkip == 4096
ReadSpecOK(r) == r.compression # "zstd" /\ r.skip \in 0..MaxSkip

(* A min or max as a value of the column's own kind, None if it is no      *)
(* plain literal of that kind.                                             *)
ValueOf(cell, kind) ==
  CASE kind \in Integral \cup {"decimal"} ->
         IF cell \in DOMAIN IntCells THEN IntCells[cell] ELSE None
    [] kind \in Temporal -> IF cell \in DOMAIN DateCells THEN DateCells[cell] ELSE None
    [] kind = "string" -> cell
    [] kind = "bool" -> IF cell \in {"true", "false"} THEN cell = "true" ELSE None

DecimalOK(t) == t.scale <= t.precision /\ t.precision <= 38

(* ColumnSpec. Of a temporal bound only emptiness is looked at here. *)
TypeSemanticsOK(c) ==
  /\ c.type.kind = "decimal" => DecimalOK(c.type)
  /\ c.type.kind \in Temporal => c.type.fmt \in AlphabetFmts

MinMaxOK(c) ==
  LET numeric == {b \in {c.min, c.max} : b # None}
      val(b)  == ValueOf(b, c.type.kind)
  IN CASE numeric = {}            -> TRUE
       [] c.type.kind \in Temporal -> "" \notin numeric
       [] c.type.kind \in Integral \cup {"decimal"} ->
            /\ \A b \in numeric : val(b) # None
            /\ None \notin {c.min, c.max} => val(c.min) <= val(c.max)
       [] OTHER -> FALSE

ColumnSpecOK(c) ==
  /\ c.name \in Identifiers
  /\ c.pattern # None => c.pattern \in PythonRegexes
  /\ c.allowed # {}
  /\ TypeSemanticsOK(c) /\ MinMaxOK(c)

FRAMEWORK_RAW_COLUMNS ==
  {"batch_id", "delivery_id", "feed_id", "received_at", "source_uri",
   "object_seq", "row_index", "read_spec_version", "malformed_text", "extras"}

(* A type without its format, as the engine and the catalog name it.       *)
SparkType(type) == <<type.kind, type.precision, type.scale>>
StringType == <<"string", 0, 0>>

NamesOf(columns) == [i \in DOMAIN columns |-> columns[i].name]
Declared(columns) == Elems(NamesOf(columns))

RawContractOK(s) ==
  /\ s.columns # <<>>
  /\ \A c \in Elems(s.columns) : ColumnSpecOK(c)
  /\ NoRepeats(NamesOf(s.columns))
  /\ Declared(s.columns) \cap (FRAMEWORK_RAW_COLUMNS \cup PrefixedNames) = {}

(* FactSchemaModel. *)
FACT_STAMP_COLUMNS ==
  {"batch_id", "delivery_id", "feed_id", "received_at", "source_ts",
   "content_hash", "record_key"}
ORDERING_COMPARABLE_TYPES == {"string", "int", "long", "decimal", "date", "timestamp"}

KindOf(columns, name) ==
  (CHOOSE c \in Elems(columns) : c.name = name).type.kind

FactSchemaOK(ft) ==
  LET names == Declared(ft.columns)
  IN /\ ft.columns # <<>> /\ ft.record_key # <<>>
     /\ \A c \in Elems(ft.columns) : c.name \in Identifiers
     /\ NoRepeats(NamesOf(ft.columns))
     /\ names \cap (FACT_STAMP_COLUMNS \cup PrefixedNames) = {}
     /\ ({ft.domain_id_col} \cup Elems(ft.record_key) \cup Elems(ft.ordering)) \subseteq names
     /\ \A c \in Elems(ft.columns) : c.type.kind = "decimal" => DecimalOK(c.type)
     /\ \A o \in Elems(ft.ordering) : KindOf(ft.columns, o) \in ORDERING_COMPARABLE_TYPES

(* The check models and ChecksModel: batch_check parses and is refused. *)
RESERVED_REASONS   == {"business/missing-domain-id"}
RESERVED_CHECK_IDS == {"missing-domain-id"}

CheckModelOK(c) ==
  /\ c.id \in Identifiers \ RESERVED_CHECK_IDS
  /\ c.reason \in Identifiers \ RESERVED_REASONS
  /\ c.kind = "membership" => c.columns # <<>> /\ Len(c.columns) = Len(c.ref_columns)
ChecksOK(s) ==
  /\ \A c \in Elems(s.checks) : CheckModelOK(c) /\ c.kind # "batch_check"
  /\ NoRepeats([i \in DOMAIN s.checks |-> s.checks[i].id])

CoEffectOK(d) == check_qualified_table(d.table) /\ (d.columns # None => d.columns \subseteq Identifiers)

(* PipelineSpecModel's own validators. The raw and quarantine tables take  *)
(* no part in the collision test.                                          *)
FactTypeNamesOK(s) == DOMAIN s.fact_types # {} /\ DOMAIN s.fact_types \subseteq Identifiers

Homes(s) == {<<t, "fact">> : t \in DOMAIN s.fact_types} \cup {<<t, "state">> : t \in DOMAIN s.fact_types}
HomeTable(s, h) == IF h[2] = "fact" THEN s.fact_types[h[1]].fact_table
                                    ELSE s.fact_types[h[1]].state_table
TablesQualified(s) ==
  /\ check_qualified_table(s.raw_table) /\ check_qualified_table(s.quarantine_table)
  /\ \A h \in Homes(s) : check_qualified_table(HomeTable(s, h))
TablesDistinct(s) == \A g, h \in Homes(s) : HomeTable(s, g) = HomeTable(s, h) => g = h

AliasesOK(s) == DOMAIN s.co_effects \subseteq Identifiers

(* Each column's family, for the expression grammar.                       *)
FamilyMap(ft) == [n \in Declared(ft.columns) |-> family_of_kind(KindOf(ft.columns, n))]

MembershipBindsTo(s, c) ==
  /\ c.co_effect \in DOMAIN s.co_effects
  /\ Elems(c.columns) \subseteq Declared(s.fact_types[c.fact_type].columns)
  /\ s.co_effects[c.co_effect].columns # None =>
       Elems(c.ref_columns) \subseteq s.co_effects[c.co_effect].columns

RowCheckBindsTo(s, c) ==
  LET ft == s.fact_types[c.fact_type]
      v  == validate_expression(c.expr, "scalar", FamilyMap(ft))
  IN v.ok /\ v.columns \subseteq Declared(ft.columns)

ChecksBind(s) ==
  \A c \in Elems(s.checks) :
    /\ c.fact_type \in DOMAIN s.fact_types
    /\ c.kind = "membership" => MembershipBindsTo(s, c)
    /\ c.kind = "row" => RowCheckBindsTo(s, c)

HeaderRulesOK(s) ==
  \A c \in Elems(s.columns) :
    IF s.read.header THEN ~c.nullable => c.required ELSE ~c.required

Parses(s) ==
  /\ NoDuplicateKeys(s)
  /\ PipelineOK(s.pipeline) /\ TablesQualified(s)
  /\ DialectOK(s.read) /\ ReadSpecOK(s.read)
  /\ RawContractOK(s)
  /\ FactTypeNamesOK(s) /\ \A t \in DOMAIN s.fact_types : FactSchemaOK(s.fact_types[t])
  /\ \A a \in DOMAIN s.co_effects : CoEffectOK(s.co_effects[a])
  /\ ChecksOK(s)
  /\ s.fold # "custom"
  /\ TablesDistinct(s) /\ AliasesOK(s)
  /\ ChecksBind(s) /\ HeaderRulesOK(s)

-----------------------------------------------------------------------------
(* After the parse: the spec is this pipeline's and carries the deployed   *)
(* budget, and its transforms module exports apply with two parameters.    *)
BindingMatches(s, seed) == s.pipeline = seed.pipeline /\ s.sla = seed.sla
TransformsBind(s) == s.module.importable /\ s.module.apply_arity = 2

(* The probes in the engine, made of every column and check before any     *)
(* effect exists.                                                          *)
PatternsCompile(s) == \A c \in Elems(s.columns) : c.pattern # None => c.pattern \in JavaRegexes
FmtsCompile(s) == \A c \in Elems(s.columns) : c.type.kind \in Temporal => c.type.fmt \in EngineFmts
BoundsBind(s) ==
  \A c \in Elems(s.columns) :
    c.type.kind \in Temporal =>
      LET val(b) == ValueOf(b, c.type.kind)
      IN /\ \A b \in {c.min, c.max} \ {None} : val(b) # None
         /\ None \notin {c.min, c.max} => val(c.min) <= val(c.max)

(* The engine compiles a text whose columns all resolve.                   *)
EngineCompiles(expr, ft) == EngineReads(expr) \subseteq Declared(ft.columns)
RowExprBoolean(expr, ft) == EngineType(expr, FamilyMap(ft)) = "boolean"
CheckExpressionsCompile(s) ==
  \A c \in Elems(s.checks) :
    c.kind = "row" => /\ EngineCompiles(c.expr, s.fact_types[c.fact_type])
                      /\ RowExprBoolean(c.expr, s.fact_types[c.fact_type])

\* Mutant: no probe of the formats.
EngineProbesButFmts(s) == PatternsCompile(s) /\ BoundsBind(s) /\ CheckExpressionsCompile(s)
EngineProbes(s) ==
  PatternsCompile(s) /\ FmtsCompile(s) /\ BoundsBind(s) /\ CheckExpressionsCompile(s)

-----------------------------------------------------------------------------
(* The catalog is a function of the tables that exist, each a record       *)
(* [class, columns], columns a function to their types; the inventory of   *)
(* table classes is a function too.                                        *)

MarkersTable(s) == markers_table(s.raw_table, s.pipeline)
FactTables(s) == {s.fact_types[t].fact_table : t \in DOMAIN s.fact_types}
StateTables(s) == {s.fact_types[t].state_table : t \in DOMAIN s.fact_types}
CoEffectTables(s) == {s.co_effects[a].table : a \in DOMAIN s.co_effects}

(* What the job describes to validate the bindings. The fact and state     *)
(* tables are described, and nothing is asked of the answer.               *)
referenced_tables(s) ==
  CoEffectTables(s) \cup FactTables(s) \cup StateTables(s) \cup {MarkersTable(s)}
CatalogFacts(s, catalog) ==
  [t \in referenced_tables(s) |-> IF t \in DOMAIN catalog THEN catalog[t] ELSE None]

CoEffectBinds(d, facts, inventory) ==
  /\ ~d.own_state
  /\ facts[d.table] # None
  /\ d.table \in DOMAIN inventory /\ inventory[d.table] = "state"
  /\ facts[d.table].class = inventory[d.table]
  /\ d.columns # None => d.columns \subseteq DOMAIN facts[d.table].columns

MembershipRefsExist(s, c, facts) ==
  LET d == s.co_effects[c.co_effect]
  IN d.columns = None /\ facts[d.table] # None
       => Elems(c.ref_columns) \subseteq DOMAIN facts[d.table].columns

(* committed: the fact tables this batch has a commit marker of. *)
TypesStillDeclared(s, committed) == committed \subseteq FactTables(s)

validate_bindings(s, facts, inventory, committed) ==
  /\ facts[MarkersTable(s)] # None
  /\ ~s.module.exports_post_check /\ ~s.module.exports_fold
  /\ TypesStillDeclared(s, committed)
  /\ \A a \in DOMAIN s.co_effects : CoEffectBinds(s.co_effects[a], facts, inventory)
  /\ \A c \in Elems(s.checks) : c.kind = "membership" => MembershipRefsExist(s, c, facts)
=============================================================================
