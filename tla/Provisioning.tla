---------------------------- MODULE Provisioning ----------------------------
(***************************************************************************)
(* The tables of a pipeline are provisioned by an operator's two scripts,  *)
(* bootstrap/create_admission_tables.py (raw and quarantine) and           *)
(* bootstrap/create_record_tables.py (facts, states and the commit         *)
(* markers, then the inventory of table classes beside the deployed spec). *)
(* Each reads the deployed spec once and goes table by table without a     *)
(* transaction: an absent table is created, a present one may only gain    *)
(* columns, and a diff that is not additive aborts the script.             *)
(*                                                                         *)
(* Nullability, partitioning, escaping and the table properties other than *)
(* the class are abstracted.                                               *)
(***************************************************************************)
EXTENDS SpecBinding

VARIABLES
  catalog,      \* the tables that exist: name -> [class, columns, rows]
  inventory,    \* table-classes.json beside the spec: name -> class
  script        \* the running script: the steps it has left and the inventory
                \* it writes in the end; None when none runs

provisioningVars == <<catalog, inventory, script>>

-----------------------------------------------------------------------------
(* The columns of the five classes of tables, name -> type.                *)
Of(names, type) == [n \in names |-> type]
TimestampType == <<"timestamp", 0, 0>>
StampType(n) == IF n \in {"received_at", "source_ts"} THEN TimestampType ELSE StringType
FACT_STAMP_TYPES == [n \in FACT_STAMP_COLUMNS |-> StampType(n)]

raw_columns(s) ==
  Of({"batch_id", "delivery_id", "feed_id", "source_uri", "read_spec_version", "malformed_text"}, StringType)
  @@ ("received_at" :> TimestampType) @@ ("object_seq" :> <<"int", 0, 0>>)
  @@ ("row_index" :> <<"bigint", 0, 0>>) @@ ("extras" :> <<"map", 0, 0>>)
  @@ Of(Declared(s.columns), StringType)

fact_and_state_columns(ft) ==
  [n \in FACT_STAMP_COLUMNS \cup Declared(ft.columns) |->
     IF n \in FACT_STAMP_COLUMNS THEN FACT_STAMP_TYPES[n]
     ELSE SparkType((CHOOSE c \in Elems(ft.columns) : c.name = n).type)]

QUARANTINE_COLUMNS ==
  Of({"batch_id", "delivery_id", "feed_id", "check_stage", "source_uri", "domain_id", "record_key",
      "row_hash", "reason_code", "reason_detail", "check_version", "row_snapshot"}, StringType)
  @@ ("object_seq" :> <<"int", 0, 0>>) @@ ("row_index" :> <<"bigint", 0, 0>>)
  @@ ("quarantined_at" :> TimestampType)

MARKER_COLUMNS ==
  Of({"batch_id", "feed_id", "stage", "table_name", "delivery_key", "delivery_content_hash"}, StringType)
  @@ ("snapshot_id" :> <<"bigint", 0, 0>>)
  @@ Of({"received_at", "committed_at"}, TimestampType)

-----------------------------------------------------------------------------
(* A step provisions one table; only its declared columns may be missing.  *)
Step(table, class, columns, declared) ==
  [table |-> table, class |-> class, columns |-> columns, declared |-> declared]

AdmissionSteps(s) ==
  <<Step(s.raw_table, "raw", raw_columns(s), Declared(s.columns)),
    Step(s.quarantine_table, "quarantine", QUARANTINE_COLUMNS, {})>>

FactSteps(ft) ==
  LET columns == fact_and_state_columns(ft)
  IN <<Step(ft.fact_table, "facts", columns, Declared(ft.columns)),
       Step(ft.state_table, "state", columns, Declared(ft.columns))>>

RecordSteps(s) ==
  LET types == SetToSeq(DOMAIN s.fact_types)
      two(i) == FactSteps(s.fact_types[types[(i + 1) \div 2]])
  IN [i \in 1..(2 * Len(types)) |-> two(i)[2 - (i % 2)]]
     \o <<Step(MarkersTable(s), "marker", MARKER_COLUMNS, {})>>

StepsFor(s) == Elems(AdmissionSteps(s)) \cup Elems(RecordSteps(s))

(* Every fact, state and marker table's last component begins with the     *)
(* pipeline's table slug and two underscores.                              *)
Prefixed(table, s) ==
  LET name == Last(table) prefix == table_slug(s.pipeline)
  IN /\ Len(name) > Len(prefix)
     /\ SubSeq(name, 1, Len(prefix)) = prefix
     /\ name[Len(prefix) + 1] \in TableSuffixes
assert_table_prefixes(s) ==
  \A t \in FactTables(s) \cup StateTables(s) \cup {MarkersTable(s)} : Prefixed(t, s)

build_table_class_inventory(s) ==
  (MarkersTable(s) :> "marker") @@ Of(StateTables(s), "state") @@ Of(FactTables(s), "facts")
  @@ (s.quarantine_table :> "quarantine") @@ (s.raw_table :> "raw")

\* Mutant: the types are not compared.
AdditiveByName(step, columns) ==
  /\ DOMAIN columns \subseteq DOMAIN step.columns
  /\ DOMAIN step.columns \ DOMAIN columns \subseteq step.declared

(* diff_raw_schema: clean iff what the table has is expected, of the same  *)
(* type, and what it lacks is declared.                                    *)
Additive(step, columns) ==
  /\ \A n \in DOMAIN columns : n \in DOMAIN step.columns /\ step.columns[n] = columns[n]
  /\ DOMAIN step.columns \ DOMAIN columns \subseteq step.declared

(* The five bootstrap_<class>_table functions: the table afterwards; None  *)
(* when they raise.                                                        *)
bootstrap_table(step) ==
  IF step.table \notin DOMAIN catalog
  THEN [class |-> step.class, columns |-> step.columns, rows |-> <<>>]
  ELSE IF Additive(step, catalog[step.table].columns)
  THEN [catalog[step.table] EXCEPT !.class = step.class, !.columns = step.columns]
  ELSE None

-----------------------------------------------------------------------------
StartAdmissionTables(s) ==
  /\ script = None /\ Parses(s)
  /\ script' = [todo |-> AdmissionSteps(s), inventory |-> None]
  /\ UNCHANGED <<catalog, inventory>>

StartRecordTables(s) ==
  /\ script = None /\ Parses(s) /\ assert_table_prefixes(s)
  /\ script' = [todo |-> RecordSteps(s), inventory |-> build_table_class_inventory(s)]
  /\ UNCHANGED <<catalog, inventory>>

(* A table whose name is no identifier cannot be qualified.                *)
ProvisionTable ==
  /\ script # None /\ script.todo # <<>>
  /\ LET step == Head(script.todo) table == bootstrap_table(step)
     IN IF check_qualified_table(step.table) /\ table # None
        THEN /\ catalog' = Put(catalog, step.table, table)
             /\ script' = [script EXCEPT !.todo = Tail(@)]
        ELSE script' = None /\ UNCHANGED catalog
  /\ UNCHANGED inventory

EndScript ==
  /\ script # None /\ script.todo = <<>>
  /\ inventory' = IF script.inventory = None THEN inventory ELSE script.inventory
  /\ script' = None
  /\ UNCHANGED catalog

(* The script dies between two statements.                                 *)
AbortScript == script # None /\ script' = None /\ UNCHANGED <<catalog, inventory>>
=============================================================================
