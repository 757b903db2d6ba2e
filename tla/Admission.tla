------------------------------ MODULE Admission ------------------------------
(***************************************************************************)
(* What becomes of the data of a batch on its way into the fact tables:    *)
(* objects are read into raw rows (core/reading.py, effects/spark.py), the *)
(* raw contract admits or quarantines them (frames/checks.py), the         *)
(* transforms derive candidate facts, and the business checks admit or     *)
(* quarantine those (frames/business_checks.py, frames/quarantine.py).     *)
(*                                                                         *)
(* An object is [rank, readable, ext, lines], rank its place in the order  *)
(* of the URIs; a line is [cells, shape]: what a CSV reader makes of it on *)
(* its own, and whether its quotes are balanced ("plain"), leave the last  *)
(* cell open ("opens"), would close an open one in its first cell          *)
(* ("closes") or have text after a closing quote ("junk").  A blank line   *)
(* has no cells.  A frame is a function from places to rows, so that equal *)
(* rows are kept apart and what is filtered, projected or joined keeps its *)
(* place; a raw row's is its locator, <<object_seq, row_index>>.           *)
(***************************************************************************)
EXTENDS SpecBinding

CONSTANTS
  Garbled,        \* cells with a replacement character
  Matching,       \* pattern -> the cells it matches in full
  IntLimit        \* the largest number an int column holds

\* An absent cell and an empty one are not garbled; no text reads as none, and
\* none is no name.
ASSUME CellsAssumption ==
  /\ Garbled \cap {None, ""} = {} /\ None \notin Identifiers /\ None # <<>>
  /\ \A f \in {IntCells, DateCells} : \A cell \in DOMAIN f : f[cell] \in Int /\ f[cell] # None

Joined == "joined"      \* a cell that spans lines

-----------------------------------------------------------------------------
(* Reading.                                                                *)

parse_line(l) == IF l.shape \in {"opens", "junk"} THEN None ELSE l.cells

\* Mutant: the header is skipped, columns are taken by their place.
bind_by_place(tokens, s) == [column_at |-> NamesOf(s.columns), tokens |-> NamesOf(s.columns)]

(* The binding of an object: the column at each position (None for an      *)
(* extra), the header's own tokens, and the width its records must have.   *)
bind_header(tokens, s) ==
  IF s.read.header
  THEN [column_at |-> [i \in DOMAIN tokens |-> IF tokens[i] \in Declared(s.columns)
                                               THEN tokens[i] ELSE None],
        tokens |-> tokens]
  ELSE [column_at |-> NamesOf(s.columns), tokens |-> NamesOf(s.columns)]

(* One record, or a malformed or ragged one kept whole; an empty cell of a *)
(* declared column is NULL, of an extra it is not.                         *)
shape_row(record, binding, s) ==
  LET tokens == record.tokens
      malformed == tokens = None \/ Len(tokens) # Len(binding.column_at)
      at(name) == {i \in DOMAIN tokens : binding.column_at[i] = name}
      cell(name) == IF at(name) = {} THEN None
                    ELSE LET c == tokens[CHOOSE i \in at(name) : TRUE]
                         IN IF c = "" THEN None ELSE c
      extra == {i \in DOMAIN tokens : binding.column_at[i] = None}
  IN [malformed_text |-> IF malformed THEN record.text ELSE None,
      cells |-> [n \in Declared(s.columns) |-> IF malformed THEN None ELSE cell(n)],
      extras |-> IF malformed THEN << >>
                 ELSE [k \in {binding.tokens[i] : i \in extra} |->
                         tokens[CHOOSE i \in extra : binding.tokens[i] = k]]]

(* One reader over all lines: a record left open runs to the next line     *)
(* with a quote, or to the end of the object.                              *)
multiline_records(lines) ==
  LET open[i \in 0..Len(lines)] ==
        i > 0 /\ lines[i].shape = (IF open[i - 1] THEN "plain" ELSE "opens")
      starts == SelectSeq([i \in DOMAIN lines |-> i], LAMBDA i : ~open[i - 1])
      last(i) == CHOOSE j \in i..Len(lines) :
                   (j = Len(lines) \/ ~open[j]) /\ \A k \in i..(j - 1) : open[k]
      rest(i) == IF last(i) = i \/ lines[last(i)].shape # "closes" THEN <<>> ELSE Tail(lines[last(i)].cells)
      tokens(i) == IF lines[i].shape # "opens" THEN lines[i].cells
                   ELSE Append(Front(lines[i].cells), Joined) \o rest(i)
  IN [k \in DOMAIN starts |->
        [tokens |-> tokens(starts[k]), text |-> SubSeq(lines, starts[k], last(starts[k]))]]

line_records(lines) == [i \in DOMAIN lines |-> [tokens |-> parse_line(lines[i]), text |-> <<lines[i]>>]]

\* Of the places 1..n those given, in order.
InOrder(places, n) == FlattenSeq([i \in 1..n |-> IF i \in places THEN <<i>> ELSE <<>>])
NonBlank(records) ==
  LET kept == InOrder({i \in DOMAIN records : records[i].tokens # <<>>}, Len(records))
  IN [k \in DOMAIN kept |-> records[kept[k]]]

(* The records of the body, blank ones gone: past the skipped lines, and   *)
(* past the header, which is one line or one record.                       *)
BodyRecords(o, s) ==
  LET rest == SubSeq(o.lines, s.read.skip + 1, Len(o.lines))
      records == IF s.read.multiline THEN multiline_records(rest) ELSE line_records(rest)
  IN NonBlank(IF s.read.header THEN Tail(records) ELSE records)

(* The probe of one object; None stands for any defect of it.              *)
GzipExtensions == {"gz", "gzip"}
CompressionExtensions == GzipExtensions \cup {"zst", "bz2", "lz4", "snappy", "deflate"}
check_compression_extension(o, s) ==
  IF s.read.compression = "gzip" THEN o.ext \in GzipExtensions ELSE o.ext \notin CompressionExtensions

probe_header(o, s) ==
  LET header == o.lines[s.read.skip + 1].cells
  IN IF \/ ~o.readable
        \/ s.read.header /\ \/ Len(o.lines) <= s.read.skip
                            \/ parse_line(o.lines[s.read.skip + 1]) = None
                            \/ ~NoRepeats(header)
                            \/ \E c \in Elems(s.columns) : c.required /\ c.name \notin Elems(header)
     THEN None
     ELSE bind_header(IF s.read.header THEN header ELSE <<>>, s)

(* Every object is checked and probed before the body of any is read.      *)
Sorted(objects) == SortSeq(objects, LAMBDA x, y : x.rank < y.rank)
read_objects(objects, s) ==
  LET sorted == Sorted(objects)
      probes == [i \in DOMAIN sorted |-> probe_header(sorted[i], s)]
      bodies == [i \in DOMAIN sorted |-> BodyRecords(sorted[i], s)]
      locators == UNION {{i} \X DOMAIN bodies[i] : i \in DOMAIN sorted}
  IN IF \E i \in DOMAIN sorted : ~check_compression_extension(sorted[i], s) \/ probes[i] = None
     THEN None
     ELSE [l \in locators |-> shape_row(bodies[l[1]][l[2]], probes[l[1]], s)]

-----------------------------------------------------------------------------
(* The raw contract.  A check fails a row iff its predicate is TRUE; NULL  *)
(* does not fail.                                                          *)

(* _typed_expr: the cell cast to the column's type, None where it cannot   *)
(* be.                                                                     *)
typed_expr(cell, type) ==
  LET v == ValueOf(cell, type.kind)
  IN IF cell = None \/ v = None THEN None
     ELSE IF \/ type.kind = "int" /\ v > IntLimit
             \/ type.kind = "decimal" /\ v >= 10 ^ (type.precision - type.scale)
     THEN None ELSE v

(* The checks in the order of evaluation: of a row, then of each column    *)
(* that declares the constraint, all columns for one kind before the next. *)
ROW_CHECKS == <<[id |-> "malformed", code |-> "unreadable/malformed-row"],
                [id |-> "encoding",  code |-> "unreadable/encoding-suspect"]>>
COLUMN_CHECKS == <<[id |-> "cast",    code |-> "contract/cast-failure"],
                   [id |-> "null",    code |-> "contract/null-violation"],
                   [id |-> "allowed", code |-> "contract/value-not-allowed"],
                   [id |-> "pattern", code |-> "contract/pattern-mismatch"],
                   [id |-> "bounds",  code |-> "contract/out-of-bounds"]>>
CHECKS == ROW_CHECKS \o COLUMN_CHECKS

Declares(c, id) ==
  CASE id = "cast"    -> c.type.kind # "string"
    [] id = "null"    -> ~c.nullable
    [] id = "allowed" -> c.allowed # None
    [] id = "pattern" -> c.pattern # None
    [] id = "bounds"  -> c.min # None \/ c.max # None

\* An entry is <<kind, column>>, places in CHECKS and in s.columns (0: the row).
compile_contract(s) ==
  {<<1, 0>>} \cup (IF s.forbid_replacement_chars THEN {<<2, 0>>} ELSE {})
  \cup {e \in (3..7) \X DOMAIN s.columns : Declares(s.columns[e[2]], CHECKS[e[1]].id)}

(* A bound is compared as a value of the column's own type; one that does  *)
(* not parse fails every value.                                            *)
OutOfBounds(cell, c) ==
  LET v == typed_expr(cell, c.type)
      bound(b) == ValueOf(b, c.type.kind)
  IN /\ v # None
     /\ \/ c.min # None /\ (IF bound(c.min) = None THEN TRUE ELSE v < bound(c.min))
        \/ c.max # None /\ (IF bound(c.max) = None THEN TRUE ELSE v > bound(c.max))

TextOf(r) ==
  {r.cells[n] : n \in DOMAIN r.cells} \cup DOMAIN r.extras \cup {r.extras[k] : k \in DOMAIN r.extras}
  \cup (IF r.malformed_text = None THEN {} ELSE UNION {Elems(l.cells) : l \in Elems(r.malformed_text)})

RowFails(id, r) ==
  CASE id = "malformed" -> r.malformed_text # None
    [] id = "encoding"  -> TextOf(r) \cap Garbled # {}

CellFails(id, cell, c) ==
  CASE id = "cast"    -> cell # None /\ typed_expr(cell, c.type) = None
    [] id = "null"    -> cell = None
    [] id = "allowed" -> cell # None /\ cell \notin c.allowed
    [] id = "pattern" -> cell # None /\ cell \notin Matching[c.pattern]
    [] id = "bounds"  -> OutOfBounds(cell, c)

(* The failures of a row; the first one in the order of evaluation is its  *)
(* reason.                                                                 *)
evaluate(r, s) ==
  {e \in compile_contract(s) :
     IF e[2] = 0 THEN RowFails(CHECKS[e[1]].id, r)
     ELSE CellFails(CHECKS[e[1]].id, r.cells[s.columns[e[2]].name], s.columns[e[2]])}
reason_code(failures) ==
  LET first == CHOOSE e \in failures :
                 \A x \in failures : e[1] < x[1] \/ (e[1] = x[1] /\ e[2] <= x[2])
  IN CHECKS[first[1]].code

zero_failures(raw, s) == Restrict(raw, {l \in DOMAIN raw : evaluate(raw[l], s) = {}})
violations(raw, s) == Restrict(raw, {l \in DOMAIN raw : evaluate(raw[l], s) # {}})

typed_projection(raw, s) ==
  [l \in DOMAIN raw |-> [n \in Declared(s.columns) |->
     typed_expr(raw[l].cells[n], (CHOOSE c \in Elems(s.columns) : c.name = n).type)]]

Locators(quarantined) == {q.locator : q \in quarantined}
\* Mutant: row_index counted from zero on one side.
locator_subtraction_shifted(raw, durable) ==
  Restrict(raw, {l \in DOMAIN raw : raw[l].malformed_text = None /\ <<l[1], l[2] - 1>> \notin Locators(durable)})
locator_subtraction(raw, durable) ==
  Restrict(raw, {l \in DOMAIN raw : raw[l].malformed_text = None /\ l \notin Locators(durable)})
readable_rows(raw) == Restrict(raw, {l \in DOMAIN raw : raw[l].malformed_text = None})

(* shape_pre_quarantine. The snapshot carries every declared column but    *)
(* those named like a column of reasons.                                   *)
ReasonColumns == {"reason_code", "reason_detail"}
shape_pre_quarantine(viol, s) ==
  {[locator |-> l, reason |-> reason_code(evaluate(viol[l], s)), malformed_text |-> viol[l].malformed_text,
    snapshot |-> [n \in DOMAIN viol[l].cells \ ReasonColumns |-> viol[l].cells[n]]] : l \in DOMAIN viol}

\* Mutant: the probe judges what is left of the rows.
PreDriftOfRest(raw, durable, s) ==
  Locators(durable) # DOMAIN violations(locator_subtraction(raw, durable), s)

(* _drift_probe: what the contract of this attempt says of the rows whose  *)
(* fate an earlier one has settled.                                        *)
PreDrift(raw, durable, s) ==
  \/ Locators(durable) # DOMAIN violations(raw, s)
  \/ \E r \in Elems(locator_subtraction(raw, durable)) :
       \E c \in Elems(s.columns) :
         r.cells[c.name] # None /\ typed_expr(r.cells[c.name], c.type) = None

-----------------------------------------------------------------------------
(* The transforms (external: the pipeline's own module).  The modelled one *)
(* projects the valid rows on the columns of each type it returns.         *)
apply(valid, s) ==
  [t \in s.module.returns |->
     [l \in DOMAIN valid |-> [n \in Declared(s.fact_types[t].columns) \cap DOMAIN valid[l] |-> valid[l][n]]]]

assert_return_shape(s) == s.module.returns = DOMAIN s.fact_types

(* _assert_candidate_schema: columns and types of the frame are those of   *)
(* the fact schema.                                                        *)
assert_candidate_schema(s, t) ==
  \A c \in Elems(s.fact_types[t].columns) :
    \E r \in Elems(s.columns) : r.name = c.name /\ SparkType(r.type) = SparkType(c.type)

-----------------------------------------------------------------------------
(* The business checks.  SQL's third truth value is None.                  *)
Not3(v) == IF v = None THEN None ELSE ~v
Evaluated(n, kids, row) ==
  LET nulls == None \in Elems(kids)
      equal(x, y) == x = y
  IN CASE n.kind = "Column" -> row[n.name]
       [] n.kind = "String" -> n.name
       [] n.kind = "Number" -> IntCells[n.name]
       [] n.kind = "Null"   -> None
       [] n.kind = "Paren"  -> kids[1]
       [] n.kind = "Not"    -> Not3(kids[1])
       [] n.kind = "Is"     -> kids[1] = None
       [] n.kind = "And"    -> IF FALSE \in Elems(kids) THEN FALSE ELSE IF nulls THEN None ELSE TRUE
       [] n.kind = "Or"     -> IF TRUE \in Elems(kids) THEN TRUE ELSE IF nulls THEN None ELSE FALSE
       [] n.kind = "Coalesce" -> IF nulls /\ kids[1] = None THEN kids[2] ELSE kids[1]
       [] n.kind = "EQ"  -> IF nulls THEN None ELSE kids[1] = kids[2]
       [] n.kind = "GT"  -> IF nulls THEN None ELSE kids[1] > kids[2]
       [] n.kind = "LTE" -> IF nulls THEN None ELSE kids[1] <= kids[2]
       [] n.kind = "In"  -> IF kids[1] = None THEN None ELSE kids[1] \in {kids[i] : i \in 2..Len(kids)}

Eval(n, row) ==
  LET value[m \in Subtrees(n)] == Evaluated(m, [i \in DOMAIN m.args |-> value[m.args[i]]], row)
  IN value[n]

(* The implicit check of the domain id is entry 0, then come the type's    *)
(* own, as places in s.checks.                                             *)
ImplicitCheck == [kind |-> "implicit", id |-> "missing-domain-id",
                  reason |-> "business/missing-domain-id"]
EntryOfCheck(s, i) == IF i = 0 THEN ImplicitCheck ELSE s.checks[i]
compile_business_checks(s, t) ==
  {0} \cup {i \in DOMAIN s.checks : s.checks[i].fact_type = t /\ s.checks[i].kind # "batch_check"}

(* The distinct reference tuples a membership check joins with, as the     *)
(* values of its own columns; a candidate is repeated for every match.     *)
RefTuples(c, ref) == {[i \in DOMAIN c.ref_columns |-> r[c.ref_columns[i]]] : r \in Elems(ref)}
RefMatches(row, c, ref) ==
  {u \in RefTuples(c, ref) :
     \A i \in DOMAIN c.columns : row[c.columns[i]] # None /\ row[c.columns[i]] = u[i]}

\* The matches of a left join; None is the row without one.
join_membership_marker(row, c, ref) ==
  IF RefMatches(row, c, ref) = {} THEN {None} ELSE RefMatches(row, c, ref)

(* All joins of a type: a candidate is found once for every choice of a    *)
(* match in each of them.                                                  *)
Memberships(s, t) == {i \in compile_business_checks(s, t) : EntryOfCheck(s, i).kind = "membership"}
evaluated(cands, s, t, co) ==
  LET marks(row, i) == join_membership_marker(row, s.checks[i], co[s.checks[i].co_effect])
      choices(row) == {m \in [Memberships(s, t) -> UNION {marks(row, i) : i \in Memberships(s, t)}] :
                         \A i \in Memberships(s, t) : m[i] \in marks(row, i)}
  IN [q \in UNION {{l} \X choices(cands[l]) : l \in DOMAIN cands} |-> cands[q[1]]]

BusinessFails(c, row, s, t, co) ==
  CASE c.kind = "implicit" -> row[s.fact_types[t].domain_id_col] = None
    [] c.kind = "row" -> Eval(c.expr, row) = FALSE
    [] c.kind = "membership" ->
         /\ \A n \in Elems(c.columns) : row[n] # None
         /\ RefMatches(row, c, co[c.co_effect]) = {}

BusinessFailures(row, s, t, co) ==
  {i \in compile_business_checks(s, t) : BusinessFails(EntryOfCheck(s, i), row, s, t, co)}
admitted_candidates(cands, s, t, co) ==
  LET all == evaluated(cands, s, t, co)
  IN Restrict(all, {q \in DOMAIN all : BusinessFailures(all[q], s, t, co) = {}})

(* The failing rows with their reason in a column of its own; a declared   *)
(* column of that name is overwritten.                                     *)
business_violations(cands, s, t, co) ==
  LET all == evaluated(cands, s, t, co)
      reason(row) == EntryOfCheck(s, Min(BusinessFailures(row, s, t, co))).reason
  IN [q \in {x \in DOMAIN all : BusinessFailures(all[x], s, t, co) # {}} |->
       [row |-> [n \in DOMAIN all[q] |-> IF n \in ReasonColumns THEN reason(all[q]) ELSE all[q][n]],
        reason |-> reason(all[q])]]

(* A row's hash, over its type and its declared columns.                   *)
candidate_row_hash(row, t) == <<t, row>>
\* Mutant: the candidates refused by an earlier attempt come back.
hash_subtraction_none(cands, t, durable) == cands
hash_subtraction(cands, t, durable) ==
  LET gone == {q.row_hash : q \in durable}
  IN Restrict(cands, {l \in DOMAIN cands : candidate_row_hash(cands[l], t) \notin gone})

KeyOf(row, ft) == [n \in Elems(ft.record_key) |-> row[n]]
shape_post_quarantine(viol, s, t) ==
  {[row_hash |-> candidate_row_hash(v.row, t), reason |-> v.reason,
    domain_id |-> v.row[s.fact_types[t].domain_id_col],
    record_key |-> IF \E n \in Elems(s.fact_types[t].record_key) : v.row[n] = None
                   THEN None ELSE KeyOf(v.row, s.fact_types[t])] : v \in Elems(viol)}

PostDrift(cands, durable, s, co) ==
  {q.row_hash : q \in durable} #
  UNION {{candidate_row_hash(v.row, t) : v \in Elems(business_violations(cands[t], s, t, co))}
           : t \in DOMAIN cands}

-----------------------------------------------------------------------------
(* structural_fact_check and the within-batch half of delta_filter: facts  *)
(* are what is left of equal (record_key, content).                        *)
StampedColumns(ft) == Declared(ft.columns) \cup FACT_STAMP_COLUMNS
structural_fact_check(cands, ft, table) ==
  /\ \A r \in Elems(cands) : r[ft.domain_id_col] # None
  /\ StampedColumns(ft) = DOMAIN table.columns
novel_facts(cands) == Elems(cands)
=============================================================================
