------------------------------ MODULE MCBatchRun ------------------------------
(***************************************************************************)
(* Small feeds for BatchRun.  A row is numbered table-key-content: row 112 *)
(* is content 2 of record_key 1 in table 1.                                *)
(***************************************************************************)
EXTENDS BatchRun

\* record_key and domain_id of a row.
MCKeyOf == [r \in Row |-> r \div 10]
MCTableOf == [r \in Row |-> IF r < 200 THEN "policies" ELSE "agents"]

\* Row 122 carries a later value of a declared ordering column; otherwise
\* received_at decides.
MCOrdering == [r \in Row |-> IF r = 122 THEN 1 ELSE 0]

\* Two batches, two tables: the second delivery re-asserts a row and changes
\* another; both checks may find more or fewer violations in every attempt.
TwoTables == <<"policies", "agents">>
TwoTableRows == {111, 112, 211}
RerunBatches == 1..2
RerunRowsOf == [b \in Batch |-> IF b = 1 THEN {111, 211} ELSE {112, 211}]
MCDrifting == [stage \in {"pre_check", "post_check"} |->
                 IF stage = "pre_check" THEN {111} ELSE {111, 211}]
Twice == [b \in Batch |-> 2]

\* Three batches, one table: a value, its change and its revert.
OneTable == <<"policies">>
RevertRows == {111, 112, 121, 122}
ThreeBatches == 1..3
RevertRowsOf == [b \in Batch |-> CASE b = 1 -> {111, 122} [] b = 2 -> {112, 121} [] b = 3 -> {111, 121}]
\* The second delivery corrects the first.
CorrectedKey == [b \in Batch |-> IF b = 2 THEN 1 ELSE b]
MiddleTwice == [b \in Batch |-> IF b = 2 THEN 2 ELSE 1]

\* The second delivery asserts two contents of one record_key, the larger of
\* which the first has asserted.
DivergentRows == {111, 112}
DivergentRowsOf == [b \in Batch |-> IF b = 1 THEN {112} ELSE {111, 112}]

OwnKey == [b \in Batch |-> b]
NoDrift == [stage \in {"pre_check", "post_check"} |-> {}]

================================================================================
