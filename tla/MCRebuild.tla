------------------------------- MODULE MCRebuild -------------------------------
(***************************************************************************)
(* A small record for Rebuild: one table, rows numbered domain-content.    *)
(***************************************************************************)
EXTENDS Rebuild

MCRow == {11, 12, 13, 21, 22}
TwoBatches == 1..2
ThreeBatches == 1..3
MCRowsOf == [b \in Batch |-> CASE b = 1 -> {11, 22} [] b = 2 -> {12, 13, 21} [] b = 3 -> {11}]
MCTableOf == [r \in Row |-> "policies"]
MCDomainOf == [r \in Row |-> r \div 10]
\* Row 22 carries a later value of a declared ordering column.
MCOrdering == [r \in Row |-> IF r = 22 THEN 1 ELSE 0]
TwoRebuilds == {"r1", "r2"}

================================================================================
