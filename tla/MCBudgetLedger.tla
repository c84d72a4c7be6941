--------------------------- MODULE MCBudgetLedger ---------------------------
(***************************************************************************)
(* Instances of BudgetLedger for TLC.                                      *)
(***************************************************************************)
EXTENDS BudgetLedger, TLC

CONSTANTS q1, q2, q3, l1, x1

\* Any two of the three priced calls fit under a cap of 4, all three do not.
Costs == [c \in Calls |-> IF c = l1 THEN 1 ELSE 2]

\* q3 names a model without a price.
Known == Calls \ {q3}

\* Requests at the same price are interchangeable.
Symmetry == Permutations({q1, q2})
=============================================================================
