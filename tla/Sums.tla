-------------------------------- MODULE Sums --------------------------------
(* SQL's COALESCE(SUM(column), 0) over the rows of a table, for a column of  *)
(* natural numbers: Total, the number of units the rows hold between them,   *)
(* so that the finite-set theorems of the library apply to it, and Sum, for  *)
(* a column of integers.                                                     *)
EXTENDS Naturals, FiniteSets

Units(f) == UNION {{x} \X (1..f[x]) : x \in DOMAIN f}

Total(f) == Cardinality(Units(f))

\* SUM(column), a column of integers, row by row in any order.
Sum(column) ==
    LET upTo[rows \in SUBSET DOMAIN column] ==
          IF rows = {} THEN 0
          ELSE LET row == CHOOSE x \in rows : TRUE IN column[row] + upTo[rows \ {row}]
    IN  upTo[DOMAIN column]
=============================================================================
