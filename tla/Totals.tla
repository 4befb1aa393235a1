------------------------------- MODULE Totals -------------------------------
(***************************************************************************)
(* Sums of bytes, counted instead of folded: the sum of f over S, where no *)
(* value is above `max`, is the number of cells below the graph of f.      *)
(***************************************************************************)
EXTENDS Integers, FiniteSets

Cells(f, S, max) == {x \in S \X (1..max) : x[2] <= f[x[1]]}
Total(f, S, max) == Cardinality(Cells(f, S, max))
=============================================================================
