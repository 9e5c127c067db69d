------------------------------- MODULE Total -------------------------------
(***************************************************************************)
(* The sum of a function's whole values, as the number of units it stands  *)
(* for: x with h[x] = 3 stands for <<x, 1>>, <<x, 2>> and <<x, 3>>.  A sum  *)
(* that is no fold can be reasoned about without induction.                *)
(***************************************************************************)
EXTENDS Integers, FiniteSets

Units(h) == UNION {{x} \X (1 .. h[x]) : x \in DOMAIN h}

Total(h) == Cardinality(Units(h))
=============================================================================
