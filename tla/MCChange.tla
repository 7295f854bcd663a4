------------------------------- MODULE MCChange -------------------------------
(* Requirements and assumptions are model values, answers are numbers.  One  *)
(* entity and two answers make nine pairs, in both orders, with ids that do  *)
(* not exist yet among them.                                                 *)
EXTENDS Change

CONSTANT r1
OneComparable == {r1}
=============================================================================
