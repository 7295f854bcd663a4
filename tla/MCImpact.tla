------------------------------- MODULE MCImpact -------------------------------
(* All links among three entities and to one id that is none.               *)
EXTENDS Impact

SomeNodes == 1..4
SomeEntities == 1..3

=============================================================================
