------------------------------ MODULE MCApproval ------------------------------
(* Two stories; batches of each kind: none, one, two in either order, one   *)
(* story twice.                                                             *)
EXTENDS Approval

CONSTANTS s1, s2
SomeStories == {s1, s2}
SomeBatches == {<<>>, <<s1>>, <<s1, s2>>, <<s2, s1>>, <<s1, s1>>}
=============================================================================
