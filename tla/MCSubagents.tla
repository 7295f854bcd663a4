----------------------------- MODULE MCSubagents ------------------------------
(* One entity of each kind for TLC, but two unknowns, so that a batch has a *)
(* part done and a part to do.                                              *)
EXTENDS Subagents

CONSTANTS r1, a1, d1, u1, u2, n1, f1, core

(* No provenance, an answer.                                                *)
SomeLinks == {{}, {n1}}

OnePair == {<<n1, r1>>}
SomeRank == [x \in {u1, u2, f1} |-> IF x = u1 THEN 1 ELSE IF x = u2 THEN 2 ELSE 3]
=============================================================================
