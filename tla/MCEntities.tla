----------------------------- MODULE MCEntities -----------------------------
(* One entity of each kind for TLC; one area that matters and one that does *)
(* not exist.                                                               *)
EXTENDS Entities

CONSTANTS r1, a1, d1, u1, n1, core, stray

(* No provenance, an answer.                                                *)
SomeLinks == {{}, {n1}}

OnePair == {<<n1, r1>>}

=============================================================================
