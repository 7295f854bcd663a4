----------------------------- MODULE MCQuestions -----------------------------
(* Four questions, batches of up to three, up to two interruptions.         *)
EXTENDS Questions

=============================================================================
