----------------------------- MODULE AtomicLedger ----------------------------
(***************************************************************************)
(* What ppa/ledger/store.py promises its callers: the event log, the id     *)
(* counters, the idempotency map and the other fields of project.json are   *)
(* one object, and every call reads and changes it in one indivisible step. *)
(* A failure (the process dies, a write raises) does nothing, or it leaves  *)
(* one orphan: the event is in the log, and the counter and the key it      *)
(* needed are not.                                                          *)
(***************************************************************************)
EXTENDS Naturals, Sequences

CONSTANTS EntityPrefixes, AllocPrefixes, Keys, Fields, None

VARIABLES entries,   \* events, without their numbers
          ctr,       \* last id given out, per prefix
          used,      \* keys whose write is recorded
          field,     \* the fields of project.json that are not the store's
          failures   \* so far

avars == <<entries, ctr, used, field, failures>>

Entry(p, k) == [prefix |-> p, n |-> IF p = None THEN 0 ELSE ctr[p] + 1,
                key |-> k]

AInit ==
  /\ entries = <<>>
  /\ ctr = [p \in EntityPrefixes \cup AllocPrefixes |-> 0]
  /\ used = {}
  /\ field \in Fields
  /\ failures = 0

(* A write under a key already used is a replay, and changes nothing.       *)
Write(p, k) ==
  /\ k \notin used
  /\ entries' = Append(entries, Entry(p, k))
  /\ ctr' = IF p = None THEN ctr ELSE [ctr EXCEPT ![p] = @ + 1]
  /\ used' = used \cup ({k} \ {None})
  /\ UNCHANGED <<field, failures>>

Allocate(p) ==
  /\ ctr' = [ctr EXCEPT ![p] = @ + 1]
  /\ UNCHANGED <<entries, used, field, failures>>

SetField(f) ==
  /\ field' = f
  /\ UNCHANGED <<entries, ctr, used, failures>>

Orphan(p, k) ==
  /\ k \notin used
  /\ entries' = Append(entries, Entry(p, k))
  /\ failures' = failures + 1
  /\ UNCHANGED <<ctr, used, field>>

Fail ==
  /\ failures' = failures + 1
  /\ UNCHANGED <<entries, ctr, used, field>>

AtomicNext ==
  \/ \E p \in EntityPrefixes \cup {None}, k \in Keys \cup {None} : Write(p, k) \/ Orphan(p, k)
  \/ \E p \in AllocPrefixes : Allocate(p)
  \/ \E f \in Fields : SetField(f)
  \/ Fail

AtomicSpec == AInit /\ [][AtomicNext]_avars
=============================================================================
