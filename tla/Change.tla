-------------------------------- MODULE Change --------------------------------
(***************************************************************************)
(* Rounds of change: run_change_session of ppa/agents/modes/change.py, the *)
(* conflict candidates of ppa/engines/conflicts.py, manage_conflict of     *)
(* ppa/tools/discovery_tools.py with the arguments the tool server hands   *)
(* it: what the gate's condition 6 is folded from.                         *)
(*                                                                         *)
(* The answer that records the change is one step here (Questions has its  *)
(* writes), a requirement or assumption is its status (Entities has the    *)
(* rest, the review approval too), and the rewind that ends a round is     *)
(* RequestChange and Rewind of OuterLoop.  The impact reports are returned *)
(* and change nothing.  A person writes down a change when no round runs.  *)
(***************************************************************************)
EXTENDS Naturals, Sequences

CONSTANTS
  Comparable,        \* ids of requirements and assumptions
  MaxChanges,        \* bound: rounds
  MaxAdjudications   \* bound: adjudications in all

ASSUME ChangeAssumption ==
  /\ MaxChanges \in Nat /\ MaxAdjudications \in Nat
  /\ Comparable \cap (1..MaxChanges) = {}

VARIABLES
  status,    \* comparable entity -> its status
  last,      \* answers recorded; they are numbered from 1
  log,       \* conflict.adjudicated events
  pc,        \* where the round is
  round      \* the round: entities_before, its candidates, its result

vars == <<status, last, log, pc, round>>

Answers == 1..MaxChanges
Ids == Comparable \cup Answers
Existing == {e \in Comparable : status[e] # "ABSENT"} \cup 1..last

(* "unrelated" goes the way of "refinement" everywhere.                     *)
Verdicts == {"contradiction", "refinement"}

(* The value of "resolved" in a call, and how it comes: from the tool       *)
(* server, whose schema declares every field a string, or from Python.      *)
Forms == {"string", "bool"}

(* bool(kwargs["resolved"]): "resolved" is not among the fields that        *)
(* _coerce_mcp_value turns into a bool, and a string that is not blank is   *)
(* true.                                                                    *)
Coerce(form, value) == form = "string" \/ value

(* A bug: the fold is keyed by the candidate alone.                         *)
KeyOfCandidate(e) == <<e.candidate, e.candidate>>

(* unresolved_conflicts_from_events: the key of the fold, the event that is *)
(* left of a key (the last one wins), the conflicts that are left open.     *)
Key(e) == <<e.subject, e.candidate>>
Wins(i) == \A j \in DOMAIN log : Key(log[j]) = Key(log[i]) => j <= i
Unresolved == {Key(log[i]) : i \in {j \in DOMAIN log :
                 Wins(j) /\ log[j].verdict = "contradiction" /\ ~log[j].resolved}}

NoRound == [before |-> [e \in Comparable |-> "ABSENT"], candidates |-> {}, result |-> "none"]

Init ==
  /\ status = [e \in Comparable |-> "ABSENT"]
  /\ last = 0 /\ log = <<>>
  /\ pc = "idle" /\ round = NoRound

-----------------------------------------------------------------------------
(* Between rounds.                                                          *)

Write(e, to) ==
  /\ status' = [status EXCEPT ![e] = to]
  /\ UNCHANGED <<last, log, pc, round>>

(* The writers, called by the round's agent or by Discovery's; reject is    *)
(* left out, it ends an entity as supersede does.                           *)
Create(e) == status[e] = "ABSENT" /\ Write(e, "PROPOSED")
Confirm(e) == status[e] = "PROPOSED" /\ Write(e, "CONFIRMED")
Supersede(e) == status[e] \in {"PROPOSED", "CONFIRMED"} /\ Write(e, "SUPERSEDED")

-----------------------------------------------------------------------------
(* A round.                                                                 *)

(* _record_change_as_answer *)
StartChange ==
  /\ pc = "idle" /\ last < MaxChanges
  /\ last' = last + 1
  /\ pc' = "detect" /\ round' = NoRound
  /\ UNCHANGED <<status, log>>

(* A bug: the status is not looked at. *)
SettledAny == Comparable

(* _COMPARABLE_TYPES, once CONFIRMED. *)
Settled == {e \in Comparable : status[e] = "CONFIRMED"}

(* find_conflict_candidates: the answer's id first; the signals decide      *)
(* which of the Settled entities are candidates.                            *)
Detect(tripped) ==
  /\ pc = "detect"
  /\ tripped \subseteq Settled
  /\ pc' = "turn"
  /\ round' = [round EXCEPT !.before = status, !.candidates = {last} \X tripped]
  /\ UNCHANGED <<status, last, log>>

(* manage_conflict(adjudicate).  The ids are not looked up: they may name   *)
(* anything, in either order, and nothing at all.  said and at, what the    *)
(* agent meant and in which round, are for the properties.                  *)
Adjudicate(subject, candidate, verdict, form, value) ==
  /\ pc = "turn" /\ Len(log) < MaxAdjudications
  /\ log' = Append(log, [subject |-> subject, candidate |-> candidate, verdict |-> verdict,
                         resolved |-> Coerce(form, value), said |-> value, at |-> last])
  /\ UNCHANGED <<status, last, pc, round>>

(* The turn ends; the workflow is rewound and the impact reports returned.  *)
TurnEnds ==
  /\ pc = "turn"
  /\ pc' = "idle" /\ round' = [NoRound EXCEPT !.result = "OK"]
  /\ UNCHANGED <<status, last, log>>

(* The turn raises: what it wrote stays. *)
TurnFails ==
  /\ pc = "turn"
  /\ pc' = "idle" /\ round' = [NoRound EXCEPT !.result = "NON_RECOVERABLE"]
  /\ UNCHANGED <<status, last, log>>

(* The process dies. *)
Kill ==
  /\ pc # "idle"
  /\ pc' = "idle" /\ round' = NoRound
  /\ UNCHANGED <<status, last, log>>

Entity(e) == pc \in {"idle", "turn"} /\ (Create(e) \/ Confirm(e) \/ Supersede(e))

Agent ==
  \E subject, candidate \in Ids, verdict \in Verdicts, form \in Forms, value \in BOOLEAN :
     Adjudicate(subject, candidate, verdict, form, value)

Next == \/ (\E e \in Comparable : Entity(e))
        \/ StartChange \/ (\E tripped \in SUBSET Comparable : Detect(tripped))
        \/ Agent \/ TurnEnds \/ TurnFails \/ Kill

Spec == Init /\ [][Next]_vars

-----------------------------------------------------------------------------
(* evaluate_change_handling, the check of a finished round.                 *)

(* A bug: the answer of the candidate is not compared. *)
SurfacedAny(c) == \E i \in DOMAIN log : log[i].candidate = c[2]

Surfaced(c) == \E i \in DOMAIN log : Key(log[i]) = c

(* Its report on the round is ok, with c the conflict it watches. *)
ReportOk(c) == (\E e \in Comparable : status[e] # round.before[e]) /\ Surfaced(c)

-----------------------------------------------------------------------------
(* Properties.                                                             *)

Status == {"ABSENT", "PROPOSED", "CONFIRMED", "SUPERSEDED"}

(* Every variable keeps its shape; the candidates of a round pair its own   *)
(* answer with entities that exist.                                         *)
TypeOK ==
  /\ status \in [Comparable -> Status] /\ last \in 0..MaxChanges
  /\ log \in Seq([subject : Ids, candidate : Ids, verdict : Verdicts,
                  resolved : BOOLEAN, said : BOOLEAN, at : Answers])
  /\ pc \in {"idle", "detect", "turn"}
  /\ round.before \in [Comparable -> Status]
  /\ round.candidates \subseteq {last} \X {e \in Comparable : status[e] # "ABSENT"}
  /\ round.result \in {"none", "OK", "NON_RECOVERABLE"}

(* A conflict on the gate stays there until its own pair is adjudicated     *)
(* again: no verdict on another pair with the same answer or entity, no     *)
(* supersession, and no end, failure or kill of a round takes it off.       *)
ConflictsAreKept ==
  [][\A p \in Unresolved \ Unresolved' :
       log' # log /\ LET e == log'[Len(log')] IN <<e.subject, e.candidate>> = p]_vars

(* A round reported ok has its conflict adjudicated in this very round: no  *)
(* verdict of an earlier one stands in for it, unless an agent named an     *)
(* answer that was still to come.                                           *)
NoForesight == \A i \in DOMAIN log : log[i].subject \in Answers => log[i].subject <= log[i].at
OkReportIsThisRounds ==
  [][TurnEnds /\ NoForesight => \A c \in round.candidates : ReportOk(c) =>
       \E i \in DOMAIN log : log[i].candidate = c[2] /\ log[i].at = last]_vars

(* discovery_tools.py:1723: resolved is "true once subject_id has actually  *)
(* been superseded", "false if only surfaced so far", and :1747: a second   *)
(* call, with resolved=True, closes what was surfaced.  So a contradiction  *)
(* of an answer and an entity keeps the gate's condition 6 if, and only if, *)
(* the last word on the two left it open.                                   *)
LastWord(i) == \A j \in DOMAIN log : j > i =>
  {log[j].subject, log[j].candidate} # {log[i].subject, log[i].candidate}
GateFollowsVerdicts ==
  \A i \in DOMAIN log, a \in 1..last, e \in Existing \cap Comparable :
    LastWord(i) /\ {log[i].subject, log[i].candidate} = {a, e} /\ log[i].verdict = "contradiction"
      => (~log[i].said <=> Unresolved \cap {<<a, e>>, <<e, a>>} # {})

=============================================================================
