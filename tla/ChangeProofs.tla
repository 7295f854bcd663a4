----------------------------- MODULE ChangeProofs -----------------------------
(* Theorems about Change, for any entities and any bounds.                  *)
EXTENDS Change, TLAPS

(* An adjudication is of a round that has begun, and a turn runs in one.    *)
RoundInv ==
  /\ \A i \in DOMAIN log : log[i].at <= last
  /\ pc # "idle" => last \in Answers

IInv == TypeOK /\ RoundInv

Event == [subject : Ids, candidate : Ids, verdict : Verdicts,
          resolved : BOOLEAN, said : BOOLEAN, at : Answers]

LEMMA InvInit == Init => IInv
<1> SUFFICES ASSUME Init PROVE IInv OBVIOUS
<1>1. status \in [Comparable -> Status] /\ last \in 0..MaxChanges
  BY ChangeAssumption DEF Init, Status
<1>2. log = <<>> /\ DOMAIN log = {}
  BY DEF Init
<1>3. round.before \in [Comparable -> Status] /\ round.candidates = {} /\ round.result = "none"
  BY DEF Init, NoRound, Status
<1>4. TypeOK
  <2>1. log \in Seq(Event)
    BY <1>2
  <2>2. pc \in {"idle", "detect", "turn"}
    BY DEF Init
  <2> QED BY <1>1, <1>3, <2>1, <2>2 DEF TypeOK, Event
<1>5. RoundInv
  BY <1>2 DEF RoundInv, Init
<1> QED BY <1>4, <1>5 DEF IInv

LEMMA WriteKeepsInv ==
  ASSUME IInv, NEW e \in Comparable, NEW to \in Status \ {"ABSENT"}, Write(e, to)
  PROVE IInv'
<1>1. status' \in [Comparable -> Status]
  BY DEF IInv, TypeOK, Write
<1>2. \A d \in Comparable : status[d] # "ABSENT" => status'[d] # "ABSENT"
  BY DEF IInv, TypeOK, Write
<1>3. Existing \subseteq Existing'
  BY <1>2 DEF Existing, Write
<1>4. TypeOK'
  BY <1>1, <1>2, <1>3 DEF IInv, TypeOK, Write
<1>5. RoundInv'
  BY DEF IInv, RoundInv, Write
<1> QED BY <1>4, <1>5 DEF IInv

LEMMA InvNext == IInv /\ [Next]_vars => IInv'
<1> SUFFICES ASSUME IInv, [Next]_vars PROVE IInv' OBVIOUS
<1>1. TypeOK /\ RoundInv
  BY DEF IInv
<1>2. last \in Nat /\ log \in Seq(Event)
  BY <1>1, ChangeAssumption DEF TypeOK, Event
<1>3. CASE UNCHANGED vars
  BY <1>1, <1>3 DEF IInv, TypeOK, RoundInv, Existing, vars
<1>4. ASSUME NEW e \in Comparable, Entity(e) PROVE IInv'
  BY <1>4, WriteKeepsInv DEF Entity, Create, Confirm, Supersede, Status
<1>5. CASE StartChange
  <2>1. last' = last + 1 /\ last' \in 0..MaxChanges
    BY <1>2, <1>5, ChangeAssumption DEF StartChange
  <2>2. TypeOK'
    BY <1>1, <1>5, <2>1 DEF StartChange, TypeOK, NoRound, Status
  <2>3. \A i \in DOMAIN log : log[i].at \in Nat
    <3> SUFFICES ASSUME NEW i \in DOMAIN log PROVE log[i].at \in Nat OBVIOUS
    <3>1. log[i] \in Event
      BY <1>2
    <3> QED BY <3>1, ChangeAssumption DEF Event, Answers
  <2>4. last' \in Answers
    BY <1>2, <1>5, <2>1, ChangeAssumption DEF StartChange, Answers
  <2>5. RoundInv'
    BY <1>1, <1>2, <1>5, <2>1, <2>3, <2>4 DEF StartChange, RoundInv
  <2> QED BY <2>2, <2>5 DEF IInv
<1>6. ASSUME NEW tripped \in SUBSET Comparable, Detect(tripped) PROVE IInv'
  <2>1. TypeOK'
    BY <1>1, <1>6 DEF Detect, TypeOK, Settled, Existing
  <2>2. RoundInv'
    BY <1>1, <1>6 DEF Detect, RoundInv
  <2> QED BY <2>1, <2>2 DEF IInv
<1>7. ASSUME NEW subject \in Ids, NEW candidate \in Ids, NEW verdict \in Verdicts,
             NEW form \in Forms, NEW value \in BOOLEAN,
             Adjudicate(subject, candidate, verdict, form, value)
      PROVE IInv'
  <2> DEFINE e == [subject |-> subject, candidate |-> candidate, verdict |-> verdict,
                   resolved |-> Coerce(form, value), said |-> value, at |-> last]
  <2>1. log' = Append(log, e) /\ UNCHANGED <<status, last, pc, round>>
    BY <1>7 DEF Adjudicate
  <2>2. last \in Answers
    BY <1>1, <1>7 DEF Adjudicate, RoundInv
  <2>3. Coerce(form, value) \in BOOLEAN
    BY DEF Coerce
  <2>4. e \in Event /\ e.at = last
    BY <2>2, <2>3 DEF Event
  <2> HIDE DEF e
  <2>5. TypeOK'
    BY <1>1, <1>2, <2>1, <2>4 DEF TypeOK, Event, Existing
  <2>6. RoundInv'
    BY <1>1, <1>2, <2>1, <2>2, <2>4 DEF RoundInv
  <2> QED BY <2>5, <2>6 DEF IInv
<1>8. CASE Agent
  BY <1>7, <1>8 DEF Agent
<1>9. CASE TurnEnds \/ TurnFails \/ Kill
  <2>1. UNCHANGED <<status, last, log>> /\ Existing' = Existing
    BY <1>9 DEF TurnEnds, TurnFails, Kill, Existing
  <2>2. /\ round'.before \in [Comparable -> Status] /\ round'.candidates = {}
        /\ round'.result \in {"none", "OK", "NON_RECOVERABLE"}
    <3>1. [e \in Comparable |-> "ABSENT"] \in [Comparable -> Status]
      BY DEF Status
    <3>2. CASE TurnEnds
      BY <3>1, <3>2 DEF TurnEnds, NoRound
    <3>3. CASE TurnFails
      BY <3>1, <3>3 DEF TurnFails, NoRound
    <3>4. CASE Kill
      BY <3>1, <3>4 DEF Kill, NoRound
    <3> QED BY <1>9, <3>2, <3>3, <3>4
  <2>3. pc' = "idle"
    BY <1>9 DEF TurnEnds, TurnFails, Kill
  <2>4. TypeOK'
    BY <1>1, <2>1, <2>2, <2>3 DEF TypeOK
  <2>5. RoundInv'
    BY <1>1, <2>1, <2>3 DEF RoundInv
  <2> QED BY <2>4, <2>5 DEF IInv
<1> QED BY <1>3, <1>4, <1>5, <1>6, <1>8, <1>9 DEF Next

LEMMA Invariant == Spec => []IInv
BY InvInit, InvNext, PTL DEF Spec

(* Every variable keeps its shape; a round's candidates pair its own answer *)
(* with entities that exist.                                                *)
THEOREM ChangeTypeCorrect == Spec => []TypeOK
<1>1. IInv => TypeOK
  BY DEF IInv
<1> QED BY <1>1, Invariant, PTL

(* A report of evaluate_change_handling is ok only if the conflict it       *)
(* watches was adjudicated in the very round, unless an agent had named the *)
(* round's answer before it was there.                                      *)
THEOREM ReportsAreOfTheRound == Spec => OkReportIsThisRounds
<1> DEFINE Step == TurnEnds /\ NoForesight => \A c \in round.candidates : ReportOk(c) =>
                     \E i \in DOMAIN log : log[i].candidate = c[2] /\ log[i].at = last
<1>1. IInv => Step
  <2> SUFFICES ASSUME IInv, TurnEnds, NoForesight, NEW c \in round.candidates, ReportOk(c)
               PROVE \E i \in DOMAIN log : log[i].candidate = c[2] /\ log[i].at = last
    OBVIOUS
  <2>1. PICK i \in DOMAIN log : <<log[i].subject, log[i].candidate>> = c
    BY DEF ReportOk, Surfaced, Key
  <2>2. c[1] = last /\ log[i].subject = c[1] /\ log[i].candidate = c[2]
    BY <2>1 DEF IInv, TypeOK
  <2>3. log \in Seq(Event) /\ last \in Answers
    BY DEF IInv, TypeOK, Event, RoundInv, TurnEnds
  <2>4. log[i] \in Event
    BY <2>3
  <2>5. log[i].at \in Answers /\ log[i].at <= last
    BY <2>4 DEF Event, IInv, RoundInv
  <2>6. last <= log[i].at
    BY <2>2, <2>3 DEF NoForesight
  <2> QED BY <2>2, <2>3, <2>5, <2>6, ChangeAssumption DEF Answers
<1>2. Spec => [][Step]_vars
  BY <1>1, Invariant, PTL
<1> QED BY <1>2 DEF OkReportIsThisRounds

(* Only an adjudication changes the log, by one event at its end.           *)
LEMMA LogStep ==
  ASSUME IInv, [Next]_vars
  PROVE  log' = log \/ \E e \in Event : log' = Append(log, e)
<1>1. log \in Seq(Event) /\ log' \in Seq(Event)
  BY InvNext DEF IInv, TypeOK, Event
<1>2. CASE Agent
  <2>1. PICK e : log' = Append(log, e)
    BY <1>2 DEF Agent, Adjudicate
  <2>2. log'[Len(log) + 1] = e /\ Len(log) + 1 \in DOMAIN log'
    BY <1>1, <2>1
  <2>3. e \in Event
    BY <1>1, <2>2
  <2> QED BY <2>1, <2>3
<1>3. CASE StartChange \/ TurnEnds \/ TurnFails \/ Kill \/ UNCHANGED vars
  BY <1>3 DEF StartChange, TurnEnds, TurnFails, Kill, vars
<1>4. CASE \E e \in Comparable : Entity(e)
  BY <1>4 DEF Entity, Create, Confirm, Supersede, Write
<1>5. CASE \E tripped \in SUBSET Comparable : Detect(tripped)
  BY <1>5 DEF Detect
<1> QED BY <1>2, <1>3, <1>4, <1>5 DEF Next

(* For any entities, answers and number of adjudications: a conflict leaves *)
(* the gate only by an adjudication of its own pair.                        *)
THEOREM ConflictsAlwaysKept == Spec => ConflictsAreKept
<1> DEFINE Own(p) == log' # log /\ LET e == log'[Len(log')] IN <<e.subject, e.candidate>> = p
           Step == \A p \in Unresolved \ Unresolved' : Own(p)
<1>1. IInv /\ [Next]_vars => Step
  <2> SUFFICES ASSUME IInv, [Next]_vars, NEW p \in Unresolved, p \notin Unresolved'
               PROVE  Own(p)
    OBVIOUS
  <2>1. log \in Seq(Event)
    BY DEF IInv, TypeOK, Event
  <2>2. log' # log
    BY DEF Unresolved, Wins
  <2>3. PICK e \in Event : log' = Append(log, e)
    BY <2>2, LogStep
  <2>4. /\ Len(log) \in Nat /\ DOMAIN log = 1..Len(log) /\ Len(log') = Len(log) + 1
        /\ DOMAIN log' = 1..(Len(log) + 1) /\ log'[Len(log) + 1] = e
        /\ \A j \in DOMAIN log : log'[j] = log[j]
    BY <2>1, <2>3
  <2>5. PICK i \in DOMAIN log : /\ p = Key(log[i]) /\ Wins(i)
                               /\ log[i].verdict = "contradiction" /\ ~log[i].resolved
    BY DEF Unresolved
  <2>6. Key(e) = p
    <3> SUFFICES ASSUME Key(e) # p PROVE FALSE
      OBVIOUS
    <3>1. i \in DOMAIN log' /\ log'[i] = log[i]
      BY <2>4, <2>5
    <3>2. ASSUME NEW j \in DOMAIN log', Key(log'[j]) = Key(log'[i]) PROVE j <= i
      <4>1. j # Len(log) + 1
        BY <2>4, <2>5, <3>1, <3>2
      <4>2. j \in DOMAIN log /\ log'[j] = log[j]
        BY <2>4, <4>1
      <4> QED BY <2>5, <3>1, <3>2, <4>2 DEF Wins
    <3>3. Wins(i)'
      BY <3>2 DEF Wins, Key
    <3>4. Key(log'[i]) \in Unresolved'
      BY <2>5, <3>1, <3>3 DEF Unresolved, Key
    <3> QED BY <2>5, <3>1, <3>4
  <2> QED BY <2>2, <2>4, <2>6 DEF Key
<1>2. Spec => [][Step]_vars
  BY <1>1, Invariant, PTL DEF Spec
<1> QED BY <1>2 DEF ConflictsAreKept

=============================================================================
