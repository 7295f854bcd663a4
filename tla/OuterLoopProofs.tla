--------------------------- MODULE OuterLoopProofs ---------------------------
(***************************************************************************)
(* Proofs about OuterLoop, for every set of entities, agents, answers and  *)
(* bounds: the markers of the transactions, the gates and the moves of the *)
(* workflow state. LoopInv is the inductive invariant.                     *)
(***************************************************************************)
EXTENDS OuterLoop, TLAPS

(* The fold of any log gives every entity a value.                          *)
LEMMA FoldType == \A l : Materialize(l) \in [Items -> Values]
BY DEF Materialize, Values

(* The values before a session, and before a turn, have their types.        *)
LEMMA NothingType == NoFiles \in [Items -> Values] /\ NoTurn \in Turn /\ NoSession \in Session
<1>1. NoFiles \in [Items -> Values]
  BY DEF NoFiles, Values
<1>2. 0 \in 0..RetryBudget
  BY LoopAssumption
<1> QED BY <1>1, <1>2 DEF NoTurn, Turn, NoSession, Session

(* Notes and entity writes are events, and an append of one keeps the log   *)
(* a sequence of events with one more at its end.                           *)
LEMMA NoteType ==
  ASSUME NEW type \in Markers \cup {"cost", "anomaly"}, NEW t \in Nat
  PROVE  Note(type, t) \in Event
BY DEF Note, Event, Values

(* What a tool writes is an event.                                          *)
LEMMA WriteType ==
  ASSUME NEW w \in ToolWrites
  PROVE  EntityWrite(w[1], w[2]) \in Event
<1>1. w[1] \in Items /\ w[2] \in {"open", "settled"}
  BY LoopAssumption DEF Items
<1> QED BY <1>1 DEF EntityWrite, Event, Values

(* Append, with the domains spelled out.                                    *)
LEMMA Appended ==
  ASSUME log \in Seq(Event), NEW e \in Event, log' = Append(log, e)
  PROVE  /\ log' \in Seq(Event)
         /\ Len(log) \in Nat /\ Len(log') = Len(log) + 1
         /\ DOMAIN log = 1..Len(log) /\ DOMAIN log' = 1..(Len(log) + 1)
         /\ \A k \in DOMAIN log : log'[k] = log[k]
         /\ log'[Len(log) + 1] = e
BY DEF Event

(* A step keeps the types of run_turn's locals: an attempt is added only    *)
(* below the budget.                                                        *)
LEMMA StepTurnType == TypeOK /\ [Next]_vars => TurnType'
<1> SUFFICES ASSUME TypeOK, [Next]_vars PROVE TurnType'
  OBVIOUS
<1>0. TurnType
  BY DEF TypeOK
<1>1. CASE StartRun \/ StartChat \/ StartChange
  BY <1>0, <1>1, NothingType DEF StartRun, StartChat, StartChange, Start, Stop, Goto, disk, seen, TurnType
<1>2. CASE Complete \/ RouteBack \/ Unwired
  BY <1>0, <1>2, NothingType DEF Complete, RouteBack, Unwired, TurnEnds, Turn, Outcomes, States, DiskType, TypeOK, Start, Stop, Goto, disk, seen, TurnType
<1>3. CASE SelectAgent
  <2>1. wf \in States /\ 1 \in 0..RetryBudget
    BY LoopAssumption DEF TypeOK, DiskType
  <2>2. turn' = [NoTurn EXCEPT !.st = wf, !.attempts = 1]
    BY <1>3 DEF SelectAgent
  <2> QED BY <2>1, <2>2, NothingType DEF TurnType, Turn
<1>4. CASE AllocateTxn
  <2>1. txnCtr + 1 \in Nat /\ Materialize(log) \in [Items -> Values]
    BY FoldType DEF TypeOK, DiskType
  <2>2. turn' = [turn EXCEPT !.txn = txnCtr + 1, !.before = Materialize(log)]
    BY <1>4 DEF AllocateTxn
  <2> QED BY <1>0, <2>1, <2>2 DEF TurnType, Turn
<1>5. CASE AgentReturns
  BY <1>0, <1>5, LoopAssumption DEF AgentReturns, Turn, TypeOK, Start, Stop, Goto, disk, seen, TurnType
<1>6. CASE Retry
  <2>1. turn.attempts + 1 \in 0..RetryBudget
    BY <1>0, <1>6, LoopAssumption DEF Retry, Retriable, TurnType, Turn
  <2>2. turn' = [turn EXCEPT !.attempts = turn.attempts + 1, !.result = None]
    BY <1>6 DEF Retry
  <2> QED BY <1>0, <2>1, <2>2 DEF TurnType, Turn
<1>7. CASE AbortTurn \/ Progress
  BY <1>0, <1>7 DEF AbortTurn, Progress, Decided, Turn, Outcomes, TypeOK, Start, Stop, Goto, disk, seen, TurnType
<1>8. CASE MoveState
  BY <1>0, <1>8 DEF MoveState, Turn, Outcomes, TypeOK, Start, Stop, Goto, disk, seen, TurnType
<1>9. CASE BeginTxn \/ ToolWrite \/ WipeFiles \/ FillFiles \/ MissingTarget \/ IllegalTarget \/
            CommitTxn \/ CommitTurn \/ WriteTurnCost \/ StopSession \/ NextTurn \/ CapReached \/
            ChangeFails \/ RequestChange \/ Rewind \/ Interrupt
  BY <1>0, <1>9 DEF BeginTxn, ToolWrite, WipeFiles, FillFiles, MissingTarget, IllegalTarget, CommitTxn, CommitTurn, WriteTurnCost, StopSession, NextTurn, CapReached, ChangeFails, RequestChange, Rewind, Interrupt, Start, Stop, Goto, disk, seen, TurnType
<1>10. CASE UNCHANGED vars
  BY <1>0, <1>10 DEF vars, Start, Stop, Goto, disk, seen, TurnType
<1> QED BY <1>0, <1>1, <1>2, <1>3, <1>4, <1>5, <1>6, <1>7, <1>8, <1>9, <1>10 DEF Next, Step

(* What a step does to the log: nothing, a line outside every transaction,  *)
(* the beginning of the transaction just allocated, or the end of the one   *)
(* held.                                                                    *)
Plain == \E e \in Event :
  log' = Append(log, e) /\ e.txn = 0 /\ e.type \notin Markers
Ends == \E type \in Closing :
  /\ pc \in {"result", "commit"} /\ pc' \notin InTurn /\ back' # "agent"
  /\ log' = Append(log, Note(type, turn.txn))
  /\ turn'.txn = turn.txn /\ txnCtr' = txnCtr /\ cut' = cut

(* Every step does one of these to the log.                                 *)
LEMMA LogStep ==
  TypeOK /\ PlaceInv /\ [Next]_vars => log' = log \/ Plain \/ BeginTxn \/ Ends
<1> SUFFICES ASSUME TypeOK, PlaceInv, [Next]_vars PROVE log' = log \/ Plain \/ BeginTxn \/ Ends
  OBVIOUS
<1>0. turn \in Turn /\ None # "agent" /\ (pc \in {"result", "commit"} => back = None)
  BY LoopAssumption DEF TypeOK, TurnType, PlaceInv, Callers
<1>1. CASE ToolWrite
  <2>1. PICK w \in ToolWrites : log' = Append(log, EntityWrite(w[1], w[2]))
    BY <1>1 DEF ToolWrite
  <2> QED BY <2>1, WriteType DEF Plain, EntityWrite, Markers
<1>2. CASE WriteTurnCost \/ CapReached
  <2>1. Note("cost", 0) \in Event /\ Note("anomaly", 0) \in Event
    BY NoteType DEF Markers
  <2> QED BY <1>2, <2>1 DEF WriteTurnCost, CapReached, Plain, Note, Markers
<1>3. CASE Retry \/ AbortTurn \/ MissingTarget \/ CommitTxn
  BY <1>0, <1>3 DEF Retry, AbortTurn, MissingTarget, CommitTxn, Aborted,
     Decided, Ends, Closing, Stop, Goto, InTurn, seen, Turn
<1>4. CASE BeginTxn
  BY <1>4
<1>5. CASE StartRun \/ StartChat \/ StartChange \/ Complete \/ RouteBack \/ Unwired \/ SelectAgent
  BY <1>5 DEF StartRun, StartChat, StartChange, Start, Complete, RouteBack, Unwired,
     SelectAgent, disk
<1>6. CASE AllocateTxn \/ WipeFiles \/ FillFiles \/ AgentReturns \/ IllegalTarget \/ MoveState \/ Progress
  BY <1>6 DEF AllocateTxn, WipeFiles, FillFiles, AgentReturns, IllegalTarget, MoveState, Progress, disk
<1>7. CASE CommitTurn \/ StopSession \/ NextTurn \/ ChangeFails \/ RequestChange \/ Rewind \/ Interrupt
  BY <1>7 DEF CommitTurn, StopSession, NextTurn, ChangeFails, RequestChange, Rewind, Interrupt, disk
<1>8. CASE UNCHANGED vars
  BY <1>8 DEF vars
<1> QED BY <1>1, <1>2, <1>3, <1>4, <1>5, <1>6, <1>7, <1>8 DEF Next, Step

(* The log stays a sequence of events.                                      *)
LEMMA StepLogType == TypeOK /\ PlaceInv /\ [Next]_vars => log' \in Seq(Event)
<1> SUFFICES ASSUME TypeOK, PlaceInv, [Next]_vars PROVE log' \in Seq(Event)
  OBVIOUS
<1>0. log \in Seq(Event) /\ turn.txn \in Nat
  BY DEF TypeOK, DiskType, TurnType, Turn
<1>1. CASE log' = log
  BY <1>0, <1>1
<1>2. CASE Plain
  BY <1>0, <1>2 DEF Plain
<1>3. CASE BeginTxn
  BY <1>0, <1>3, NoteType DEF BeginTxn, Markers
<1>4. CASE Ends
  BY <1>0, <1>4, NoteType DEF Ends, Closing, Markers
<1> QED BY <1>1, <1>2, <1>3, <1>4, LogStep

(* The counter, the workflow state, the entity files and the git commit keep *)
(* their types.                                                              *)
LEMMA StepDiskType == TypeOK /\ [Next]_vars => (txnCtr' \in Nat /\ wf' \in States /\ files' \in [Items -> Values] /\ head' \in GitHead)
<1> SUFFICES ASSUME TypeOK, [Next]_vars PROVE (txnCtr' \in Nat /\ wf' \in States /\ files' \in [Items -> Values] /\ head' \in GitHead)
  OBVIOUS
<1>0. txnCtr \in Nat /\ wf \in States /\ files \in [Items -> Values] /\ head \in GitHead
  BY DEF TypeOK, DiskType
<1>a. turn \in Turn /\ Len(log) \in Nat /\ DOMAIN log \subseteq Nat
  BY DEF TypeOK, DiskType, TurnType
<1>1. CASE AllocateTxn
  BY <1>0, <1>1 DEF
     AllocateTxn, disk
<1>2. CASE WipeFiles \/ FillFiles
  BY <1>0, <1>2, NothingType, FoldType DEF
     WipeFiles, FillFiles, disk
<1>3. CASE RouteBack \/ RequestChange \/ Rewind
  BY <1>0, <1>3 DEF
     RouteBack, RequestChange, Rewind, States, disk
<1>4. CASE MoveState
  BY <1>0, <1>4, <1>a DEF
     MoveState, Turn, disk
<1>5. CASE CommitTurn
  BY <1>0, <1>5, <1>a DEF
     CommitTurn, GitHead, EventsForTxn, disk
<1>6. CASE StartRun \/ StartChat \/ StartChange \/ Complete \/ Unwired \/
            SelectAgent \/ BeginTxn \/ ToolWrite \/ AgentReturns \/ Retry \/
            AbortTurn \/ MissingTarget \/ IllegalTarget \/ Progress \/
            CommitTxn \/ WriteTurnCost \/ StopSession \/ NextTurn \/
            CapReached \/ ChangeFails \/ Interrupt
  BY <1>0, <1>6 DEF
     StartRun, StartChat, StartChange, Complete, Unwired, SelectAgent,
     BeginTxn, ToolWrite, AgentReturns, Retry, AbortTurn, MissingTarget,
     IllegalTarget, Progress, CommitTxn, WriteTurnCost, StopSession, NextTurn,
     CapReached, ChangeFails, Interrupt, Start, disk
<1>7. CASE UNCHANGED vars
  BY <1>0, <1>7 DEF vars, disk
<1> QED BY <1>1, <1>2, <1>3, <1>4, <1>5, <1>6, <1>7 DEF Next, Step

(* run_session never counts past its cap.                                   *)
LEMMA StepSessionType == TypeOK /\ [Next]_vars => SessionType'
<1> SUFFICES ASSUME TypeOK, [Next]_vars PROVE SessionType'
  OBVIOUS
<1>0. SessionType /\ IterationCap \in Nat \ {0} /\ None \notin Kinds
  BY LoopAssumption DEF TypeOK
<1>a. 1 \in 1..IterationCap /\ 1 \in Nat
  BY <1>0
<1>1. CASE StartRun \/ StartChat \/ StartChange
  <2>1. PICK kind \in Kinds, approved \in BOOLEAN :
          sess' = [kind |-> kind, approved |-> approved, iter |-> 1]
    BY <1>1 DEF StartRun, StartChat, StartChange, Start, Kinds
  <2> QED BY <2>1, <1>a DEF SessionType, Session
<1>2. CASE NextTurn
  BY <1>0, <1>2 DEF
     NextTurn, Bounded, Session, SessionType
<1>3. CASE Unwired \/ MissingTarget \/ IllegalTarget \/ StopSession \/
            CapReached \/ ChangeFails \/ Rewind \/ Interrupt
  BY <1>0, <1>3, NothingType DEF
     Unwired, MissingTarget, IllegalTarget, StopSession, CapReached,
     ChangeFails, Rewind, Interrupt, Stop, NoSession, Session, Kinds,
     SessionType
<1>4. CASE Complete \/ RouteBack \/ SelectAgent \/ AllocateTxn \/ BeginTxn \/
            ToolWrite \/ WipeFiles \/ FillFiles \/ AgentReturns \/ Retry \/
            AbortTurn \/ MoveState \/ Progress \/ CommitTxn \/ CommitTurn \/
            WriteTurnCost \/ RequestChange
  BY <1>0, <1>4 DEF
     Complete, RouteBack, SelectAgent, AllocateTxn, BeginTxn, ToolWrite,
     WipeFiles, FillFiles, AgentReturns, Retry, AbortTurn, MoveState, Progress,
     CommitTxn, CommitTurn, WriteTurnCost, RequestChange, SessionType
<1>5. CASE UNCHANGED vars
  BY <1>0, <1>5 DEF vars, SessionType
<1> QED BY <1>1, <1>2, <1>3, <1>4, <1>5 DEF Next, Step

(* The process is always at a known place.                                  *)
LEMMA StepControlType == TypeOK /\ PlaceInv /\ [Next]_vars => ControlType'
<1> SUFFICES ASSUME TypeOK /\ PlaceInv, [Next]_vars PROVE ControlType'
  OBVIOUS
<1>0. ControlType /\ PlaceInv /\ turn.txn \in Nat
  BY DEF TypeOK, TurnType, Turn
<1>1. CASE ToolWrite \/ CommitTxn
  BY <1>0, <1>1 DEF
     ToolWrite, CommitTxn, Callers, Places, Goto, seen, ControlType
<1>2. CASE FillFiles
  BY <1>0, <1>2 DEF
     FillFiles, Callers, Places, Goto, PlaceInv, seen, ControlType
<1>3. CASE IllegalTarget \/ Interrupt
  <2>1. cut' = cut \/ cut' = cut \cup {turn.txn}
    BY <1>3 DEF IllegalTarget, Interrupt
  <2>2. cut' \subseteq Nat
    BY <1>0, <2>1 DEF ControlType
  <2>3. pc' = "idle" /\ (back' = back \/ back' = None) /\ sessions' = sessions
        /\ (interrupts' = interrupts \/ interrupts' = interrupts + 1)
    BY <1>3 DEF IllegalTarget, Interrupt, Stop, Goto, disk
  <2> QED BY <1>0, <2>2, <2>3 DEF ControlType, Places
<1>4. CASE StartRun \/ StartChat \/ StartChange \/ Complete \/ RouteBack \/
            Unwired \/ SelectAgent
  BY <1>0, <1>4 DEF
     StartRun, StartChat, StartChange, Complete, RouteBack, Unwired,
     SelectAgent, Start, TurnEnds, Places, Stop, Goto, disk, seen, ControlType
<1>5. CASE Retry \/ AbortTurn \/ MissingTarget \/ StopSession \/ CapReached \/
            ChangeFails \/ Rewind
  BY <1>0, <1>5 DEF
     Retry, AbortTurn, MissingTarget, StopSession, CapReached, ChangeFails,
     Rewind, Places, Stop, Goto, disk, seen, ControlType
<1>6. CASE AllocateTxn \/ BeginTxn \/ WipeFiles \/ AgentReturns \/ MoveState \/
            Progress \/ CommitTurn \/ WriteTurnCost \/ NextTurn \/
            RequestChange
  BY <1>0, <1>6 DEF
     AllocateTxn, BeginTxn, WipeFiles, AgentReturns, MoveState, Progress,
     CommitTurn, WriteTurnCost, NextTurn, RequestChange, Places, Goto, disk, seen, ControlType
<1>7. CASE UNCHANGED vars
  BY <1>0, <1>7 DEF vars, ControlType
<1> QED BY <1>1, <1>2, <1>3, <1>4, <1>5, <1>6, <1>7 DEF Next, Step

(* Types are kept by every step.                                            *)
LEMMA StepTypeOK == TypeOK /\ PlaceInv /\ [Next]_vars => TypeOK'
BY StepLogType, StepDiskType, StepSessionType, StepTurnType, StepControlType
   DEF TypeOK, DiskType, SessionType, TurnType, ControlType

(* What a step does to the transaction a turn holds: none is held before or *)
(* after; the same one is held; a new one is allocated; it begins; it ends; *)
(* or the turn is cut.                                                      *)
Quiet == (log' = log \/ Plain) /\ txnCtr' = txnCtr
KeepOut == ~Holding /\ ~Holding' /\ cut' = cut /\ Quiet
KeepIn ==
  /\ Holding /\ Holding' /\ (pc = "begin" <=> pc' = "begin")
  /\ turn'.txn = turn.txn /\ cut' = cut /\ Quiet
CutOff == Holding /\ ~Holding' /\ cut' = cut \cup {turn.txn} /\ Quiet

(* Every step does one of these to the transaction held.                    *)
LEMMA HoldStep == TypeOK /\ PlaceInv /\ [Next]_vars =>
  KeepOut \/ KeepIn \/ AllocateTxn \/ BeginTxn \/ Ends \/ CutOff
<1> DEFINE Goal == KeepOut \/ KeepIn \/ AllocateTxn \/ BeginTxn \/ Ends \/ CutOff
<1> SUFFICES ASSUME TypeOK, PlaceInv, [Next]_vars PROVE Goal
  OBVIOUS
<1>0. /\ pc \notin {"wipe", "fill"} => back = None
      /\ back \in Callers \cup {None} /\ None \notin Callers /\ turn \in Turn
      /\ pc \in {"wipe", "fill"} => back \in Callers
  BY LoopAssumption DEF PlaceInv, TypeOK, ControlType, TurnType
<1>1. log' = log \/ Plain \/ BeginTxn \/ Ends
  BY LogStep
<1>2. CASE BeginTxn \/ Ends \/ AllocateTxn
  BY <1>2
<1>3. CASE StartRun \/ StartChat \/ StartChange \/ Complete \/ RouteBack \/ Unwired \/ SelectAgent
  <2>1. /\ pc \in {"idle", "load"} /\ pc' \in {"idle", "load", "change", "stepped", "alloc"}
        /\ log' = log /\ txnCtr' = txnCtr /\ cut' = cut
    BY <1>3 DEF StartRun, StartChat, StartChange, Start, Complete, RouteBack, Unwired,
       SelectAgent, TurnEnds, Stop, Goto, disk, seen
  <2> QED BY <2>1 DEF KeepOut, Quiet, Holding, InTurn
<1>4. CASE ToolWrite
  <2>1. /\ pc \in {"agent", "change", "stepped"} /\ back' = pc /\ pc' = "wipe"
        /\ txnCtr' = txnCtr /\ cut' = cut /\ turn' = turn
    BY <1>4 DEF ToolWrite, Goto, seen
  <2>2. ~Ends /\ ~BeginTxn
    BY <2>1 DEF Ends, BeginTxn
  <2> QED BY <1>1, <2>1, <2>2 DEF KeepIn, KeepOut, Quiet, Holding, InTurn
<1>5. CASE WipeFiles \/ FillFiles
  <2>1. /\ pc \in {"wipe", "fill"} /\ (pc' = back \/ (pc' = "fill" /\ back' = back))
        /\ log' = log /\ txnCtr' = txnCtr /\ cut' = cut /\ turn' = turn
    BY <1>5 DEF WipeFiles, FillFiles, Goto, seen
  <2> QED BY <1>0, <2>1 DEF KeepIn, KeepOut, Quiet, Holding, InTurn, Callers
<1>6. CASE AgentReturns \/ MoveState \/ Progress
  <2>1. /\ pc \in {"agent", "result"} /\ pc' \in {"result", "commit"}
        /\ log' = log /\ txnCtr' = txnCtr /\ cut' = cut /\ turn'.txn = turn.txn
    BY <1>0, <1>6 DEF AgentReturns, MoveState, Progress, Decided, Goto, disk, seen, Turn
  <2> QED BY <2>1 DEF KeepIn, Quiet, Holding, InTurn
<1>7. CASE IllegalTarget \/ Interrupt
  <2>1. pc' = "idle" /\ log' = log /\ txnCtr' = txnCtr
    BY <1>7 DEF IllegalTarget, Interrupt, Stop, Goto, disk
  <2>2. cut' = IF Holding THEN cut \cup {turn.txn} ELSE cut
    BY <1>7 DEF IllegalTarget, Interrupt, Holding, InTurn
  <2> QED BY <2>1, <2>2 DEF CutOff, KeepOut, Quiet, Holding, InTurn
<1>8. CASE \/ CommitTurn \/ WriteTurnCost \/ StopSession \/ NextTurn \/ CapReached
           \/ ChangeFails \/ RequestChange \/ Rewind
  <2>1. /\ pc \in {"git", "cost", "stepped", "change", "rewind"}
        /\ pc' \in {"cost", "stepped", "idle", "load", "rewind"}
        /\ txnCtr' = txnCtr /\ cut' = cut
    BY <1>8 DEF CommitTurn, WriteTurnCost, StopSession, NextTurn, CapReached, ChangeFails,
       RequestChange, Rewind, Stop, Goto, disk, seen
  <2>2. ~Ends /\ ~BeginTxn
    BY <2>1 DEF Ends, BeginTxn
  <2> QED BY <1>1, <2>1, <2>2 DEF KeepOut, Quiet, Holding, InTurn
<1>9. CASE Retry \/ AbortTurn \/ MissingTarget \/ CommitTxn
  <2>2. /\ pc \in {"result", "commit"}
        /\ \E type \in Closing : log' = Append(log, Note(type, turn.txn))
    BY <1>9 DEF Retry, AbortTurn, MissingTarget, CommitTxn, Aborted, Closing
  <2>3. /\ pc' \notin InTurn /\ back' # "agent"
        /\ turn'.txn = turn.txn /\ txnCtr' = txnCtr /\ cut' = cut
    BY <1>0, <1>9 DEF Retry, AbortTurn, MissingTarget, CommitTxn, Decided, Stop, Goto,
       InTurn, Turn, seen, Callers
  <2> QED BY <2>2, <2>3 DEF Ends
<1>10. CASE UNCHANGED vars
  BY <1>10 DEF vars, KeepIn, KeepOut, Quiet, Holding
<1> QED BY <1>2, <1>3, <1>4, <1>5, <1>6, <1>7, <1>8, <1>9, <1>10 DEF Next, Step

(* The log after a step that appends: line n is new, the others are as they *)
(* were.                                                                    *)
GrownTo(n) ==
  /\ n > 0 /\ DOMAIN log = 1..(n - 1) /\ DOMAIN log' = DOMAIN log \cup {n}
  /\ n \notin DOMAIN log /\ \A k \in DOMAIN log : k < n /\ log'[k] = log[k]

(* An event outside every transaction adds one line without an id.          *)
LEMMA PlainLog ==
  ASSUME TypeOK, Plain
  PROVE  \E n \in Nat : GrownTo(n) /\ log'[n].txn = 0 /\ log'[n].type \notin Markers
<1>1. PICK e \in Event : log' = Append(log, e) /\ e.txn = 0 /\ e.type \notin Markers
  BY DEF Plain
<1>2. log \in Seq(Event)
  BY DEF TypeOK, DiskType
<1> WITNESS Len(log) + 1 \in Nat
<1> QED BY <1>1, <1>2, Appended DEF GrownTo

(* A marker of the held transaction adds one line with its id.              *)
LEMMA MarkLog ==
  ASSUME TypeOK, NEW type \in Markers, log' = Append(log, Note(type, turn.txn))
  PROVE  \E n \in Nat : GrownTo(n) /\ log'[n].txn = turn.txn /\ log'[n].type = type
<1>1. log \in Seq(Event) /\ turn.txn \in Nat
  BY DEF TypeOK, DiskType, TurnType, Turn
<1>2. Note(type, turn.txn) \in Event
  BY <1>1, NoteType
<1> WITNESS Len(log) + 1 \in Nat
<1> QED BY <1>1, <1>2, Appended DEF Note, GrownTo

(* Only markers carry an id, and none is above the counter.                 *)
LEMMA StepMarkerInv ==
  TypeOK /\ PlaceInv /\ MarkerInv /\ HoldInv /\ [Next]_vars => MarkerInv'
<1> SUFFICES ASSUME TypeOK, PlaceInv, MarkerInv, HoldInv, [Next]_vars PROVE MarkerInv'
  OBVIOUS
<1>0. txnCtr \in Nat /\ turn.txn \in Nat
  BY DEF TypeOK, DiskType, TurnType, Turn
<1>1. CASE Quiet /\ log' = log
  BY <1>1 DEF Quiet, MarkerInv
<1>2. CASE Quiet /\ Plain
  <2>1. PICK n \in Nat : GrownTo(n) /\ log'[n].txn = 0 /\ log'[n].type \notin Markers
    BY <1>2, PlainLog
  <2> QED BY <1>0, <1>2, <2>1 DEF Quiet, MarkerInv, GrownTo
<1>3. CASE AllocateTxn
  <2>0. \A k \in DOMAIN log : log[k] \in Event
    BY DEF TypeOK, DiskType
  <2>1. log' = log /\ txnCtr' = txnCtr + 1 /\ \A k \in DOMAIN log : log[k].txn \in Nat
    BY <1>3, <2>0 DEF AllocateTxn, Event
  <2> QED BY <1>0, <2>1 DEF MarkerInv
<1>4. CASE BeginTxn \/ Ends
  <2>1. turn.txn \in 1..txnCtr /\ txnCtr' = txnCtr
    BY <1>4 DEF BeginTxn, Ends, HoldInv, Holding, InTurn
  <2>2. PICK type \in Markers : log' = Append(log, Note(type, turn.txn))
    BY <1>4 DEF BeginTxn, Ends, Closing, Markers
  <2>3. PICK n \in Nat : GrownTo(n) /\ log'[n].txn = turn.txn /\ log'[n].type = type
    BY <2>2, MarkLog
  <2> QED BY <1>0, <2>1, <2>3 DEF MarkerInv, GrownTo
<1> QED BY <1>1, <1>2, <1>3, <1>4, HoldStep DEF KeepOut, KeepIn, CutOff, Quiet

(* The transaction a turn holds has begun once and has not ended.           *)
LEMMA StepHoldInv ==
  TypeOK /\ PlaceInv /\ MarkerInv /\ HoldInv /\ [Next]_vars => HoldInv'
<1> SUFFICES ASSUME TypeOK, PlaceInv, MarkerInv, HoldInv, [Next]_vars, Holding' PROVE HoldInv'
  BY DEF HoldInv
<1>0. txnCtr \in Nat /\ turn \in Turn
  BY DEF TypeOK, DiskType, TurnType
<1>1. CASE KeepIn /\ log' = log
  BY <1>1 DEF KeepIn, Quiet, HoldInv
<1>2. CASE KeepIn /\ Plain
  <2>1. PICK n \in Nat : GrownTo(n) /\ log'[n].txn = 0 /\ log'[n].type \notin Markers
    BY <1>2, PlainLog
  <2>2. /\ Holding /\ turn'.txn = turn.txn /\ txnCtr' = txnCtr
        /\ pc = "begin" <=> pc' = "begin"
    BY <1>2 DEF KeepIn, Quiet
  <2> QED BY <1>0, <2>1, <2>2 DEF HoldInv, GrownTo
<1>3. CASE AllocateTxn
  <2>1. log' = log /\ txnCtr' = txnCtr + 1 /\ turn'.txn = txnCtr + 1 /\ pc' = "begin"
    BY <1>0, <1>3 DEF AllocateTxn, Goto, Turn
  <2> QED BY <1>0, <2>1 DEF MarkerInv, HoldInv
<1>4. CASE BeginTxn
  <2>1. /\ pc = "begin" /\ pc' = "agent" /\ turn' = turn /\ txnCtr' = txnCtr
        /\ log' = Append(log, Note("begin", turn.txn))
    BY <1>4 DEF BeginTxn, Goto
  <2>2. Holding
    BY <2>1 DEF Holding, InTurn
  <2>3. PICK n \in Nat : GrownTo(n) /\ log'[n].txn = turn.txn /\ log'[n].type = "begin"
    BY <2>1, MarkLog DEF Markers
  <2> QED BY <2>1, <2>2, <2>3 DEF HoldInv, GrownTo
<1>5. ~Ends /\ ~KeepOut /\ ~CutOff
  BY DEF Ends, KeepOut, CutOff, Holding
<1> QED BY <1>1, <1>2, <1>3, <1>4, <1>5, HoldStep DEF KeepIn, Quiet

(* The brackets: an end follows its begin, nothing follows an end, and what *)
(* is left open belonged to a turn that was cut.                            *)
LEMMA StepBracketed ==
  TypeOK /\ PlaceInv /\ MarkerInv /\ HoldInv /\ TransactionsBracketed /\ [Next]_vars
    => TransactionsBracketed'
<1> SUFFICES ASSUME TypeOK, PlaceInv, MarkerInv, HoldInv, TransactionsBracketed, [Next]_vars
             PROVE TransactionsBracketed'
  OBVIOUS
<1>0. /\ txnCtr \in Nat /\ turn \in Turn /\ DOMAIN log \subseteq Nat
      /\ BeginsFirst /\ ClosedOnce /\ OpenOnlyIfCut
  BY DEF TypeOK, DiskType, TurnType, TransactionsBracketed
<1>1. (BeginsFirst /\ ClosedOnce)'
  <2>1. CASE log' = log
    BY <1>0, <2>1 DEF BeginsFirst, ClosedOnce
  <2>2. CASE Plain
    <3>1. PICK n \in Nat : GrownTo(n) /\ log'[n].txn = 0 /\ log'[n].type \notin Markers
      BY <2>2, PlainLog
    <3> QED BY <1>0, <3>1 DEF BeginsFirst, ClosedOnce, Markers, Closing, GrownTo
  <2>3. CASE BeginTxn
    <3>1. log' = Append(log, Note("begin", turn.txn))
      BY <2>3 DEF BeginTxn
    <3>2. \A k \in DOMAIN log : log[k].txn # turn.txn
      BY <2>3 DEF BeginTxn, HoldInv, Holding, InTurn
    <3>3. PICK n \in Nat : GrownTo(n) /\ log'[n].txn = turn.txn /\ log'[n].type = "begin"
      BY <3>1, MarkLog DEF Markers
    <3> QED BY <1>0, <3>2, <3>3 DEF BeginsFirst, ClosedOnce, Closing, GrownTo
  <2>4. CASE Ends
    <3>1. PICK type \in Closing : log' = Append(log, Note(type, turn.txn))
      BY <2>4 DEF Ends
    <3>2. /\ \A k \in DOMAIN log : log[k].txn = turn.txn => log[k].type = "begin"
          /\ \E k \in DOMAIN log : log[k].txn = turn.txn
      BY <2>4 DEF Ends, HoldInv, Holding, InTurn
    <3>3. PICK n \in Nat : GrownTo(n) /\ log'[n].txn = turn.txn /\ log'[n].type = type
      BY <3>1, MarkLog DEF Markers, Closing
    <3>4. BeginsFirst'
      BY <1>0, <3>2, <3>3 DEF BeginsFirst, GrownTo
    <3>5. ClosedOnce'
      BY <1>0, <3>2, <3>3 DEF ClosedOnce, Closing, GrownTo
    <3> QED BY <3>4, <3>5
  <2> QED BY <2>1, <2>2, <2>3, <2>4, HoldStep, LogStep
<1>2. OpenOnlyIfCut'
  <2>1. CASE Quiet /\ (KeepIn \/ KeepOut \/ CutOff)
    <3>1. CASE log' = log
      BY <1>0, <2>1, <3>1 DEF OpenOnlyIfCut, Closed, KeepIn, KeepOut, CutOff
    <3>2. CASE Plain
      <4>1. PICK n \in Nat : GrownTo(n) /\ log'[n].txn = 0 /\ log'[n].type \notin Markers
        BY <3>2, PlainLog
      <4>2. \A t : Closed(t) => Closed(t)'
        BY <4>1 DEF Closed, GrownTo
      <4> QED BY <1>0, <2>1, <4>1, <4>2 DEF OpenOnlyIfCut, GrownTo, KeepIn, KeepOut, CutOff, Markers
    <3> QED BY <2>1, <3>1, <3>2 DEF Quiet
  <2>2. CASE AllocateTxn
    <3>1. log' = log /\ cut' = cut /\ ~Holding
      BY <2>2 DEF AllocateTxn, seen, Holding, InTurn
    <3> QED BY <1>0, <3>1 DEF OpenOnlyIfCut, Closed
  <2>3. CASE BeginTxn
    <3>1. /\ log' = Append(log, Note("begin", turn.txn)) /\ cut' = cut
          /\ turn' = turn /\ Holding'
      BY <2>3 DEF BeginTxn, seen, Goto, Holding, InTurn
    <3>2. PICK n \in Nat : GrownTo(n) /\ log'[n].txn = turn.txn /\ log'[n].type = "begin"
      BY <3>1, MarkLog DEF Markers
    <3>3. \A t : Closed(t) => Closed(t)'
      BY <3>2 DEF Closed, GrownTo
    <3> QED BY <1>0, <3>1, <3>2, <3>3 DEF OpenOnlyIfCut, GrownTo
  <2>4. CASE Ends
    <3>1. PICK type \in Closing : log' = Append(log, Note(type, turn.txn))
      BY <2>4 DEF Ends
    <3>2. cut' = cut
      BY <2>4 DEF Ends
    <3>3. PICK n \in Nat : GrownTo(n) /\ log'[n].txn = turn.txn /\ log'[n].type = type
      BY <3>1, MarkLog DEF Markers, Closing
    <3>4. \A t : Closed(t) \/ t = turn.txn => Closed(t)'
      BY <3>3 DEF Closed, GrownTo
    <3> QED BY <1>0, <3>2, <3>3, <3>4 DEF OpenOnlyIfCut, Closing, GrownTo
  <2> QED BY <2>1, <2>2, <2>3, <2>4, HoldStep DEF KeepIn, KeepOut, CutOff
<1> QED BY <1>1, <1>2 DEF TransactionsBracketed

(* What each place of run_turn knows is kept, in particular that no one but  *)
(* the turn itself moves the workflow state.                                *)
LEMMA StepPlaceInv == TypeOK /\ PlaceInv /\ [Next]_vars => PlaceInv'
<1> SUFFICES ASSUME TypeOK /\ PlaceInv, [Next]_vars PROVE PlaceInv'
  OBVIOUS
<1>0. PlaceInv /\ turn \in Turn /\ back \in Callers \cup {None} /\ None \notin Callers
  BY LoopAssumption DEF TypeOK, TurnType, ControlType
<1>1. CASE StartRun \/ StartChat \/ StartChange
  BY <1>0, <1>1 DEF
     StartRun, StartChat, StartChange, Start, PlaceInv, Attempting, Holding, InTurn, Goto,
     disk, seen, Callers
<1>2. CASE Complete \/ RouteBack \/ Unwired
  BY <1>0, <1>2 DEF
     Complete, RouteBack, Unwired, TurnEnds, Stop, PlaceInv, Attempting, Holding, InTurn,
     Goto, disk, seen, Callers
<1>3. CASE SelectAgent
  BY <1>0, <1>3, NothingType DEF
     SelectAgent, Turn, PlaceInv, Attempting, Holding, InTurn, Goto, disk, seen, Callers
<1>4. CASE AllocateTxn
  BY <1>0, <1>4 DEF
     AllocateTxn, Turn, PlaceInv, Attempting, Holding, InTurn, Goto, disk, seen, Callers
<1>5. CASE AgentReturns
  BY <1>0, <1>5 DEF
     AgentReturns, Turn, PlaceInv, Attempting, Holding, InTurn, Goto, disk, seen, Callers
<1>6. CASE BeginTxn
  BY <1>0, <1>6 DEF
     BeginTxn, PlaceInv, Attempting, Holding, InTurn, Goto, disk, seen, Callers
<1>7. CASE ToolWrite
  BY <1>0, <1>7 DEF
     ToolWrite, PlaceInv, Attempting, Holding, InTurn, Goto, disk, seen, Callers
<1>8. CASE WipeFiles
  BY <1>0, <1>8 DEF
     WipeFiles, PlaceInv, Attempting, Holding, InTurn, Goto, disk, seen, Callers
<1>9. CASE FillFiles
  BY <1>0, <1>9 DEF
     FillFiles, PlaceInv, Attempting, Holding, InTurn, Goto, disk, seen, Callers
<1>10. CASE Retry
  BY <1>0, <1>10 DEF
     Retry, Turn, Retriable, PlaceInv, Attempting, Holding, InTurn, Goto, disk, seen,
     Callers
<1>11. CASE AbortTurn \/ Progress
  BY <1>0, <1>11 DEF
     AbortTurn, Progress, Turn, Decided, PlaceInv, Attempting, Holding, InTurn, Goto, disk,
     seen, Callers
<1>12. CASE MoveState
  BY <1>0, <1>12 DEF
     MoveState, Turn, PlaceInv, Attempting, Holding, InTurn, Goto, disk, seen, Callers
<1>13. CASE MissingTarget \/ IllegalTarget \/ StopSession \/ CapReached \/
            ChangeFails \/ Rewind
  BY <1>0, <1>13 DEF
     MissingTarget, IllegalTarget, StopSession, CapReached, ChangeFails,
     Rewind, Stop, PlaceInv, Attempting, Holding, InTurn, Goto, disk, seen, Callers
<1>14. CASE Interrupt
  BY <1>0, <1>14 DEF
     Interrupt, Stop, PlaceInv, Attempting, Holding, InTurn, Goto, disk, seen, Callers
<1>15. CASE CommitTxn
  BY <1>0, <1>15 DEF
     CommitTxn, PlaceInv, Attempting, Holding, InTurn, Goto, disk, seen, Callers
<1>16. CASE CommitTurn \/ WriteTurnCost \/ NextTurn \/ RequestChange
  BY <1>0, <1>16 DEF
     CommitTurn, WriteTurnCost, NextTurn, RequestChange, PlaceInv, Attempting, Holding,
     InTurn, Goto, disk, seen, Callers
<1>17. CASE UNCHANGED vars
  BY <1>0, <1>17 DEF vars, PlaceInv, Attempting, Holding, InTurn, Goto, disk, seen, Callers
<1> QED BY <1>1, <1>2, <1>3, <1>4, <1>5, <1>6, <1>7, <1>8, <1>9, <1>10, <1>11,
     <1>12, <1>13, <1>14, <1>15, <1>16, <1>17 DEF Next, Step

(* The moves of one step: the target was checked against the state read at   *)
(* the start of the turn, which is still the state.                         *)
LEMMA StepMoves == TypeOK /\ PlaceInv /\ [Next]_vars => Legal(wf, wf')
<1> SUFFICES ASSUME TypeOK /\ PlaceInv, [Next]_vars PROVE Legal(wf, wf')
  OBVIOUS
<1>0. PlaceInv /\ wf \in States
  BY DEF TypeOK, DiskType
<1>1. CASE RouteBack
  BY <1>0, <1>1 DEF
     RouteBack, MustRouteBack, LegalTargets, Legal, PlaceInv, disk
<1>2. CASE RequestChange
  BY <1>0, <1>2 DEF
     RequestChange, LegalTargets, States, Legal, PlaceInv, disk
<1>3. CASE Rewind
  BY <1>0, <1>3 DEF
     Rewind, LegalTargets, Legal, PlaceInv, disk
<1>4. CASE MoveState
  BY <1>0, <1>4 DEF
     MoveState, Legal, PlaceInv, Attempting, disk
<1>5. CASE StartRun \/ StartChat \/ StartChange
  BY <1>0, <1>5 DEF
     StartRun, StartChat, StartChange, Start, Legal, PlaceInv, disk
<1>6. CASE Complete \/ Unwired \/ SelectAgent \/ AllocateTxn \/ BeginTxn \/
            ToolWrite \/ WipeFiles \/ FillFiles \/ AgentReturns \/ Retry \/
            AbortTurn \/ MissingTarget \/ IllegalTarget \/ Progress \/
            CommitTxn \/ CommitTurn \/ WriteTurnCost \/ StopSession \/
            NextTurn \/ CapReached \/ ChangeFails \/ Interrupt
  BY <1>0, <1>6 DEF
     Complete, Unwired, SelectAgent, AllocateTxn, BeginTxn, ToolWrite,
     WipeFiles, FillFiles, AgentReturns, Retry, AbortTurn, MissingTarget,
     IllegalTarget, Progress, CommitTxn, CommitTurn, WriteTurnCost,
     StopSession, NextTurn, CapReached, ChangeFails, Interrupt, Legal,
     PlaceInv, disk
<1>7. CASE UNCHANGED vars
  BY <1>0, <1>7 DEF vars, Legal, PlaceInv, disk
<1> QED BY <1>1, <1>2, <1>3, <1>4, <1>5, <1>6, <1>7 DEF Next, Step

(* A part of the log stays as it is when the log grows.                     *)
LEMMA PrefixKept ==
  ASSUME log \in Seq(Event), NEW e \in Event, log' = Append(log, e),
         NEW n \in Nat, n <= Len(log)
  PROVE  SubSeq(log', 1, n) = SubSeq(log, 1, n)
BY Appended

(* A step leaves the log alone or appends one event to it.                  *)
LEMMA LogGrows ==
  TypeOK /\ PlaceInv /\ [Next]_vars =>
    log' = log \/ \E e \in Event : log' = Append(log, e)
<1> SUFFICES ASSUME TypeOK, PlaceInv, [Next]_vars
             PROVE  log' = log \/ \E e \in Event : log' = Append(log, e)
  OBVIOUS
<1>0. turn.txn \in Nat
  BY DEF TypeOK, TurnType, Turn
<1>1. CASE BeginTxn
  BY <1>0, <1>1, NoteType DEF BeginTxn, Markers
<1>2. CASE Ends
  BY <1>0, <1>2, NoteType DEF Ends, Closing, Markers
<1> QED BY <1>1, <1>2, LogStep DEF Plain

(* The last commit, and the files from a finished rebuild to the commit.    *)
LEMMA StepGitInv == TypeOK /\ PlaceInv /\ GitInv /\ [Next]_vars => GitInv'
<1> SUFFICES ASSUME TypeOK, PlaceInv, GitInv, [Next]_vars PROVE GitInv'
  OBVIOUS
<1>0. log \in Seq(Event) /\ head.len \in Nat /\ Len(log) \in Nat
  BY DEF TypeOK, DiskType, GitHead
<1>1. head.len <= Len(log') /\ head.files = Materialize(SubSeq(log', 1, head.len))
  <2>1. CASE log' = log
    BY <2>1 DEF GitInv, GitIsConsistent
  <2>2. CASE \E e \in Event : log' = Append(log, e)
    <3>1. PICK e \in Event : log' = Append(log, e)
      BY <2>2
    <3>2. SubSeq(log', 1, head.len) = SubSeq(log, 1, head.len)
      BY <1>0, <3>1, PrefixKept DEF GitInv
    <3>3. Len(log') = Len(log) + 1
      BY <1>0, <3>1
    <3>4. head.len <= Len(log')
      BY <1>0, <3>3 DEF GitInv
    <3>5. head.files = Materialize(SubSeq(log, 1, head.len))
      BY DEF GitInv, GitIsConsistent
    <3> QED BY <3>2, <3>4, <3>5, Zenon
  <2> QED BY <2>1, <2>2, LogGrows
<1>2. CASE CommitTurn
  <2>1. /\ log' = log /\ head'.len = Len(log) /\ head'.files = files
        /\ files = Materialize(log) /\ pc' = "cost"
    BY <1>2 DEF CommitTurn, GitInv, Goto
  <2>2. SubSeq(log, 1, Len(log)) = log
    BY <1>0
  <2>3. head'.files = Materialize(SubSeq(log', 1, head'.len))
    BY <2>1, <2>2, Zenon
  <2>4. head'.len <= Len(log') /\ pc' # "git"
    BY <1>0, <2>1
  <2> QED BY <2>3, <2>4 DEF GitInv, GitIsConsistent
<1>3. CASE FillFiles
  <2>1. head' = head /\ log' = log /\ files' = Materialize(log)
    BY <1>3 DEF FillFiles
  <2> QED BY <1>1, <2>1 DEF GitInv, GitIsConsistent
<1>4. ASSUME head' = head, pc' # "git" PROVE GitInv'
  BY <1>1, <1>4 DEF GitInv, GitIsConsistent
<1>5. CASE StartRun \/ StartChat \/ StartChange
  BY <1>4, <1>5 DEF StartRun, StartChat, StartChange, Start, Goto, disk
<1>6. CASE Complete \/ RouteBack \/ Unwired \/ SelectAgent \/ AllocateTxn \/ BeginTxn
  BY <1>4, <1>6 DEF Complete, RouteBack, Unwired, SelectAgent, AllocateTxn, BeginTxn,
     TurnEnds, Stop, Goto, disk
<1>7. CASE ToolWrite \/ WipeFiles \/ AgentReturns \/ Retry \/ AbortTurn \/ CommitTxn
  BY <1>4, <1>7 DEF ToolWrite, WipeFiles, AgentReturns, Retry, AbortTurn, CommitTxn,
     Goto, disk
<1>8. CASE MissingTarget \/ IllegalTarget \/ MoveState \/ Progress
  BY <1>4, <1>8 DEF MissingTarget, IllegalTarget, MoveState, Progress, Stop, Goto, disk
<1>9. CASE WriteTurnCost \/ StopSession \/ NextTurn \/ CapReached
  BY <1>4, <1>9 DEF WriteTurnCost, StopSession, NextTurn, CapReached, Stop, Goto, disk
<1>10. CASE ChangeFails \/ RequestChange \/ Rewind \/ Interrupt
  BY <1>4, <1>10 DEF ChangeFails, RequestChange, Rewind, Interrupt, Stop, Goto, disk
<1>11. CASE UNCHANGED vars
  BY <1>11 DEF vars, GitInv, GitIsConsistent
<1> QED BY <1>2, <1>3, <1>5, <1>6, <1>7, <1>8, <1>9, <1>10, <1>11 DEF Next, Step

(* A line that commits nothing, outside every transaction or of one that is *)
(* not committed, leaves the history as it is.                              *)
LEMMA LineKeepsRounds ==
  ASSUME NEW n \in Nat, GrownTo(n), log'[n].type # "commit",
         log'[n].txn = 0 \/ log'[n].txn \notin Committed(log)
  PROVE  Committed(log') = Committed(log) /\ Rounds(log') = Rounds(log)
<1>1. Committed(log') = Committed(log)
  BY DEF Committed, GrownTo
<1>2. ASSUME NEW k \in DOMAIN log
      PROVE  k \in Rounds(log') <=> k \in Rounds(log)
  <2>1. \A j \in 1..(k - 1) : j \in DOMAIN log /\ log'[j] = log[j]
    BY <1>2 DEF GrownTo
  <2> QED BY <1>1, <1>2, <2>1 DEF Rounds, GrownTo
<1>3. n \notin Rounds(log') /\ n \notin Rounds(log)
  BY <1>1 DEF Rounds, GrownTo
<1>4. Rounds(log') \subseteq DOMAIN log \cup {n} /\ Rounds(log) \subseteq DOMAIN log
  BY DEF Rounds, GrownTo
<1> QED BY <1>1, <1>2, <1>3, <1>4

(* The same for any step that writes no marker.                             *)
LEMMA QuietKeepsRounds ==
  ASSUME TypeOK, log' = log \/ Plain
  PROVE  /\ Committed(log') = Committed(log) /\ Rounds(log') = Rounds(log)
         /\ \A k \in DOMAIN log : k \in DOMAIN log' /\ log'[k] = log[k]
         /\ \A k \in Rounds(log) : k \in DOMAIN log
<1>1. CASE log' = log
  BY <1>1 DEF Rounds
<1>2. CASE Plain
  <2>1. PICK n \in Nat : GrownTo(n) /\ log'[n].txn = 0 /\ log'[n].type \notin Markers
    BY <1>2, PlainLog
  <2>2. log'[n].type # "commit"
    BY <2>1 DEF Markers
  <2> QED BY <2>1, <2>2, LineKeepsRounds DEF GrownTo, Rounds
<1> QED BY <1>1, <1>2

(* A step that leaves the turn alone and writes no marker leaves its        *)
(* outcome true.                                                            *)
LEMMA OutcomeKept ==
  ASSUME TypeOK, log' = log \/ Plain, turn' = turn, OutcomeIsTrue
  PROVE  OutcomeIsTrue'
<1>1. /\ Rounds(log') = Rounds(log)
      /\ \A k \in DOMAIN log : k \in DOMAIN log' /\ log'[k] = log[k]
      /\ \A k \in Rounds(log) : k \in DOMAIN log
  BY QuietKeepsRounds
<1>2. IsLastRound(turn.txn) => IsLastRound(turn.txn)'
  BY <1>1 DEF IsLastRound
<1>3. At("abort", turn.txn) # {} => At("abort", turn.txn)' # {}
  BY <1>1 DEF At
<1> QED BY <1>1, <1>2, <1>3 DEF OutcomeIsTrue

(* A turn that commits becomes the last round.                              *)
LEMMA CommitIsLastRound ==
  ASSUME TypeOK, HoldInv, HeldIsLast, CommitTxn
  PROVE  IsLastRound(turn.txn)'
<1>1. Holding /\ pc # "begin" /\ turn' = turn
  BY DEF CommitTxn, Holding, InTurn
<1>2. PICK b \in DOMAIN log : log[b].txn = turn.txn
  BY <1>1 DEF HoldInv
<1>3. turn.txn # 0 /\ turn.txn \in Nat
  BY <1>1 DEF HoldInv, TypeOK, TurnType, Turn
<1>4. PICK n \in Nat : GrownTo(n) /\ log'[n].txn = turn.txn /\ log'[n].type = "commit"
  BY MarkLog DEF CommitTxn, Markers
<1>5. \A j \in DOMAIN log : log[j].txn # 0 => j <= b
  BY <1>1, <1>2 DEF HeldIsLast
<1>6. turn.txn \in Committed(log')
  BY <1>4 DEF Committed, GrownTo
<1>7. b \in Rounds(log')
  <2>1. b \in DOMAIN log' /\ log'[b].txn = turn.txn
    BY <1>2, <1>4 DEF GrownTo
  <2>2. ASSUME NEW j \in 1..(b - 1) PROVE log'[j].txn # turn.txn
    <3>1. j \in DOMAIN log /\ log'[j] = log[j] /\ b \in Int /\ j < b
      BY <1>2, <1>4, <2>2 DEF GrownTo
    <3> QED BY <1>1, <1>2, <1>3, <3>1 DEF HeldIsLast
  <2> QED BY <1>3, <1>6, <2>1, <2>2 DEF Rounds
<1>8. ASSUME NEW j \in Rounds(log') PROVE j <= b
  <2>1. j # n
    BY <1>2, <1>4, <1>8 DEF Rounds, GrownTo
  <2>2. j \in DOMAIN log /\ log[j].txn # 0
    BY <1>4, <1>8, <2>1 DEF Rounds, GrownTo
  <2> QED BY <1>5, <2>2
<1>9. log'[b].txn = turn'.txn
  BY <1>1, <1>2, <1>4 DEF GrownTo
<1> QED BY <1>7, <1>8, <1>9 DEF IsLastRound

(* Nothing but the tools writes while a transaction is held.                *)
LEMMA StepHeldIsLast ==
  TypeOK /\ PlaceInv /\ MarkerInv /\ HoldInv /\ HeldIsLast /\ [Next]_vars => HeldIsLast'
<1> SUFFICES ASSUME TypeOK, PlaceInv, MarkerInv, HoldInv, HeldIsLast, [Next]_vars, Holding'
             PROVE  HeldIsLast'
  BY DEF HeldIsLast
<1>0. txnCtr \in Nat /\ turn \in Turn
  BY DEF TypeOK, DiskType, TurnType
<1>1. CASE KeepIn /\ log' = log
  BY <1>1 DEF KeepIn, HeldIsLast
<1>2. CASE KeepIn /\ Plain
  <2>1. PICK n \in Nat : GrownTo(n) /\ log'[n].txn = 0 /\ log'[n].type \notin Markers
    BY <1>2, PlainLog
  <2>2. Holding /\ turn'.txn = turn.txn /\ turn.txn # 0
    BY <1>0, <1>2 DEF KeepIn, HoldInv
  <2> QED BY <2>1, <2>2 DEF HeldIsLast, GrownTo
<1>3. CASE AllocateTxn
  <2>1. log' = log /\ turn'.txn = txnCtr + 1
    BY <1>0, <1>3 DEF AllocateTxn, Turn
  <2> QED BY <1>0, <2>1 DEF MarkerInv, HeldIsLast
<1>4. CASE BeginTxn
  <2>1. /\ log' = Append(log, Note("begin", turn.txn)) /\ turn' = turn
        /\ \A k \in DOMAIN log : log[k].txn # turn.txn
    BY <1>4 DEF BeginTxn, HoldInv, Holding, InTurn
  <2>2. PICK n \in Nat : GrownTo(n) /\ log'[n].txn = turn.txn /\ log'[n].type = "begin"
    BY <2>1, MarkLog DEF Markers
  <2> QED BY <2>1, <2>2 DEF HeldIsLast, GrownTo
<1>5. ~Ends /\ ~KeepOut /\ ~CutOff
  BY DEF Ends, KeepOut, CutOff, Holding
<1> QED BY <1>1, <1>2, <1>3, <1>4, <1>5, HoldStep DEF KeepIn, Quiet

(* Only a retry adds an attempt while the turn goes on.                     *)
LEMMA AttemptsStep ==
  TypeOK /\ PlaceInv /\ [Next]_vars => AllocateTxn \/ ~Holding' \/ turn'.attempts = turn.attempts
<1> SUFFICES ASSUME TypeOK, PlaceInv, [Next]_vars, ~AllocateTxn, Holding'
             PROVE  turn'.attempts = turn.attempts
  OBVIOUS
<1>0. turn \in Turn /\ PlaceInv' /\ None # "agent"
  BY StepPlaceInv, LoopAssumption DEF TypeOK, TurnType, Callers
<1>1. pc' \in InTurn \cup {"wipe", "fill"}
  BY DEF Holding
<1>2. ~(StartRun \/ StartChat \/ StartChange \/ Complete \/ RouteBack \/ Unwired \/ SelectAgent)
  BY <1>1 DEF StartRun, StartChat, StartChange, Start, Complete, RouteBack, Unwired,
     SelectAgent, TurnEnds, Stop, Goto, InTurn
<1>3. ~(Retry \/ AbortTurn \/ MissingTarget \/ IllegalTarget \/ StopSession \/ Interrupt)
  BY <1>1 DEF Retry, AbortTurn, MissingTarget, IllegalTarget, StopSession, Interrupt,
     Stop, Goto, InTurn
<1>4. CASE BeginTxn \/ ToolWrite \/ WipeFiles \/ FillFiles \/ AgentReturns \/ CommitTxn
  BY <1>0, <1>4 DEF BeginTxn, ToolWrite, WipeFiles, FillFiles, AgentReturns, CommitTxn, Turn
<1>5. CASE MoveState \/ Progress
  BY <1>0, <1>5 DEF MoveState, Progress, Decided, Turn
<1>6. CASE CommitTurn \/ WriteTurnCost \/ NextTurn \/ CapReached \/ ChangeFails
           \/ RequestChange \/ Rewind \/ UNCHANGED vars
  BY <1>6 DEF CommitTurn, WriteTurnCost, NextTurn, CapReached, ChangeFails,
     RequestChange, Rewind, vars
<1> QED BY <1>2, <1>3, <1>4, <1>5, <1>6 DEF Next, Step

(* The transactions of the attempts of a turn, none of them committed.      *)
LEMMA StepAttemptsFail ==
  TypeOK /\ PlaceInv /\ MarkerInv /\ HoldInv /\ AttemptsFail /\ [Next]_vars => AttemptsFail'
<1> SUFFICES ASSUME TypeOK, PlaceInv, MarkerInv, HoldInv, AttemptsFail, [Next]_vars
             PROVE  AttemptsFail'
  OBVIOUS
<1>0. txnCtr \in Nat /\ turn \in Turn /\ RetryBudget \in Nat
  BY LoopAssumption DEF TypeOK, DiskType, TurnType
<1>a. turn.attempts \in Nat /\ turn.txn \in Nat
  BY <1>0 DEF Turn
<1>1. Holding' => (AttemptsFail' <=>
        /\ turn'.txn = txnCtr'
        /\ \A t \in (turn'.txn - turn'.attempts + 1)..turn'.txn : t \notin Committed(log'))
  BY DEF AttemptsFail, Holding, InTurn
<1>2. CASE AllocateTxn
  <2>1. /\ log' = log /\ txnCtr' = txnCtr + 1 /\ turn'.txn = txnCtr + 1
        /\ turn'.attempts = turn.attempts /\ pc = "alloc" /\ pc' = "begin"
    BY <1>0, <1>2 DEF AllocateTxn, Turn, Goto
  <2>2. txnCtr + 1 \notin Committed(log)
    BY <1>0 DEF MarkerInv, Committed
  <2>3. \A t \in (txnCtr - turn.attempts + 2)..txnCtr : t \notin Committed(log)
    BY <2>1 DEF AttemptsFail
  <2>4. \A t \in (turn'.txn - turn'.attempts + 1)..turn'.txn :
          t = txnCtr + 1 \/ t \in (txnCtr - turn.attempts + 2)..txnCtr
    BY <1>0, <1>a, <2>1
  <2> QED BY <2>1, <2>2, <2>3, <2>4 DEF AttemptsFail
<1>3. CASE KeepIn
  <2>1. /\ Holding /\ Holding' /\ turn'.txn = turn.txn /\ txnCtr' = txnCtr
        /\ log' = log \/ Plain
    BY <1>3 DEF KeepIn, Quiet
  <2>2. Committed(log') = Committed(log)
    BY <2>1, QuietKeepsRounds
  <2>3. turn'.attempts = turn.attempts
    BY <2>1, AttemptsStep DEF AllocateTxn, Holding, InTurn
  <2>4. /\ turn.txn = txnCtr
        /\ \A t \in (turn.txn - turn.attempts + 1)..turn.txn : t \notin Committed(log)
    BY <2>1 DEF AttemptsFail
  <2> QED BY <1>1, <2>1, <2>2, <2>3, <2>4
<1>4. CASE BeginTxn
  <2>1. /\ Holding /\ Holding' /\ turn' = turn /\ txnCtr' = txnCtr
        /\ log' = Append(log, Note("begin", turn.txn)) /\ pc = "begin"
    BY <1>4 DEF BeginTxn, Holding, InTurn, Goto
  <2>2. PICK n \in Nat : GrownTo(n) /\ log'[n].txn = turn.txn /\ log'[n].type = "begin"
    BY <2>1, MarkLog DEF Markers
  <2>3. Committed(log') = Committed(log)
    BY <2>2 DEF Committed, GrownTo
  <2>4. /\ turn.txn = txnCtr
        /\ \A t \in (turn.txn - turn.attempts + 1)..turn.txn : t \notin Committed(log)
    BY <2>1 DEF AttemptsFail
  <2> QED BY <1>1, <2>1, <2>3, <2>4
<1>5. CASE Retry
  <2>1. /\ Holding /\ pc' = "alloc" /\ txnCtr' = txnCtr /\ turn'.attempts = turn.attempts + 1
        /\ log' = Append(log, Note("abort", turn.txn))
    BY <1>0, <1>5 DEF Retry, Aborted, Holding, InTurn, Goto, Turn
  <2>2. PICK n \in Nat : GrownTo(n) /\ log'[n].txn = turn.txn /\ log'[n].type = "abort"
    BY <2>1, MarkLog DEF Markers
  <2>3. Committed(log') = Committed(log)
    BY <2>2 DEF Committed, GrownTo
  <2>4. /\ turn.txn = txnCtr
        /\ \A t \in (turn.txn - turn.attempts + 1)..turn.txn : t \notin Committed(log)
    BY <2>1 DEF AttemptsFail
  <2>5. txnCtr' - turn'.attempts + 2 = turn.txn - turn.attempts + 1
    BY <1>0, <1>a, <2>1, <2>4
  <2>6. ~Holding'
    BY <2>1 DEF Holding, InTurn
  <2> QED BY <2>1, <2>3, <2>4, <2>5, <2>6 DEF AttemptsFail
<1>6. CASE SelectAgent
  <2>1. /\ pc' = "alloc" /\ turn'.attempts = 1 /\ txnCtr' = txnCtr
    BY <1>6, NothingType DEF SelectAgent, Goto, disk, Turn
  <2>2. ~Holding' /\ (txnCtr' - turn'.attempts + 2)..txnCtr' = {}
    BY <1>0, <2>1 DEF Holding, InTurn
  <2> QED BY <2>2 DEF AttemptsFail
<1>7. CASE pc' = "alloc" /\ ~Retry /\ ~SelectAgent
  <2>1. UNCHANGED vars
    <3>1. ~FillFiles
      BY <1>7 DEF FillFiles, Goto, PlaceInv, TypeOK, ControlType, Callers
    <3>2. ~(StartRun \/ StartChat \/ StartChange \/ Complete \/ RouteBack \/ Unwired)
      BY <1>7 DEF StartRun, StartChat, StartChange, Start, Complete, RouteBack, Unwired,
         TurnEnds, Stop, Goto
    <3>3. ~(AllocateTxn \/ BeginTxn \/ ToolWrite \/ WipeFiles \/ AgentReturns \/ AbortTurn)
      BY <1>7 DEF AllocateTxn, BeginTxn, ToolWrite, WipeFiles, AgentReturns, AbortTurn, Goto
    <3>4. ~(MissingTarget \/ IllegalTarget \/ MoveState \/ Progress \/ CommitTxn \/ CommitTurn)
      BY <1>7 DEF MissingTarget, IllegalTarget, MoveState, Progress, CommitTxn, CommitTurn,
         Stop, Goto
    <3>5. ~(WriteTurnCost \/ StopSession \/ NextTurn \/ CapReached \/ ChangeFails)
      BY <1>7 DEF WriteTurnCost, StopSession, NextTurn, CapReached, ChangeFails, Stop, Goto
    <3>6. ~(RequestChange \/ Rewind \/ Interrupt)
      BY <1>7 DEF RequestChange, Rewind, Interrupt, Stop, Goto
    <3> QED BY <1>7, <3>1, <3>2, <3>3, <3>4, <3>5, <3>6 DEF Next, Step
  <2> QED BY <2>1 DEF vars, AttemptsFail, Holding
<1>8. ASSUME ~Holding', pc' # "alloc" PROVE AttemptsFail'
  BY <1>8 DEF AttemptsFail
<1> QED BY <1>2, <1>3, <1>4, <1>5, <1>6, <1>7, <1>8, HoldStep
     DEF KeepOut, CutOff, Ends, Holding

(* A turn whose agent gave up, or was not there, leaves no round.           *)
LEMMA AbortLeavesNoRound ==
  ASSUME TypeOK, PlaceInv, HoldInv, AttemptsFail, AbortTurn
  PROVE  /\ At("abort", turn.txn)' # {}
         /\ \A k \in Rounds(log') :
              log'[k].txn \notin (turn.txn - turn.attempts + 1)..turn.txn
<1>0. turn.txn \in Nat /\ turn.attempts \in Nat
  BY DEF TypeOK, TurnType, Turn
<1>1. Holding /\ turn.attempts >= 1 /\ turn'.txn = turn.txn
  BY DEF AbortTurn, Decided, Holding, InTurn, PlaceInv, TypeOK, TurnType, Turn
<1>2. PICK n \in Nat : GrownTo(n) /\ log'[n].txn = turn.txn /\ log'[n].type = "abort"
  BY MarkLog DEF AbortTurn, Aborted, Markers
<1>3. \A t \in (turn.txn - turn.attempts + 1)..turn.txn : t \notin Committed(log)
  BY <1>1 DEF AttemptsFail
<1>4. turn.txn \notin Committed(log)
  BY <1>0, <1>1, <1>3
<1>5. Committed(log') = Committed(log)
  BY <1>2, <1>4, LineKeepsRounds
<1>6. n \in At("abort", turn.txn)'
  BY <1>1, <1>2 DEF At, GrownTo
<1>7. \A k \in Rounds(log') : log'[k].txn \in Committed(log')
  BY DEF Rounds
<1> QED BY <1>3, <1>5, <1>6, <1>7

(* What a turn that is through reports: from its last marker on.            *)
LEMMA StepThrough ==
  TypeOK /\ PlaceInv /\ HoldInv /\ ResultInv /\ [Next]_vars
    => (Through' => turn'.st = wf' /\ OutcomeIsTrue')
<1> SUFFICES ASSUME TypeOK, PlaceInv, HoldInv, ResultInv, [Next]_vars, Through'
             PROVE  turn'.st = wf' /\ OutcomeIsTrue'
  OBVIOUS
<1>0. /\ turn \in Turn /\ NoTurn \in Turn /\ PlaceInv' /\ None \notin Callers
      /\ back \in Callers \cup {None} /\ None \notin Outcomes
  BY StepPlaceInv, NothingType, LoopAssumption DEF TypeOK, TurnType, ControlType
<1>1. pc' \in {"git", "cost", "stepped"} \/ (pc' \in {"wipe", "fill"} /\ back' \in {"git", "stepped"})
  BY <1>0 DEF Through, PlaceInv, Callers
<1>2. ASSUME Through, turn' = turn, wf' = wf, log' = log \/ Plain
      PROVE  turn'.st = wf' /\ OutcomeIsTrue'
  BY <1>2, OutcomeKept DEF ResultInv
<1>3. CASE Complete \/ RouteBack
  <2>1. turn'.st = wf' /\ turn'.outcome \in {"COMPLETE", "ROUTED_BACK"}
    BY <1>0, <1>3 DEF Complete, RouteBack, TurnEnds, Turn, disk
  <2> QED BY <2>1 DEF OutcomeIsTrue, CommittedOutcomes
<1>4. CASE AbortTurn
  <2>1. /\ turn'.txn = turn.txn /\ turn'.attempts = turn.attempts /\ turn'.st = turn.st
        /\ turn'.outcome \in {"ESCALATED", "NOT_IMPLEMENTED"} /\ wf' = wf /\ turn.st = wf
    BY <1>0, <1>4 DEF AbortTurn, Decided, Turn, PlaceInv, Attempting
  <2>2. /\ At("abort", turn.txn)' # {}
        /\ \A k \in Rounds(log') : log'[k].txn \notin (turn.txn - turn.attempts + 1)..turn.txn
    BY <1>4, AbortLeavesNoRound DEF ResultInv
  <2> QED BY <2>1, <2>2 DEF OutcomeIsTrue, CommittedOutcomes
<1>5. CASE CommitTxn
  <2>1. turn' = turn /\ wf' = wf /\ turn.st = wf /\ turn.outcome \in CommittedOutcomes
    BY <1>5 DEF CommitTxn, ResultInv
  <2>2. IsLastRound(turn.txn)'
    BY <1>5, CommitIsLastRound DEF ResultInv
  <2> QED BY <2>1, <2>2 DEF OutcomeIsTrue, CommittedOutcomes
<1>6. CASE ToolWrite
  <2>1. Through /\ turn' = turn /\ wf' = wf /\ pc' = "wipe"
    BY <1>1, <1>6 DEF ToolWrite, Goto, Through
  <2>2. log' = log \/ Plain
    BY <1>6, LogStep DEF ToolWrite, BeginTxn, Ends
  <2> QED BY <1>2, <2>1, <2>2
<1>7. CASE WipeFiles \/ FillFiles
  <2>1. turn' = turn /\ wf' = wf /\ log' = log
    BY <1>7 DEF WipeFiles, FillFiles
  <2>2. Through
    BY <1>0, <1>1, <1>7 DEF WipeFiles, FillFiles, Through, Goto, Callers, PlaceInv
  <2> QED BY <1>2, <2>1, <2>2
<1>8. CASE CommitTurn
  BY <1>2, <1>8 DEF CommitTurn, Through
<1>9. CASE WriteTurnCost
  <2>1. Note("cost", 0) \in Event
    BY NoteType
  <2>2. Through /\ turn' = turn /\ wf' = wf /\ Plain
    BY <1>9, <2>1 DEF WriteTurnCost, Through, Plain, Note, Markers
  <2> QED BY <1>2, <2>2
<1>10. CASE UNCHANGED vars
  BY <1>2, <1>10 DEF vars, Through
<1>11. ~(StartRun \/ StartChat \/ StartChange \/ Unwired \/ SelectAgent \/ AllocateTxn)
  BY <1>1 DEF StartRun, StartChat, StartChange, Start, Unwired, SelectAgent, AllocateTxn,
     Stop, Goto
<1>12. ~(BeginTxn \/ AgentReturns \/ Retry \/ MissingTarget \/ IllegalTarget \/ MoveState)
  BY <1>1 DEF BeginTxn, AgentReturns, Retry, MissingTarget, IllegalTarget, MoveState,
     Stop, Goto
<1>13. ~(Progress \/ StopSession \/ NextTurn \/ CapReached)
  BY <1>1 DEF Progress, StopSession, NextTurn, CapReached, Stop, Goto
<1>14. ~(ChangeFails \/ RequestChange \/ Rewind \/ Interrupt)
  BY <1>1 DEF ChangeFails, RequestChange, Rewind, Interrupt, Stop, Goto
<1> QED BY <1>3, <1>4, <1>5, <1>6, <1>7, <1>8, <1>9, <1>10, <1>11, <1>12, <1>13, <1>14
     DEF Next, Step

(* Before the commit marker the turn has decided, and the state it reports  *)
(* is the one it has written.                                               *)
LEMMA StepDecided ==
  TypeOK /\ PlaceInv /\ ResultInv /\ [Next]_vars
    => (pc' = "commit" => turn'.st = wf' /\ turn'.outcome \in CommittedOutcomes)
<1> SUFFICES ASSUME TypeOK, PlaceInv, ResultInv, [Next]_vars, pc' = "commit"
             PROVE  turn'.st = wf' /\ turn'.outcome \in CommittedOutcomes
  OBVIOUS
<1>0. turn \in Turn
  BY DEF TypeOK, TurnType
<1>1. CASE MoveState
  BY <1>0, <1>1 DEF MoveState, Turn, CommittedOutcomes
<1>2. CASE Progress
  <2>1. turn.st = wf /\ wf' = wf
    BY <1>2 DEF Progress, PlaceInv, Attempting, disk
  <2>2. turn'.st = turn.st /\ turn'.outcome \in {"SUSPENDED", "ADVANCED"}
    BY <1>0, <1>2 DEF Progress, Decided, Turn
  <2> QED BY <2>1, <2>2 DEF CommittedOutcomes
<1>3. CASE UNCHANGED vars
  BY <1>3 DEF vars, ResultInv
<1>4. ~FillFiles
  BY DEF FillFiles, Goto, PlaceInv, TypeOK, ControlType, Callers
<1>5. ~(StartRun \/ StartChat \/ StartChange \/ Complete \/ RouteBack \/ Unwired)
  BY DEF StartRun, StartChat, StartChange, Start, Complete, RouteBack, Unwired,
     TurnEnds, Stop, Goto
<1>6. ~(SelectAgent \/ AllocateTxn \/ BeginTxn \/ ToolWrite \/ WipeFiles \/ AgentReturns)
  BY DEF SelectAgent, AllocateTxn, BeginTxn, ToolWrite, WipeFiles, AgentReturns, Goto
<1>7. ~(Retry \/ AbortTurn \/ MissingTarget \/ IllegalTarget \/ CommitTxn \/ CommitTurn)
  BY DEF Retry, AbortTurn, MissingTarget, IllegalTarget, CommitTxn, CommitTurn, Stop, Goto
<1>8. ~(WriteTurnCost \/ StopSession \/ NextTurn \/ CapReached \/ ChangeFails)
  BY DEF WriteTurnCost, StopSession, NextTurn, CapReached, ChangeFails, Stop, Goto
<1>9. ~(RequestChange \/ Rewind \/ Interrupt)
  BY DEF RequestChange, Rewind, Interrupt, Stop, Goto
<1> QED BY <1>1, <1>2, <1>3, <1>4, <1>5, <1>6, <1>7, <1>8, <1>9 DEF Next, Step

(* Only what a tool writes of an entity changes the entity's fold: every    *)
(* write is outside every transaction, and no marker is a write.            *)
LEMMA FoldKept ==
  ASSUME MarkerInv, MarkerInv', NEW n \in Nat, GrownTo(n), NEW i \in Items,
         log'[n].type # "write" \/ log'[n].item # i
  PROVE  Materialize(log')[i] = Materialize(log)[i]
<1>1. \A k \in DOMAIN log : log[k].type = "write" => log[k].txn = 0
  BY DEF MarkerInv, Markers
<1>2. \A k \in DOMAIN log' : log'[k].type = "write" => log'[k].txn = 0
  BY DEF MarkerInv, Markers
<1>3. Snapshots(log, i) = {k \in DOMAIN log : log[k].type = "write" /\ log[k].item = i}
  BY <1>1 DEF Snapshots, Effective
<1>4. Snapshots(log', i) = {k \in DOMAIN log' : log'[k].type = "write" /\ log'[k].item = i}
  BY <1>2 DEF Snapshots, Effective
<1>5. Snapshots(log', i) = Snapshots(log, i) /\ \A k \in Snapshots(log, i) : log'[k] = log[k]
  BY <1>3, <1>4 DEF GrownTo
<1>6. \A v : Latest(log', i, v) <=> Latest(log, i, v)
  BY <1>5 DEF Latest
<1> QED BY <1>6 DEF Materialize

(* What was written in the turn stays so while the log grows and the turn   *)
(* goes on.                                                                 *)
LEMMA WrittenKept ==
  ASSUME NEW i, WrittenInTurn(i), TurnTxns \subseteq TurnTxns',
         \A k \in DOMAIN log : k \in DOMAIN log' /\ log'[k] = log[k]
  PROVE  WrittenInTurn(i)'
BY DEF WrittenInTurn

(* A step of a turn that writes no entity keeps its blockers its own.       *)
LEMMA OwnKept ==
  ASSUME MarkerInv, MarkerInv', BlockersAreOwn, Attempting, wf' = wf, TurnTxns \subseteq TurnTxns',
         log' = log \/ \E n \in Nat : GrownTo(n) /\ log'[n].type # "write"
  PROVE  BlockersAreOwn'
<1> SUFFICES ASSUME wf = "DISCOVERY_VALIDATED", NEW i \in DiscoveryBlockers(Materialize(log'))
             PROVE  WrittenInTurn(i)'
  BY DEF BlockersAreOwn
<1>1. i \in Items
  BY DEF DiscoveryBlockers, Items
<1>2. \A k \in DOMAIN log : k \in DOMAIN log' /\ log'[k] = log[k]
  BY DEF GrownTo
<1>3. Materialize(log')[i] = Materialize(log)[i]
  BY <1>1, FoldKept
<1>4. i \in DiscoveryBlockers(Materialize(log))
  BY <1>3 DEF DiscoveryBlockers
<1> QED BY <1>2, <1>4, WrittenKept DEF BlockersAreOwn

(* A tool called in the turn blocks at most the entity it writes, after the *)
(* begin of the attempt that called it.                                     *)
LEMMA OwnWritten ==
  ASSUME TypeOK, PlaceInv, HoldInv, MarkerInv, MarkerInv', BlockersAreOwn, ToolWrite, pc = "agent"
  PROVE  BlockersAreOwn'
<1>0. turn.txn \in Nat /\ turn.attempts \in Nat /\ log \in Seq(Event)
  BY DEF TypeOK, TurnType, DiskType, Turn
<1>1. Holding /\ Attempting /\ wf' = wf /\ turn' = turn /\ pc' = "wipe"
  BY DEF ToolWrite, Holding, InTurn, Attempting, Goto
<1>2. turn.attempts >= 1 /\ TurnTxns' = TurnTxns /\ turn.txn \in TurnTxns
  BY <1>0, <1>1 DEF PlaceInv, TurnTxns
<1> SUFFICES ASSUME wf = "DISCOVERY_VALIDATED", NEW i \in DiscoveryBlockers(Materialize(log'))
             PROVE  WrittenInTurn(i)'
  BY <1>1 DEF BlockersAreOwn
<1>3. i \in Items
  BY DEF DiscoveryBlockers, Items
<1>4. PICK w \in ToolWrites : log' = Append(log, EntityWrite(w[1], w[2]))
  BY DEF ToolWrite
<1>5. EntityWrite(w[1], w[2]) \in Event
  BY WriteType
<1> DEFINE n == Len(log) + 1
<1>6. n \in Nat /\ GrownTo(n) /\ log'[n].type = "write" /\ log'[n].item = w[1]
  BY <1>0, <1>4, <1>5, Appended DEF GrownTo, EntityWrite
<1> HIDE DEF n
<1>7. CASE i = w[1]
  <2>1. PICK b \in DOMAIN log : log[b].txn = turn.txn
    BY <1>1 DEF HoldInv, Holding, InTurn
  <2>2. log[b].type = "begin"
    BY <1>1, <2>1 DEF HoldInv
  <2>3. b \in DOMAIN log' /\ n \in DOMAIN log' /\ b < n /\ log'[b] = log[b]
    BY <1>6 DEF GrownTo
  <2> QED BY <1>2, <1>6, <1>7, <2>1, <2>2, <2>3 DEF WrittenInTurn
<1>8. CASE i # w[1]
  <2>1. Materialize(log')[i] = Materialize(log)[i]
    BY <1>3, <1>6, <1>8, FoldKept
  <2>2. i \in DiscoveryBlockers(Materialize(log))
    BY <2>1 DEF DiscoveryBlockers
  <2>3. WrittenInTurn(i)
    BY <1>1, <2>2 DEF BlockersAreOwn
  <2>4. \A k \in DOMAIN log : k \in DOMAIN log' /\ log'[k] = log[k]
    BY <1>6 DEF GrownTo
  <2> QED BY <1>2, <2>3, <2>4, WrittenKept
<1> QED BY <1>7, <1>8

(* The discovery blockers of a planning turn are its own: from the gate at  *)
(* its first attempt, over its writes, to a retry.                          *)
LEMMA StepBlockersAreOwn ==
  TypeOK /\ PlaceInv /\ MarkerInv /\ HoldInv /\ AttemptsFail /\ BlockersAreOwn /\ [Next]_vars
    => BlockersAreOwn'
<1> SUFFICES ASSUME TypeOK, PlaceInv, MarkerInv, HoldInv, AttemptsFail, BlockersAreOwn,
                    [Next]_vars, Attempting'
             PROVE  BlockersAreOwn'
  BY DEF BlockersAreOwn
<1>0. /\ txnCtr \in Nat /\ turn \in Turn /\ NoTurn \in Turn /\ None \notin Callers
      /\ back \in Callers \cup {None} /\ turn.attempts \in Nat /\ turn.txn \in Nat
      /\ MarkerInv' /\ PlaceInv'
  BY StepMarkerInv, StepPlaceInv, NothingType, LoopAssumption
     DEF TypeOK, TurnType, DiskType, ControlType, Turn
<1>1. /\ pc' \in {"alloc", "begin", "agent", "result", "wipe", "fill"}
      /\ pc' \in {"wipe", "fill"} => back' = "agent"
  BY <1>0 DEF Attempting, PlaceInv, Callers
<1>2. CASE SelectAgent
  <2>1. wf' = wf /\ log' = log /\ ~MustRouteBack
    BY <1>2 DEF SelectAgent, Halts, disk
  <2> QED BY <2>1 DEF MustRouteBack, BlockersAreOwn
<1>3. CASE AllocateTxn
  <2>1. /\ turn'.txn = txnCtr + 1 /\ turn'.attempts = turn.attempts /\ log' = log /\ wf' = wf
        /\ pc = "alloc" /\ pc' = "begin"
    BY <1>0, <1>3 DEF AllocateTxn, Turn, Goto
  <2>2. TurnTxns \subseteq TurnTxns'
    BY <1>0, <2>1 DEF TurnTxns
  <2> QED BY <1>0, <2>1, <2>2, OwnKept DEF Attempting
<1>4. CASE BeginTxn
  <2>1. /\ log' = Append(log, Note("begin", turn.txn)) /\ wf' = wf /\ turn' = turn
        /\ pc = "begin" /\ pc' = "agent"
    BY <1>4 DEF BeginTxn, Goto
  <2>2. PICK n \in Nat : GrownTo(n) /\ log'[n].txn = turn.txn /\ log'[n].type = "begin"
    BY <2>1, MarkLog DEF Markers
  <2>3. TurnTxns' = TurnTxns
    BY <2>1 DEF TurnTxns
  <2> QED BY <1>0, <2>1, <2>2, <2>3, OwnKept DEF Attempting
<1>5. CASE ToolWrite
  <2>1. pc = "agent"
    BY <1>1, <1>5 DEF ToolWrite, Goto
  <2> QED BY <1>0, <1>5, <2>1, OwnWritten
<1>6. CASE WipeFiles \/ FillFiles
  <2>1. /\ log' = log /\ wf' = wf /\ turn' = turn /\ pc \in {"wipe", "fill"} /\ back = "agent"
        /\ pc' # "alloc"
    BY <1>0, <1>1, <1>6 DEF WipeFiles, FillFiles, Goto, PlaceInv, Callers
  <2>2. TurnTxns' = TurnTxns
    BY <2>1 DEF TurnTxns
  <2> QED BY <1>0, <2>1, <2>2, OwnKept DEF Attempting
<1>7. CASE AgentReturns
  <2>1. /\ log' = log /\ wf' = wf /\ turn'.txn = turn.txn /\ turn'.attempts = turn.attempts
        /\ pc = "agent" /\ pc' = "result"
    BY <1>0, <1>7 DEF AgentReturns, Turn, Goto, disk
  <2>2. TurnTxns' = TurnTxns
    BY <2>1 DEF TurnTxns
  <2> QED BY <1>0, <2>1, <2>2, OwnKept DEF Attempting
<1>8. CASE Retry
  <2>1. /\ log' = Append(log, Note("abort", turn.txn)) /\ wf' = wf /\ txnCtr' = txnCtr
        /\ turn'.attempts = turn.attempts + 1 /\ pc = "result" /\ pc' = "alloc"
    BY <1>0, <1>8 DEF Retry, Aborted, Turn, Goto
  <2>2. PICK n \in Nat : GrownTo(n) /\ log'[n].txn = turn.txn /\ log'[n].type = "abort"
    BY <2>1, MarkLog DEF Markers
  <2>3. turn.txn = txnCtr
    BY <2>1 DEF AttemptsFail, Holding, InTurn
  <2>4. TurnTxns \subseteq TurnTxns'
    BY <1>0, <2>1, <2>3 DEF TurnTxns
  <2> QED BY <1>0, <2>1, <2>2, <2>4, OwnKept DEF Attempting
<1>9. CASE UNCHANGED vars
  BY <1>9 DEF vars, BlockersAreOwn, Attempting, WrittenInTurn, TurnTxns
<1>10. ~(StartRun \/ StartChat \/ StartChange \/ Complete \/ RouteBack \/ Unwired)
  BY <1>1 DEF StartRun, StartChat, StartChange, Start, Complete, RouteBack, Unwired,
     TurnEnds, Stop, Goto
<1>11. ~(AbortTurn \/ MissingTarget \/ IllegalTarget \/ MoveState \/ Progress \/ CommitTurn)
  BY <1>1 DEF AbortTurn, MissingTarget, IllegalTarget, MoveState, Progress, CommitTurn,
     Stop, Goto
<1>12. ~CommitTxn
  BY <1>1 DEF CommitTxn, Goto
<1>13. ~(WriteTurnCost \/ StopSession \/ NextTurn \/ CapReached \/ ChangeFails)
  BY <1>1 DEF WriteTurnCost, StopSession, NextTurn, CapReached, ChangeFails, Stop, Goto
<1>14. ~(RequestChange \/ Rewind \/ Interrupt)
  BY <1>1 DEF RequestChange, Rewind, Interrupt, Stop, Goto
<1> QED BY <1>2, <1>3, <1>4, <1>5, <1>6, <1>7, <1>8, <1>9, <1>10, <1>11, <1>12, <1>13, <1>14
     DEF Next, Step

(* The initial states satisfy the invariant.                                *)
LEMMA LoopInvInit == Init => LoopInv
<1> SUFFICES ASSUME Init PROVE LoopInv
  OBVIOUS
<1>1. TypeOK
  BY NothingType, LoopAssumption DEF Init, TypeOK, DiskType, SessionType, TurnType,
     ControlType, GitHead, Callers, Places, NoSession, Kinds
<1>2. MarkerInv /\ TransactionsBracketed
  BY DEF Init, MarkerInv, TransactionsBracketed, BeginsFirst, ClosedOnce, OpenOnlyIfCut
<1>3. HoldInv
  BY DEF Init, HoldInv, Holding, InTurn
<1>4. PlaceInv
  BY LoopAssumption DEF Init, PlaceInv, Attempting, Holding, InTurn, Callers
<1> QED BY <1>1, <1>2, <1>3, <1>4 DEF LoopInv

(* Every step keeps it.                                                     *)
LEMMA LoopInvStep == LoopInv /\ [Next]_vars => LoopInv'
BY StepTypeOK, StepMarkerInv, StepHoldInv, StepPlaceInv, StepBracketed DEF LoopInv

(* The inductive invariant of run_turn, run_session, chat and the change    *)
(* session, interrupted anywhere.                                           *)
THEOREM LoopInvariant == Spec => []LoopInv
<1>1. Init => LoopInv
  BY LoopInvInit
<1>2. LoopInv /\ [Next]_vars => LoopInv'
  BY LoopInvStep
<1> QED BY <1>1, <1>2, PTL DEF Spec

(* Type correctness, with the retry budget and the iteration cap.           *)
THEOREM LoopTypeCorrect == Spec => []TypeOK
<1>1. LoopInv => TypeOK
  BY DEF LoopInv
<1> QED BY <1>1, LoopInvariant, PTL

(* Every transaction of the log is begun once and ended at most once, by    *)
(* commit or by abort, and only an interrupted turn leaves one open.        *)
THEOREM MarkersAreBracketed == Spec => []TransactionsBracketed
<1>1. LoopInv => TransactionsBracketed
  BY DEF LoopInv
<1> QED BY <1>1, LoopInvariant, PTL

(* The workflow state moves only along transitions.yaml, whatever agents    *)
(* answer and wherever a session is interrupted.                            *)
THEOREM WorkflowMovesAreLegal == Spec => MovesAreLegal
<1>1. LoopInv /\ [Next]_vars => [Legal(wf, wf')]_vars
  BY StepMoves DEF LoopInv
<1> QED BY <1>1, LoopInvariant, PTL DEF Spec, MovesAreLegal

(* The entity files of every commit are the fold of the log that is in the  *)
(* same commit, wherever a rebuild was killed before it.                    *)
THEOREM CommitsAreConsistent == Spec => []GitIsConsistent
<1>1. Init => GitInv
  <2> SUFFICES ASSUME Init PROVE GitInv
    OBVIOUS
  <2>1. SubSeq(<<>>, 1, 0) = <<>> /\ Len(<<>>) = 0
    OBVIOUS
  <2>2. Materialize(<<>>) = NoFiles
    BY DEF Materialize, NoFiles, Latest, Snapshots, Effective
  <2>3. head.len = 0 /\ head.files = NoFiles /\ log = <<>> /\ pc = "idle"
    BY DEF Init
  <2>4. head.files = Materialize(SubSeq(log, 1, head.len))
    BY <2>1, <2>2, <2>3, Zenon
  <2> QED BY <2>1, <2>3, <2>4 DEF GitInv, GitIsConsistent
<1>2. LoopInv /\ GitInv /\ [Next]_vars => GitInv'
  BY StepGitInv DEF LoopInv
<1>3. GitInv => GitIsConsistent
  BY DEF GitInv
<1> QED BY <1>1, <1>2, <1>3, LoopInvariant, PTL DEF Spec

(* What makes a result true is kept along with the loop's invariant.        *)
LEMMA ResultInvariant == Spec => []ResultInv
<1>1. Init => ResultInv
  BY LoopAssumption DEF Init, ResultInv, HeldIsLast, AttemptsFail, Through, Holding,
     InTurn, Callers
<1>2. LoopInv /\ ResultInv /\ [Next]_vars => ResultInv'
  BY StepHeldIsLast, StepAttemptsFail, StepDecided, StepThrough DEF LoopInv, ResultInv
<1> QED BY <1>1, <1>2, LoopInvariant, PTL DEF Spec

(* A StepResult is true of the ledger, wherever earlier turns were cut: a   *)
(* turn that advanced, moved the state or suspended is the last round of    *)
(* the history, one that escalated left no round at all.                    *)
THEOREM ResultsAreTrue == Spec => []StepResultIsTrue
<1>1. ResultInv => StepResultIsTrue
  BY DEF ResultInv, StepResultIsTrue, Through
<1> QED BY <1>1, ResultInvariant, PTL

(* In every attempt of a turn at DISCOVERY_VALIDATED, the first and the     *)
(* retried ones, whatever was killed before: a discovery blocker in the     *)
(* ledger was written in the turn itself.                                   *)
THEOREM PlanningBlockersAreOwn == Spec => []BlockersAreOwn
<1>1. Init => BlockersAreOwn
  BY LoopAssumption DEF Init, BlockersAreOwn, Attempting, Callers
<1>2. LoopInv /\ ResultInv /\ BlockersAreOwn /\ [Next]_vars => BlockersAreOwn'
  BY StepBlockersAreOwn DEF LoopInv, ResultInv
<1> QED BY <1>1, <1>2, LoopInvariant, ResultInvariant, PTL DEF Spec

=============================================================================
