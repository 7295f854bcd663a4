------------------------------ MODULE OuterLoop ------------------------------
(***************************************************************************)
(* ppa/orchestrator/loop.py with what it calls: the transaction markers    *)
(* around an agent's turn, the fold of ppa/ledger/materialize.py, the      *)
(* precondition and the readiness gate, the workflow state and its table,  *)
(* run_session and `ppa chat`, and the rewind of ppa/agents/modes/         *)
(* change.py. One process works on the project; it may be interrupted (the *)
(* process dies, or an exception ends the session) between any two writes, *)
(* and another session starts from disk.                                   *)
(*                                                                         *)
(* An append is one step here: LedgerStore shows that it is.               *)
(***************************************************************************)
EXTENDS Integers, Sequences, FiniteSets

CONSTANTS
  Critical,       \* areas the gate wants settled
  Unknowns,       \* entities the gate wants not open
  ToolWrites,     \* <<entity, value>> pairs the tools may write
  Wired,          \* workflow states with an agent: STATE_AGENT
  InitStates,     \* workflow_state in the project.json a session finds first
  Statuses,       \* AgentResultStatus values the agents return
  Targets,        \* target_state values of a WORKFLOW_TRANSITION
  None,
  RetryBudget, IterationCap,
  MaxSessions, MaxChatTurns, MaxTxns, MaxWrites, MaxInterrupts   \* bounds

States == {"DISCOVERY", "DISCOVERY_VALIDATED", "PLANNING", "PLAN_REVIEW",
           "PLAN_APPROVED", "DELIVERY", "COMPLETE", "CHANGE_REQUESTED"}

AllStatuses == {"OK", "PARTIAL", "HUMAN_INPUT_REQUIRED", "WORKFLOW_TRANSITION",
                "RECOVERABLE", "NON_RECOVERABLE", "NOT_IMPLEMENTED"}

Outcomes == {"COMPLETE", "ROUTED_BACK", "ADVANCED", "TRANSITIONED",
             "SUSPENDED", "ESCALATED", "NOT_IMPLEMENTED"}

Kinds == {"run", "chat", "change"}

(* Where rebuild_all is called from.                                        *)
Callers == {"agent", "change", "stepped", "git"}

ASSUME LoopAssumption ==
  /\ Critical \cap Unknowns = {}
  /\ None \notin Critical \cup Unknowns \cup States \cup AllStatuses
              \cup Outcomes \cup Callers \cup Kinds
  /\ ToolWrites \subseteq (Critical \cup Unknowns) \X {"open", "settled"}
  /\ Wired \subseteq States /\ InitStates \subseteq States
  /\ Statuses \subseteq AllStatuses /\ Targets \subseteq States
  /\ RetryBudget \in Nat \ {0} /\ IterationCap \in Nat \ {0}
  /\ {MaxSessions, MaxChatTurns, MaxTxns, MaxWrites, MaxInterrupts} \subseteq Nat

Items == Critical \cup Unknowns
Values == {"absent", "open", "settled"}

(* transitions.yaml. *)
LegalTargets ==
  [DISCOVERY           |-> {"DISCOVERY_VALIDATED", "CHANGE_REQUESTED"},
   DISCOVERY_VALIDATED |-> {"DISCOVERY", "PLANNING", "CHANGE_REQUESTED"},
   PLANNING            |-> {"PLAN_REVIEW", "CHANGE_REQUESTED"},
   PLAN_REVIEW         |-> {"PLAN_APPROVED", "PLANNING", "CHANGE_REQUESTED"},
   PLAN_APPROVED       |-> {"DELIVERY", "CHANGE_REQUESTED"},
   DELIVERY            |-> {"COMPLETE", "CHANGE_REQUESTED"},
   COMPLETE            |-> {"CHANGE_REQUESTED"},
   CHANGE_REQUESTED    |-> {"DISCOVERY", "PLANNING", "PLAN_REVIEW",
                            "PLAN_APPROVED", "DELIVERY"}]

Legal(frm, to) == frm = to \/ to \in LegalTargets[frm]

(* An event of the ledger. A marker carries its txn_id; the tools write     *)
(* entities with txn_id None (0 here), and so do cost and anomaly events.   *)
Markers == {"begin", "commit", "abort"}
Event == [type: Markers \cup {"write", "cost", "anomaly"}, txn: Nat,
          item: Items \cup {None}, value: Values]
Note(type, txn) == [type |-> type, txn |-> txn, item |-> None, value |-> "absent"]
EntityWrite(i, v) == [type |-> "write", txn |-> 0, item |-> i, value |-> v]

VARIABLES
  log, txnCtr, wf, files,   \* events.ndjson, TXN counter, workflow_state, entities/
  head,                     \* git: the last commit_turn
  pc, back,                 \* where the process is; where rebuild_all returns to
  sess,                     \* run_session's or chat's arguments and iteration
  turn,                     \* run_turn's locals
  stopped, sessions, interrupts, cut   \* observation

disk == <<log, txnCtr, wf, files, head>>
seen == <<stopped, sessions, interrupts, cut>>
vars == <<log, txnCtr, wf, files, head, pc, back, sess, turn,
          stopped, sessions, interrupts, cut>>

-----------------------------------------------------------------------------
(* materialize.py: events outside a transaction or in a committed one, and  *)
(* for each entity the last of them.                                        *)
Committed(l) == {l[k].txn : k \in {j \in DOMAIN l : l[j].type = "commit"}}
Effective(l) == {k \in DOMAIN l : l[k].txn = 0 \/ l[k].txn \in Committed(l)}
Snapshots(l, i) == {k \in Effective(l) : l[k].type = "write" /\ l[k].item = i}
Latest(l, i, v) ==
  \E k \in Snapshots(l, i) : l[k].value = v /\ \A j \in Snapshots(l, i) : j <= k
Materialize(l) ==
  [i \in Items |-> IF Latest(l, i, "settled") THEN "settled"
                   ELSE IF Latest(l, i, "open") THEN "open" ELSE "absent"]
NoFiles == [i \in Items |-> "absent"]

(* check_readiness: the discovery conditions, and all of them with what the *)
(* caller passes for review_approved and unresolved_conflicts.              *)
DiscoveryBlockers(ents) ==
  {i \in Critical : ents[i] # "settled"} \cup {i \in Unknowns : ents[i] = "open"}
Ready(ents) == DiscoveryBlockers(ents) = {} /\ sess.approved

NoTurn == [st |-> None, attempts |-> 0, txn |-> 0, result |-> None,
           target |-> None, outcome |-> None, before |-> NoFiles]
NoSession == [kind |-> None, approved |-> FALSE, iter |-> 0]

Init ==
  /\ log = <<>> /\ txnCtr = 0 /\ wf \in InitStates /\ files = NoFiles
  /\ head = [len |-> 0, files |-> NoFiles, told |-> {}]
  /\ pc = "idle" /\ back = None /\ sess = NoSession /\ turn = NoTurn
  /\ stopped = None /\ sessions = 0 /\ interrupts = 0 /\ cut = {}

Goto(l) == pc' = l
Stop(reason) == Goto("idle") /\ stopped' = reason /\ sess' = NoSession

-----------------------------------------------------------------------------
(* Sessions: run_session with its arguments, `ppa chat`, and                *)
(* run_change_session.                                                      *)
Start(kind, approved, l) ==
  /\ pc = "idle" /\ sessions < MaxSessions
  /\ txnCtr + IterationCap * RetryBudget <= MaxTxns
  /\ sess' = [kind |-> kind, approved |-> approved, iter |-> 1]
  /\ turn' = NoTurn /\ stopped' = None
  /\ sessions' = sessions + 1
  /\ Goto(l)
  /\ UNCHANGED <<disk, back, interrupts, cut>>

StartRun == \E approved \in BOOLEAN : Start("run", approved, "load")
StartChat == Start("chat", FALSE, "load")
StartChange == Start("change", FALSE, "change")

-----------------------------------------------------------------------------
(* run_turn, steps 1 to 5.                                                  *)
TurnEnds(outcome) ==
  /\ turn' = [NoTurn EXCEPT !.st = wf, !.outcome = outcome]
  /\ Goto("stepped")

Complete ==
  /\ pc = "load" /\ wf = "COMPLETE" /\ Ready(Materialize(log))
  /\ TurnEnds("COMPLETE")
  /\ UNCHANGED <<disk, back, sess, seen>>

(* Mutant of MustRouteBack: only the first turn of a session is gated.      *)
MustRouteBackOnce ==
  /\ wf = "DISCOVERY_VALIDATED" /\ sess.iter = 1
  /\ DiscoveryBlockers(Materialize(log)) # {}

MustRouteBack ==
  wf = "DISCOVERY_VALIDATED" /\ DiscoveryBlockers(Materialize(log)) # {}

(* _route_back_to_discovery; the git commit that follows is of project.json *)
(* alone.                                                                   *)
RouteBack ==
  /\ pc = "load" /\ MustRouteBack
  /\ wf' = "DISCOVERY"
  /\ turn' = [NoTurn EXCEPT !.st = "DISCOVERY", !.outcome = "ROUTED_BACK"]
  /\ Goto("stepped")
  /\ UNCHANGED <<log, txnCtr, files, head, back, sess, seen>>

Halts == MustRouteBack \/ (wf = "COMPLETE" /\ Ready(Materialize(log)))

(* select_agent raises UnwiredWorkflowState.                                *)
Unwired ==
  /\ pc = "load" /\ ~Halts /\ wf \notin Wired
  /\ Stop("unwired")
  /\ turn' = [NoTurn EXCEPT !.st = wf]
  /\ UNCHANGED <<disk, back, sessions, interrupts, cut>>

SelectAgent ==
  /\ pc = "load" /\ ~Halts /\ wf \in Wired
  /\ turn' = [NoTurn EXCEPT !.st = wf, !.attempts = 1]
  /\ Goto("alloc")
  /\ UNCHANGED <<disk, back, sess, seen>>

-----------------------------------------------------------------------------
(* _open_txn: allocate_id, then the txn.begin event. before is what         *)
(* recovery/transaction.py calls the checkpoint.                            *)
AllocateTxn ==
  /\ pc = "alloc" /\ txnCtr < MaxTxns
  /\ txnCtr' = txnCtr + 1
  /\ turn' = [turn EXCEPT !.txn = txnCtr + 1, !.before = Materialize(log)]
  /\ Goto("begin")
  /\ UNCHANGED <<log, wf, files, head, back, sess, seen>>

BeginTxn ==
  /\ pc = "begin"
  /\ log' = Append(log, Note("begin", turn.txn))
  /\ Goto("agent")
  /\ UNCHANGED <<txnCtr, wf, files, head, back, sess, turn, seen>>

(* A writer of the agent's tool server (_commit_write of discovery_tools,   *)
(* ask_user): one event with txn_id None, then rebuild_all. Also the        *)
(* answer of the user to a pending question, and a writer that the change   *)
(* session's agent calls.                                                   *)
Wrote == Cardinality({k \in DOMAIN log : log[k].type = "write"})

ToolWrite ==
  /\ \/ pc \in {"agent", "change"}
     \/ pc = "stepped" /\ sess.kind = "chat" /\ turn.outcome = "SUSPENDED"
  /\ Wrote < MaxWrites
  /\ \E w \in ToolWrites : log' = Append(log, EntityWrite(w[1], w[2]))
  /\ back' = pc
  /\ Goto("wipe")
  /\ UNCHANGED <<txnCtr, wf, files, head, sess, turn, seen>>

(* rebuild_all: unlink every entity file, then write the fold of the log.   *)
WipeFiles ==
  /\ pc = "wipe"
  /\ files' = NoFiles
  /\ Goto("fill")
  /\ UNCHANGED <<log, txnCtr, wf, head, back, sess, turn, seen>>

FillFiles ==
  /\ pc = "fill"
  /\ files' = Materialize(log)
  /\ Goto(back) /\ back' = None
  /\ UNCHANGED <<log, txnCtr, wf, head, sess, turn, seen>>

AgentReturns ==
  /\ pc = "agent"
  /\ \E s \in Statuses, g \in Targets \cup {None} :
       /\ s # "WORKFLOW_TRANSITION" => g = None
       /\ turn' = [turn EXCEPT !.result = s, !.target = g]
  /\ Goto("result")
  /\ UNCHANGED <<disk, back, sess, seen>>

-----------------------------------------------------------------------------
(* The retry loop and _handle_result. The AgentResult is forgotten once it  *)
(* is classified.                                                           *)
Decided(outcome) ==
  turn' = [turn EXCEPT !.outcome = outcome, !.result = None, !.target = None]

Aborted == log' = Append(log, Note("abort", turn.txn))

(* Mutant of Retriable: one attempt too many.                               *)
RetriableOverBudget ==
  turn.result = "RECOVERABLE" /\ turn.attempts <= RetryBudget

(* Mutant of Retriable: the attempts are not looked at.                     *)
RetriableForever == turn.result = "RECOVERABLE"

Retriable == turn.result = "RECOVERABLE" /\ turn.attempts < RetryBudget

(* Mutant of Retry: the next attempt opens its transaction without closing  *)
(* the last.                                                                *)
RetryUnclosed ==
  /\ pc = "result" /\ Retriable
  /\ turn' = [turn EXCEPT !.attempts = @ + 1, !.result = None]
  /\ Goto("alloc")
  /\ UNCHANGED <<disk, back, sess, seen>>

Retry ==
  /\ pc = "result" /\ Retriable
  /\ Aborted
  /\ turn' = [turn EXCEPT !.attempts = @ + 1, !.result = None]
  /\ Goto("alloc")
  /\ UNCHANGED <<txnCtr, wf, files, head, back, sess, seen>>

AbortTurn ==
  /\ pc = "result" /\ ~Retriable
  /\ turn.result \in {"RECOVERABLE", "NON_RECOVERABLE", "NOT_IMPLEMENTED"}
  /\ Aborted
  /\ Decided(IF turn.result = "NOT_IMPLEMENTED" THEN "NOT_IMPLEMENTED" ELSE "ESCALATED")
  /\ Goto("cost")
  /\ UNCHANGED <<txnCtr, wf, files, head, back, sess, seen>>

(* WORKFLOW_TRANSITION without a target: abort, then ValueError. With an    *)
(* illegal one: IllegalWorkflowTransition, and no marker.                   *)
MissingTarget ==
  /\ pc = "result" /\ turn.result = "WORKFLOW_TRANSITION" /\ turn.target = None
  /\ Aborted
  /\ Stop("raised")
  /\ UNCHANGED <<txnCtr, wf, files, head, back, turn, sessions, interrupts, cut>>

IllegalTarget ==
  /\ pc = "result" /\ turn.result = "WORKFLOW_TRANSITION"
  /\ turn.target # None /\ ~Legal(turn.st, turn.target)
  /\ Stop("raised")
  /\ cut' = cut \cup {turn.txn}
  /\ UNCHANGED <<disk, back, turn, sessions, interrupts>>

(* The state moves before the transaction commits. st becomes the           *)
(* workflow_state the StepResult reports.                                   *)
MoveState ==
  /\ pc = "result" /\ turn.result = "WORKFLOW_TRANSITION"
  /\ turn.target # None /\ Legal(turn.st, turn.target)
  /\ wf' = turn.target
  /\ turn' = [turn EXCEPT !.outcome = "TRANSITIONED", !.st = turn.target,
                          !.result = None, !.target = None]
  /\ Goto("commit")
  /\ UNCHANGED <<log, txnCtr, files, head, back, sess, seen>>

(* Mutant of Progress: a suspended turn is reported without its commit.     *)
ProgressSuspendsUncommitted ==
  /\ pc = "result" /\ turn.result \in {"OK", "PARTIAL", "HUMAN_INPUT_REQUIRED"}
  /\ Decided(IF turn.result = "HUMAN_INPUT_REQUIRED" THEN "SUSPENDED" ELSE "ADVANCED")
  /\ Goto(IF turn.result = "HUMAN_INPUT_REQUIRED" THEN "cost" ELSE "commit")
  /\ UNCHANGED <<disk, back, sess, seen>>

Progress ==
  /\ pc = "result" /\ turn.result \in {"OK", "PARTIAL", "HUMAN_INPUT_REQUIRED"}
  /\ Decided(IF turn.result = "HUMAN_INPUT_REQUIRED" THEN "SUSPENDED" ELSE "ADVANCED")
  /\ Goto("commit")
  /\ UNCHANGED <<disk, back, sess, seen>>

(* Mutant of CommitTxn: the files are left as the tools wrote them.         *)
CommitTxnNoRebuild ==
  /\ pc = "commit"
  /\ log' = Append(log, Note("commit", turn.txn))
  /\ Goto("git")
  /\ UNCHANGED <<txnCtr, wf, files, head, back, sess, turn, seen>>

(* _finalize_turn: the commit marker, rebuild_all, then commit_turn with a  *)
(* message made from the events that carry the transaction's id.            *)
CommitTxn ==
  /\ pc = "commit"
  /\ log' = Append(log, Note("commit", turn.txn))
  /\ back' = "git" /\ Goto("wipe")
  /\ UNCHANGED <<txnCtr, wf, files, head, sess, turn, seen>>

(* rounds_from_events: the history that the agents and the status board are *)
(* given. A round is a committed transaction, at the place of its first     *)
(* event.                                                                   *)
Rounds(l) == {k \in DOMAIN l : /\ l[k].txn # 0 /\ l[k].txn \in Committed(l)
                               /\ \A j \in 1..(k - 1) : l[j].txn # l[k].txn}

EventsForTxn(t) == {k \in DOMAIN log : log[k].txn = t}

CommitTurn ==
  /\ pc = "git"
  /\ head' = [len |-> Len(log), files |-> files,
              told |-> {k \in EventsForTxn(turn.txn) : log[k].type = "write"}]
  /\ Goto("cost")
  /\ UNCHANGED <<log, txnCtr, wf, files, back, sess, turn, seen>>

WriteTurnCost ==
  /\ pc = "cost"
  /\ log' = Append(log, Note("cost", 0))
  /\ Goto("stepped")
  /\ UNCHANGED <<txnCtr, wf, files, head, back, sess, turn, seen>>

-----------------------------------------------------------------------------
(* What run_session and chat do with a StepResult.                          *)
Stopping == {"COMPLETE", "ESCALATED", "NOT_IMPLEMENTED"} \cup
            IF sess.kind = "run" THEN {"SUSPENDED"} ELSE {}

StopSession ==
  /\ pc = "stepped" /\ turn.outcome \in Stopping
  /\ Stop(turn.outcome)
  /\ UNCHANGED <<disk, back, turn, sessions, interrupts, cut>>

Bounded == sess.iter < (IF sess.kind = "run" THEN IterationCap ELSE MaxChatTurns)

NextTurn ==
  /\ pc = "stepped" /\ turn.outcome \notin Stopping /\ Bounded
  /\ sess' = [sess EXCEPT !.iter = @ + 1]
  /\ Goto("load")
  /\ UNCHANGED <<disk, back, turn, seen>>

CapReached ==
  /\ pc = "stepped" /\ turn.outcome \notin Stopping
  /\ sess.kind = "run" /\ ~Bounded
  /\ log' = Append(log, Note("anomaly", 0))
  /\ Stop("loop_cap_reached")
  /\ UNCHANGED <<txnCtr, wf, files, head, back, turn, sessions, interrupts, cut>>

-----------------------------------------------------------------------------
(* run_change_session: the agent's writes, then _rewind_workflow in two     *)
(* writes; or the agent's turn fails.                                       *)
ChangeFails ==
  /\ pc = "change"
  /\ Stop("NON_RECOVERABLE")
  /\ UNCHANGED <<disk, back, turn, sessions, interrupts, cut>>

(* Mutant of RequestChange: straight back to the target.                    *)
RequestChangeDirect ==
  /\ pc = "change"
  /\ wf' = "DISCOVERY"
  /\ Goto("rewind")
  /\ UNCHANGED <<log, txnCtr, files, head, back, sess, turn, seen>>

RequestChange ==
  /\ pc = "change"
  /\ wf' = "CHANGE_REQUESTED"
  /\ Goto("rewind")
  /\ UNCHANGED <<log, txnCtr, files, head, back, sess, turn, seen>>

Rewind ==
  /\ pc = "rewind"
  /\ wf' = "DISCOVERY"
  /\ Stop("OK")
  /\ UNCHANGED <<log, txnCtr, files, head, back, turn, sessions, interrupts, cut>>

-----------------------------------------------------------------------------
(* The process dies, or a write or git raises and the session with it. turn *)
(* is kept only to be looked at.                                            *)
InTurn == {"begin", "agent", "result", "commit"}

Holding == pc \in InTurn \/ (pc \in {"wipe", "fill"} /\ back = "agent")

Interrupt ==
  /\ pc # "idle" /\ interrupts < MaxInterrupts
  /\ interrupts' = interrupts + 1
  /\ cut' = IF Holding THEN cut \cup {turn.txn} ELSE cut
  /\ back' = None
  /\ Stop("interrupted")
  /\ UNCHANGED <<disk, turn, sessions>>

Step ==
  \/ Complete \/ RouteBack \/ Unwired \/ SelectAgent
  \/ AllocateTxn \/ BeginTxn \/ ToolWrite \/ WipeFiles \/ FillFiles \/ AgentReturns
  \/ Retry \/ AbortTurn \/ MissingTarget \/ IllegalTarget \/ MoveState \/ Progress
  \/ CommitTxn \/ CommitTurn \/ WriteTurnCost
  \/ StopSession \/ NextTurn \/ CapReached
  \/ ChangeFails \/ RequestChange \/ Rewind

Next == StartRun \/ StartChat \/ StartChange \/ Step \/ Interrupt

Spec == Init /\ [][Next]_vars

(* A session's next step is taken: the process runs, and an agent's turn    *)
(* (bounded in its writes) returns.                                         *)
FairSpec == Spec /\ WF_vars(Step)
-----------------------------------------------------------------------------
(* Types; an attempt is never past the retry budget, an iteration of        *)
(* run_session never past its cap.                                          *)
Places == {"idle", "load", "alloc", "begin", "agent", "wipe", "fill", "result",
           "commit", "git", "cost", "stepped", "change", "rewind"}
GitHead == [len: Nat, files: [Items -> Values], told: SUBSET Nat]
Session == [kind: Kinds \cup {None}, approved: BOOLEAN, iter: Nat]
Turn == [st: States \cup {None}, attempts: 0..RetryBudget, txn: Nat,
         result: AllStatuses \cup {None}, target: States \cup {None},
         outcome: Outcomes \cup {None}, before: [Items -> Values]]

DiskType ==
  /\ log \in Seq(Event) /\ txnCtr \in Nat /\ wf \in States
  /\ files \in [Items -> Values] /\ head \in GitHead
SessionType ==
  sess \in Session /\ (sess.kind = "run" => sess.iter \in 1..IterationCap)
TurnType == turn \in Turn
ControlType ==
  /\ pc \in Places /\ back \in Callers \cup {None}
  /\ sessions \in Nat /\ interrupts \in Nat /\ cut \subseteq Nat
TypeOK == DiskType /\ SessionType /\ TurnType /\ ControlType

(* Where a transaction is marked in the log.                                *)
At(type, t) == {k \in DOMAIN log : log[k].type = type /\ log[k].txn = t}
Begun == {log[k].txn : k \in {j \in DOMAIN log : log[j].type = "begin"}}
Closing == {"commit", "abort"}
Closed(t) == \E c \in DOMAIN log : log[c].type \in Closing /\ log[c].txn = t

(* "exactly one txn.begin/txn.commit pair" (recovery/transaction.py): a     *)
(* transaction begins once, is closed at most once, by commit or by abort,  *)
(* after it began; and the only ones never closed are those of a turn that  *)
(* was cut short, and the current one.                                      *)
BeginsFirst ==
  \A k \in DOMAIN log : log[k].type \in Closing =>
    \E b \in DOMAIN log : b < k /\ log[b].type = "begin" /\ log[b].txn = log[k].txn
ClosedOnce ==
  \A k, j \in DOMAIN log : log[k].txn # 0 /\ log[k].txn = log[j].txn /\ k < j =>
    log[k].type = "begin" /\ log[j].type \in Closing
OpenOnlyIfCut ==
  \A b \in DOMAIN log : log[b].type = "begin" =>
    Closed(log[b].txn) \/ log[b].txn \in cut \/ (Holding /\ log[b].txn = turn.txn)
TransactionsBracketed == BeginsFirst /\ ClosedOnce /\ OpenOnlyIfCut

(* A StepResult says what the ledger holds: a turn that advanced,           *)
(* transitioned or suspended is the last round of the history, whatever was *)
(* cut before it; any other has aborted its last transaction, and none of   *)
(* its attempts, each with a transaction of its own, shows in the history;  *)
(* and workflow_state is the one on disk.                                   *)
CommittedOutcomes == {"ADVANCED", "TRANSITIONED", "SUSPENDED"}
IsLastRound(t) == \E k \in Rounds(log) : log[k].txn = t /\ \A j \in Rounds(log) : j <= k
OutcomeIsTrue ==
  /\ turn.outcome \in CommittedOutcomes => IsLastRound(turn.txn)
  /\ turn.outcome \in {"ESCALATED", "NOT_IMPLEMENTED"} =>
       /\ At("abort", turn.txn) # {}
       /\ \A k \in Rounds(log) : log[k].txn \notin (turn.txn - turn.attempts + 1)..turn.txn
StepResultIsTrue == pc = "stepped" => turn.st = wf /\ OutcomeIsTrue

(* The workflow state only moves along transitions.yaml, whatever is        *)
(* interrupted: the table is checked against the state read when the turn   *)
(* began, and used after the agent ran.                                     *)
MovesAreLegal == [][Legal(wf, wf')]_vars

(* "Mandatory validation is not bypassed": the gate is looked at once, when *)
(* a turn begins, and the turn goes on over retries after its agent wrote.  *)
(* However DISCOVERY_VALIDATED was reached, and whatever was cut before, a  *)
(* discovery blocker found in the ledger in any attempt of a turn there was *)
(* written by an attempt of the same turn, and is no older.                 *)
TurnTxns == IF pc = "alloc" THEN (txnCtr - turn.attempts + 2)..txnCtr
            ELSE (turn.txn - turn.attempts + 1)..turn.txn
WrittenInTurn(i) ==
  \E b, k \in DOMAIN log : /\ b < k
                          /\ log[b].type = "begin" /\ log[b].txn \in TurnTxns
                          /\ log[k].type = "write" /\ log[k].item = i
Attempting == pc \in {"alloc", "begin", "agent", "result"} \/ back = "agent"
BlockersAreOwn ==
  Attempting /\ wf = "DISCOVERY_VALIDATED" =>
    \A i \in DiscoveryBlockers(Materialize(log)) : WrittenInTurn(i)

(* What git keeps for a turn is consistent: the entity files in the commit  *)
(* are the fold of the log in the same commit, although an earlier          *)
(* interrupted rebuild may have left fewer.                                 *)
GitIsConsistent == head.files = Materialize(SubSeq(log, 1, head.len))

(* run_session ends, whatever its agents answer.                            *)
SessionEnds == sess.kind = "run" ~> pc = "idle"

(* README.md:187 "a crash mid-turn leaves orphaned lines on disk, but they  *)
(* are already invisible": once a turn has aborted, or was cut, the         *)
(* entities are those of the checkpoint.                                    *)
RolledBack ==
  pc \in {"cost", "idle"} /\ turn.txn \in Begun \ Committed(log) =>
    Materialize(log) = turn.before

(* README.md:187 "A killed session needs no manual repair": no session is   *)
(* refused because the one before it was killed.                            *)
NeedsNoRepair == ~(stopped = "unwired" /\ turn.st = "CHANGE_REQUESTED")

-----------------------------------------------------------------------------
(* The strengthening that makes the loop's invariants inductive: markers    *)
(* and only markers carry a transaction id, none above the counter; the one *)
(* held has begun, once, and nothing else; and what each place of run_turn  *)
(* knows of the state it read at the start.                                 *)
MarkerInv == \A k \in DOMAIN log :
  /\ log[k].txn # 0 <=> log[k].type \in Markers
  /\ log[k].txn <= txnCtr

HoldInv == Holding =>
  /\ turn.txn \in 1..txnCtr
  /\ \A k \in DOMAIN log : log[k].txn = turn.txn => log[k].type = "begin"
  /\ pc = "begin" => \A k \in DOMAIN log : log[k].txn # turn.txn
  /\ pc # "begin" => \E k \in DOMAIN log : log[k].txn = turn.txn

PlaceInv ==
  /\ pc \in {"wipe", "fill"} <=> back # None
  /\ back = "stepped" => turn.outcome = "SUSPENDED"
  /\ pc = "alloc" \/ Holding => turn.attempts >= 1
  /\ Attempting => turn.st = wf
  /\ pc = "rewind" => wf = "CHANGE_REQUESTED"

(* What makes the commit consistent: it is of a log that only grows, and    *)
(* the files it takes are those of a rebuild that came to its end.          *)
GitInv ==
  /\ head.len <= Len(log)
  /\ GitIsConsistent
  /\ pc = "git" => files = Materialize(log)

(* What makes a result true: nothing but the tools writes between the begin *)
(* and the end of the transaction held; the attempts of a turn have         *)
(* consecutive transactions, none of them committed; and the outcome of a   *)
(* turn that is through is true from its last marker on.                    *)
HeldIsLast == Holding =>
  \A k, j \in DOMAIN log : log[k].txn = turn.txn /\ log[j].txn # 0 => j <= k

AttemptsFail ==
  /\ pc = "alloc" => \A t \in (txnCtr - turn.attempts + 2)..txnCtr : t \notin Committed(log)
  /\ Holding => /\ turn.txn = txnCtr
                /\ \A t \in (turn.txn - turn.attempts + 1)..turn.txn : t \notin Committed(log)

Through == pc \in {"git", "cost", "stepped"} \/ back \in {"git", "stepped"}

ResultInv ==
  /\ HeldIsLast
  /\ AttemptsFail
  /\ pc = "commit" => turn.st = wf /\ turn.outcome \in CommittedOutcomes
  /\ Through => turn.st = wf /\ OutcomeIsTrue

LoopInv ==
  /\ TypeOK /\ MarkerInv /\ HoldInv /\ PlaceInv
  /\ TransactionsBracketed

=============================================================================
