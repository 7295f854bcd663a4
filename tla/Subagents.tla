------------------------------ MODULE Subagents -------------------------------
(***************************************************************************)
(* The two subagents of Discovery, over the entities of Entities:          *)
(* ppa/agents/subagents/research.py, guidance.py, and the findings that    *)
(* their one tool, manage_research, writes.                                *)
(*                                                                         *)
(* A session reads the ledger once, runs a turn of a model that may call   *)
(* its tool or raise, and then acts on what it read.  One process writes a *)
(* project, and a session keeps it busy, so the other writers wait; but a  *)
(* session may be killed between any two of its writes.                    *)
(***************************************************************************)
EXTENDS Entities, Naturals

CONSTANTS
  Findings,    \* ids: RES-
  Rank,        \* the place of an id in the order of ids
  MaxWrites    \* bound: calls of the tools by a model

ASSUME SubagentAssumption ==
  /\ Rank \in [Findings \cup Unknowns -> Nat]
  /\ \A x, y \in Findings \cup Unknowns : x # y => Rank[x] # Rank[y]
  /\ Findings \cap (Decisions \cup Unknowns \cup {None}) = {}
  /\ MaxWrites \in Nat

VARIABLES
  finding,   \* finding -> status, feeds_decision, older than stale_after_days
  session,   \* the session that runs: its agent, the place in its code, the
             \* attempt, what it read as queued, what it has still to degrade
  writes     \* calls of the tools so far, but for those of a degradation

subVars == <<vars, finding, session, writes>>

FindingStatus == {"ACTIVE", "REPLACED"}

(* feeds_decision is any id: None stands for no id, for one that is nobody's *)
(* and for one of a kind that is never OPEN; a risk would be as an unknown.  *)
Named == Decisions \cup Unknowns \cup {None}

FindingRecord == [status : FindingStatus \cup {Absent}, feeds : Named, stale : BOOLEAN]

Session == [agent : {"none", "research", "guidance"}, at : {"idle", "turn", "degrade"},
            attempt : 0..2, queue : SUBSET Unknowns, todo : SUBSET Unknowns]

Idle == [agent |-> "none", at |-> "idle", attempt |-> 0, queue |-> {}, todo |-> {}]

(* _open_research_unknowns, _open_guidance_unknown. *)
Queued(route) == {u \in Unknowns : unk[u].status = "OPEN" /\ unk[u].route = route}

(* sorted(...): u comes first. *)
First(u, S) == u \in S /\ \A v \in S : Rank[u] <= Rank[v]

(* STALE_UNDERPINNING_STATUSES: the kind of the entity is not looked at. *)
Underpinned == LiveDecisions \cup {u \in Unknowns : unk[u].status = "OPEN"}

(* A bug: a finding is thought to be settled with its successor. *)
FlaggedActive == {f \in Findings : /\ finding[f].status = "ACTIVE" /\ finding[f].stale
                                   /\ finding[f].feeds \in Underpinned}

(* stale_findings_underpinning_open_decisions: whatever the finding's own   *)
(* status is.                                                               *)
Flagged == {f \in Findings : finding[f].stale /\ finding[f].feeds \in Underpinned}

SubInit ==
  /\ Init
  /\ finding = [f \in Findings |-> [status |-> Absent, feeds |-> None, stale |-> FALSE]]
  /\ session = Idle
  /\ writes = 0

-----------------------------------------------------------------------------
(* manage_research.                                                         *)

InTurn == session.at = "turn"

(* create: ids are given in their order; feeds_decision is taken as given. *)
CreateFinding(f, i) ==
  /\ finding[f].status = Absent
  /\ \A g \in Findings : Rank[g] < Rank[f] => finding[g].status # Absent
  /\ finding' = [finding EXCEPT ![f] = [status |-> "ACTIVE", feeds |-> i, stale |-> FALSE]]

(* link_decision: of an ACTIVE finding, to any id, unchecked too. *)
LinkDecision(f, i) ==
  /\ finding[f].status = "ACTIVE"
  /\ finding' = [finding EXCEPT ![f].feeds = i]

SupersedeFinding(f) ==
  /\ finding[f].status # Absent
  /\ finding' = [finding EXCEPT ![f].status = "REPLACED"]

(* The model of a turn calls its tool.  The bound is not a rule of the code. *)
ToolCall ==
  /\ InTurn /\ writes < MaxWrites
  /\ \E f \in Findings :
       \/ \E i \in Named : CreateFinding(f, i) \/ LinkDecision(f, i)
       \/ SupersedeFinding(f)
  /\ writes' = writes + 1
  /\ UNCHANGED <<vars, session>>

(* is_stale: time passes. *)
Age(f) ==
  /\ finding[f].status # Absent
  /\ finding' = [finding EXCEPT ![f].stale = TRUE]
  /\ UNCHANGED <<vars, session, writes>>

-----------------------------------------------------------------------------
(* run_research_session, run_guidance_session.  An empty queue returns at   *)
(* once and changes nothing.                                                *)

OnlySession == UNCHANGED <<vars, finding, writes>>

(* available() is asked before anything is tried. *)
StartResearch(available) ==
  /\ session = Idle /\ Queued("RESEARCH") # {}
  /\ session' = [agent |-> "research", at |-> IF available THEN "turn" ELSE "degrade",
                 attempt |-> IF available THEN 1 ELSE 0,
                 queue |-> Queued("RESEARCH"), todo |-> Queued("RESEARCH")]
  /\ OnlySession

StartGuidance ==
  /\ session = Idle
  /\ \E u \in Unknowns :
       /\ First(u, Queued("GUIDANCE"))
       /\ session' = [agent |-> "guidance", at |-> "turn", attempt |-> 1,
                      queue |-> {u}, todo |-> {}]
  /\ OnlySession

(* The turn comes to its end.  Research answers OK; Guidance answers OK or, *)
(* for a brief of fewer than two options, NON_RECOVERABLE.  The unknowns    *)
(* stay OPEN either way.                                                    *)
TurnEnds ==
  /\ InTurn
  /\ session' = Idle
  /\ OnlySession

(* A bug: nothing counts the attempts. *)
TurnRaisesUncapped ==
  /\ InTurn
  /\ session' = IF session.agent = "guidance" THEN Idle
                ELSE [session EXCEPT !.attempt = @ + 1]
  /\ OnlySession

(* The turn raises.  Guidance gives up; Research tries once more, with the  *)
(* queue it read at the start, and then degrades it.                        *)
TurnRaises ==
  /\ InTurn
  /\ session' = IF session.agent = "guidance" THEN Idle
                ELSE IF session.attempt = 1 THEN [session EXCEPT !.attempt = 2]
                ELSE [session EXCEPT !.at = "degrade"]
  /\ OnlySession

(* A bug: an item that cannot be researched is taken off the queue. *)
DegradeUnqueued ==
  /\ session.at = "degrade"
  /\ \E u \in Unknowns :
       /\ First(u, session.todo)
       /\ session' = [session EXCEPT !.todo = @ \ {u}]
       /\ ClassifyUnknown(u, unk[u].area, unk[u].blocking, "other", "other")
  /\ UNCHANGED <<finding, writes>>

(* A bug: the queue is read again after each item. *)
DegradeReread ==
  /\ session.at = "degrade"
  /\ \E u \in Unknowns :
       /\ First(u, session.todo)
       /\ session' = [session EXCEPT !.todo = Queued("RESEARCH")]
       /\ ClassifyUnknown(u, unk[u].area, unk[u].blocking, "other", unk[u].route)
  /\ UNCHANGED <<finding, writes>>

(* _degrade_unknown, for the next item: classify with owner_type "user" (and *)
(* a text that says why); what the call answers is not looked at.            *)
Degrade ==
  /\ session.at = "degrade"
  /\ \E u \in Unknowns :
       /\ First(u, session.todo)
       /\ session' = [session EXCEPT !.todo = @ \ {u}]
       /\ \/ ClassifyUnknown(u, unk[u].area, unk[u].blocking, "other", unk[u].route)
          \/ unk[u].status # "OPEN" /\ UNCHANGED vars
  /\ UNCHANGED <<finding, writes>>

(* A bug: the first item stands for the batch. *)
ReturnEarly ==
  /\ session.at = "degrade" /\ session.todo # session.queue
  /\ session' = Idle
  /\ OnlySession

(* The degraded result, status OK, is returned. *)
Return ==
  /\ session.at = "degrade" /\ session.todo = {}
  /\ session' = Idle
  /\ OnlySession

(* The process is killed, or a write raises, anywhere in a session. *)
Kill ==
  /\ session # Idle
  /\ session' = Idle
  /\ OnlySession

(* append_event_with_id: ids are given in their order.                      *)
IdsInOrder == \A u, v \in Unknowns :
  Rank[u] < Rank[v] /\ unk[v].status # Absent => unk[u].status # Absent

(* The other writers, while no session runs.  The bound on their calls is   *)
(* not a rule of the code.                                                  *)
OtherWriter ==
  /\ session = Idle /\ writes < MaxWrites
  /\ Next /\ IdsInOrder'
  /\ writes' = writes + 1
  /\ UNCHANGED <<finding, session>>

SessionStep == \/ StartGuidance \/ \E available \in BOOLEAN : StartResearch(available)
               \/ ToolCall \/ TurnEnds \/ TurnRaises \/ Degrade \/ Return \/ Kill

SubNext == OtherWriter \/ SessionStep \/ \E f \in Findings : Age(f)

SubSpec == SubInit /\ [][SubNext]_subVars

(* A turn of the model ends, by its answer or an error; the code after it   *)
(* runs to its end.                                                         *)
FairSubSpec == SubSpec /\ WF_subVars(TurnEnds \/ TurnRaises) /\ WF_subVars(Degrade \/ Return)

-----------------------------------------------------------------------------
(* Properties.                                                             *)

(* The entities keep their types under sessions too, and a session at any   *)
(* point is one its code can be in: what is still to degrade is among what  *)
(* was read, and only Research counts a second attempt or degrades.         *)
SubTypeOK ==
  /\ TypeOK
  /\ finding \in [Findings -> FindingRecord]
  /\ session \in Session
  /\ session.todo \subseteq session.queue
  /\ session.at = "idle" <=> session = Idle
  /\ session.agent = "none" <=> session = Idle
  /\ session.attempt = 2 \/ session.at = "degrade" => session.agent = "research"
  /\ writes \in 0..MaxWrites

(* A research session that comes back degraded has handed every question of *)
(* the batch to the user, none is left out and none is closed ("never stall *)
(* planning").                                                              *)
DegradedAreHandedOver == [][
  Return => \A u \in session.queue :
              u \in Queued("RESEARCH") /\ unk[u].owner = "other" ]_subVars

(* Whatever a session does, and wherever it is killed, the status board     *)
(* shows the same open items before and after each of its steps, and the    *)
(* gate gets a new blocker only where a question of the client's that       *)
(* blocks was handed to the user.                                           *)
SessionsKeepTheBoard == [][
  session # session' =>
    /\ OpenItems' = OpenItems
    /\ EntityBlockers \subseteq EntityBlockers'
    /\ \A u \in EntityBlockers' \ EntityBlockers :
         u \in Unknowns /\ unk[u].owner = "external" /\ unk[u].blocking ]_subVars

(* An open decision (or unknown) that rests on stale research keeps its     *)
(* flag until it is closed, or the finding is linked to another id:         *)
(* replacing the finding does not hide it.                                  *)
FlagsLast == [][
  \A f \in Flagged \ Flagged' :
    \/ finding[f].feeds \notin Underpinned'
    \/ finding[f].status = "ACTIVE" /\ finding'[f].feeds # finding[f].feeds ]_subVars

(* Every session ends: a turn that raises is not tried for ever, and a       *)
(* batch is degraded in as many steps as it has items.                      *)
SessionsEnd == session # Idle ~> session = Idle

-----------------------------------------------------------------------------
(* The strengthening that makes the session's properties inductive: nothing *)
(* it read goes stale while it runs, because nobody else writes then, and   *)
(* the items behind the place it has reached are handed over.               *)
SessionInv ==
  /\ session.agent = "research" => session.queue \subseteq Queued("RESEARCH")
  /\ session.agent = "research" /\ session.at = "turn" => session.todo = session.queue
  /\ session.at = "degrade" =>
       \A u \in session.queue \ session.todo : unk[u].owner = "other"

FindingInv == \A f \in Findings : finding[f].status = Absent => ~finding[f].stale

SubInv == SubTypeOK /\ AreasAreGiven /\ SessionInv /\ FindingInv

=============================================================================
