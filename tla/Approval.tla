------------------------------- MODULE Approval -------------------------------
(***************************************************************************)
(* The approval gate of ppa/tools/approval.py in front of                  *)
(* manage_linear_issue (ppa/tools/delivery_tools.py): a batch of issues is *)
(* created only under an approval of the user for exactly that batch.      *)
(*                                                                         *)
(* Grants and revocations are events of the ledger; nothing caches them.   *)
(* The gate reads the clock, then the log, and decides on what it read:    *)
(* the user may grant or revoke, and time may pass, between any two of     *)
(* these steps.                                                            *)
(*                                                                         *)
(* A scope is the list of story ids alone: the tool passes no payload, and *)
(* stories have no content yet.                                            *)
(***************************************************************************)
EXTENDS Naturals, Sequences, FiniteSets

CONSTANTS
  Stories,    \* story ids
  Batches,    \* lists of story ids that a call or a grant may name
  Calls,      \* calls of manage_linear_issue
  Ttl,        \* life of an approval, in ticks
  MaxEvents,  \* bound: grants and revocations
  MaxTime     \* bound: ticks

ASSUME ApprovalAssumption ==
  /\ Batches \subseteq Seq(Stories)
  /\ Ttl \in Nat /\ MaxEvents \in Nat /\ MaxTime \in Nat

VARIABLES
  log,       \* approval.granted and approval.revoked, in order
  clock,
  call       \* the calls: pc, what they were given, what they read, their result

vars == <<log, clock, call>>

NoApproval == [type |-> "none"]

(* compute_scope_hash: of the sorted list, so of how often each id is in it. *)
ScopeHash(batch) == [s \in Stories |-> Cardinality({i \in DOMAIN batch : batch[i] = s})]

(* A bug: a revocation is not looked at. *)
ActiveUnrevoked(events) ==
  LET grants == {i \in DOMAIN events : events[i].type = "granted"}
  IN IF grants = {} THEN NoApproval
     ELSE events[CHOOSE i \in grants : \A j \in grants : j <= i]

(* A bug: whatever came last is the approval. *)
ActiveAny(events) == IF events = <<>> THEN NoApproval ELSE events[Len(events)]

(* current_approval: the last event counts, a revocation leaves nothing.    *)
Active(events) ==
  IF events = <<>> \/ events[Len(events)].type = "revoked" THEN NoApproval
  ELSE events[Len(events)]

Init ==
  /\ log = <<>> /\ clock = 0
  /\ call \in [Calls -> {[pc |-> "start", operation |-> op, batch |-> b, plan |-> p, now |-> 0,
                          approval |-> NoApproval, result |-> "none",
                          since |-> 0, began |-> 0, upto |-> 0, ended |-> 0] :
                         op \in {"create", "close"}, b \in Batches, p \in {"APPROVED", "DRAFT"}}]

-----------------------------------------------------------------------------
(* The user and the clock.                                                  *)

(* grant_approval *)
Grant(batch) ==
  /\ Len(log) < MaxEvents
  /\ log' = Append(log, [type |-> "granted", scope |-> ScopeHash(batch),
                         expires |-> clock + Ttl])
  /\ UNCHANGED <<clock, call>>

(* revoke_approval *)
Revoke ==
  /\ Len(log) < MaxEvents
  /\ log' = Append(log, [type |-> "revoked"])
  /\ UNCHANGED <<clock, call>>

Tick ==
  /\ clock < MaxTime
  /\ clock' = clock + 1
  /\ UNCHANGED <<log, call>>

-----------------------------------------------------------------------------
(* One call, through requires_approval and the body it wraps.               *)

Gated(c) == call[c].operation = "create"

(* The clock is read; since and began are kept to speak about the call.     *)
ReadClock(c) ==
  /\ call[c].pc = "start" /\ Gated(c)
  /\ call' = [call EXCEPT ![c].pc = "log", ![c].now = clock,
                          ![c].since = Len(log), ![c].began = clock]
  /\ UNCHANGED <<log, clock>>

ReadLog(c) ==
  /\ call[c].pc = "log"
  /\ call' = [call EXCEPT ![c].pc = "decide", ![c].approval = Active(log),
                          ![c].upto = Len(log)]
  /\ UNCHANGED <<log, clock>>

(* A bug: an approval dies at the tick it is good until. *)
GateEarly(c) ==
  IF call[c].approval = NoApproval THEN "APPROVAL_REQUIRED"
  ELSE IF call[c].now >= call[c].approval.expires THEN "APPROVAL_EXPIRED"
  ELSE IF call[c].approval.scope # ScopeHash(call[c].batch) THEN "APPROVAL_SCOPE_MISMATCH"
  ELSE "passed"

(* The decision of the gate, in the order of its checks.                    *)
Gate(c) ==
  IF call[c].approval = NoApproval THEN "APPROVAL_REQUIRED"
  ELSE IF call[c].now > call[c].approval.expires THEN "APPROVAL_EXPIRED"
  ELSE IF call[c].approval.scope # ScopeHash(call[c].batch) THEN "APPROVAL_SCOPE_MISMATCH"
  ELSE "passed"

(* The body of manage_linear_issue(create).                                 *)
Body(c) ==
  IF call[c].plan # "APPROVED" THEN "PLAN_NOT_APPROVED"
  ELSE IF call[c].batch = <<>> THEN "MISSING_STORY_IDS"
  ELSE "created"

Finish(c, result) ==
  /\ call' = [call EXCEPT ![c].pc = "done", ![c].result = result, ![c].ended = clock]
  /\ UNCHANGED <<log, clock>>

(* The gate refuses, or lets the body run. *)
Decide(c) ==
  /\ call[c].pc = "decide"
  /\ Finish(c, IF Gate(c) = "passed" THEN Body(c) ELSE Gate(c))

(* Any other operation passes the gate, and the body does not know it.      *)
Ungated(c) ==
  /\ call[c].pc = "start" /\ ~Gated(c)
  /\ Finish(c, "UNKNOWN_OPERATION")

User == (\E batch \in Batches : Grant(batch)) \/ Revoke
Call(c) == ReadClock(c) \/ ReadLog(c) \/ Decide(c) \/ Ungated(c)

Next == User \/ Tick \/ (\E c \in Calls : Call(c))

Spec == Init /\ [][Next]_vars

-----------------------------------------------------------------------------
(* Properties.                                                             *)

Scopes == [Stories -> Nat]
Granted == [type : {"granted"}, scope : Scopes, expires : Nat]
Revoked == [type : {"revoked"}]
Results == {"none", "APPROVAL_REQUIRED", "APPROVAL_EXPIRED", "APPROVAL_SCOPE_MISMATCH",
            "PLAN_NOT_APPROVED", "MISSING_STORY_IDS", "UNKNOWN_OPERATION", "created"}

CallRecords ==
  [pc : {"start", "log", "decide", "done"}, operation : {"create", "close"},
   batch : Batches, plan : {"APPROVED", "DRAFT"}, now : Nat,
   approval : Granted \cup {NoApproval}, result : Results,
   since : Nat, began : Nat, upto : Nat, ended : Nat]

(* Every variable keeps its shape; what a call holds as an approval is a    *)
(* grant.                                                                   *)
TypeOK ==
  /\ log \in Seq(Granted \cup Revoked) /\ clock \in Nat
  /\ call \in [Calls -> CallRecords]

(* The ledger's last word after its first k events is a grant of this very  *)
(* batch, good at time t.  A list names the same batch in any order.        *)
SameBatch(scope, batch) ==
  \A s \in Stories : scope[s] = Cardinality({i \in DOMAIN batch : batch[i] = s})
CoveredAt(batch, k, t) ==
  /\ k > 0 /\ log[k].type = "granted"
  /\ SameBatch(log[k].scope, batch) /\ t <= log[k].expires

(* Issues are created only for an approved plan, and only if at a moment of *)
(* the call the batch was approved: not before a revocation, not for        *)
(* another batch, not after the approval expired.                           *)
CreatedWasCovered == \A c \in Calls : call[c].result = "created" =>
  /\ call[c].plan = "APPROVED" /\ call[c].batch # <<>>
  /\ \E k \in call[c].since..call[c].upto, t \in call[c].began..call[c].ended :
       CoveredAt(call[c].batch, k, t)

(* A call whose batch is approved all the time it runs is not refused by    *)
(* the gate.                                                                *)
CoveredIsNotRefused == \A c \in Calls :
  /\ call[c].pc = "done" /\ Gated(c)
  /\ \A k \in call[c].since..call[c].upto : CoveredAt(call[c].batch, k, call[c].ended)
  => call[c].result \in {"created", "PLAN_NOT_APPROVED", "MISSING_STORY_IDS"}

=============================================================================
