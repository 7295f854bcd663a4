--------------------------- MODULE SubagentsProofs ----------------------------
(* Theorems about Subagents: for any number of unknowns and findings, and   *)
(* any number of sessions, killed anywhere.                                 *)
EXTENDS Subagents, EntitiesProofs

USE SubagentAssumption

(* A degradation is a classify of an unknown that is OPEN.                  *)
LEMMA DegradeClassifies ==
  ASSUME SubInv, Degrade
  PROVE  \E u \in session.todo :
           /\ session' = [session EXCEPT !.todo = @ \ {u}]
           /\ unk[u].status = "OPEN" /\ unk[u] \in UnknownRecord /\ unk[u].area \in Areas
           /\ ClassifyUnknown(u, unk[u].area, unk[u].blocking, "other", unk[u].route)
<1>1. PICK u \in Unknowns :
        /\ First(u, session.todo)
        /\ session' = [session EXCEPT !.todo = @ \ {u}]
        /\ \/ ClassifyUnknown(u, unk[u].area, unk[u].blocking, "other", unk[u].route)
           \/ unk[u].status # "OPEN" /\ UNCHANGED vars
  BY DEF Degrade
<1>2. u \in session.todo /\ u \in session.queue
  BY <1>1 DEF First, SubInv, SubTypeOK
<1>3. unk[u].status = "OPEN"
  BY <1>2 DEF Degrade, SubInv, SubTypeOK, SessionInv, Queued
<1>4. unk[u] \in UnknownRecord /\ unk[u].area \in Areas
  BY <1>3 DEF SubInv, SubTypeOK, TypeOK, AreasAreGiven, Absent
<1> QED BY <1>1, <1>2, <1>3, <1>4

(* Every step of the composition is a step of the entities, or leaves them. *)
LEMMA EntityStep == SubInv /\ [SubNext]_subVars => [Next]_vars
<1> SUFFICES ASSUME SubInv, [SubNext]_subVars PROVE [Next]_vars OBVIOUS
<1>1. CASE Degrade
  <2>1. PICK u \in session.todo :
          /\ unk[u] \in UnknownRecord /\ unk[u].area \in Areas
          /\ ClassifyUnknown(u, unk[u].area, unk[u].blocking, "other", unk[u].route)
    BY <1>1, DegradeClassifies
  <2>2. u \in Unknowns
    BY DEF SubInv, SubTypeOK, Session
  <2>3. unk[u].blocking \in BOOLEAN /\ "other" \in Owners /\ unk[u].route \in Routes
    BY <2>1 DEF UnknownRecord, Owners
  <2>4. UnknownStep
    BY <2>1, <2>2, <2>3 DEF UnknownStep
  <2> QED BY <2>4 DEF Next
<1>2. CASE SubNext /\ ~Degrade
  BY <1>2 DEF SubNext, OtherWriter, SessionStep, StartResearch, StartGuidance, ToolCall, TurnEnds,
     TurnRaises, Return, Kill, Age, OnlySession
<1>3. CASE UNCHANGED subVars
  BY <1>3 DEF subVars
<1> QED BY <1>1, <1>2, <1>3

-----------------------------------------------------------------------------
(* The inductive invariant.                                                 *)

LEMMA SubInvInit == SubInit => SubInv
<1> SUFFICES ASSUME SubInit PROVE SubInv OBVIOUS
<1>1. TypeOK /\ AreasAreGiven
  BY TypeInit DEF SubInit, Init, AreasAreGiven
<1>2. finding \in [Findings -> FindingRecord]
  BY DEF SubInit, FindingRecord, Named
<1>3. session = Idle /\ Idle \in Session /\ writes \in 0..MaxWrites
  BY DEF SubInit, Idle, Session
<1>4. FindingInv
  BY DEF SubInit, FindingInv
<1> QED BY <1>1, <1>2, <1>3, <1>4 DEF SubInv, SubTypeOK, SessionInv, Idle

LEMMA FindingsNext ==
  ASSUME SubTypeOK, FindingInv, [SubNext]_subVars
  PROVE  finding' \in [Findings -> FindingRecord] /\ FindingInv'
<1> USE DEF FindingRecord, Named, FindingStatus, FindingInv, Absent
<1>1. finding \in [Findings -> FindingRecord]
  BY DEF SubTypeOK
<1>2. CASE ToolCall
  <2>1. PICK f \in Findings :
          \/ \E i \in Named : CreateFinding(f, i) \/ LinkDecision(f, i)
          \/ SupersedeFinding(f)
    BY <1>2 DEF ToolCall
  <2>2. CASE \E i \in Named : CreateFinding(f, i)
    BY <1>1, <2>2 DEF CreateFinding
  <2>3. CASE \E i \in Named : LinkDecision(f, i)
    BY <1>1, <2>3 DEF LinkDecision
  <2>4. CASE SupersedeFinding(f)
    BY <1>1, <2>4 DEF SupersedeFinding
  <2> QED BY <2>1, <2>2, <2>3, <2>4
<1>3. CASE \E f \in Findings : Age(f)
  <2>1. PICK f \in Findings : Age(f)
    BY <1>3
  <2>2. finding' = [finding EXCEPT ![f].stale = TRUE] /\ finding[f].status # "ABSENT"
    BY <2>1 DEF Age
  <2> QED BY <1>1, <2>2
<1>4. CASE finding' = finding
  BY <1>1, <1>4
<1> QED BY <1>2, <1>3, <1>4 DEF SubNext, OtherWriter, SessionStep, StartResearch, StartGuidance,
       TurnEnds, TurnRaises, Degrade, Return, Kill, OnlySession, subVars

LEMMA SubInvNext == SubInv /\ [SubNext]_subVars => SubInv'
<1> SUFFICES ASSUME SubInv, [SubNext]_subVars PROVE SubInv' OBVIOUS
<1>1. TypeOK' /\ AreasAreGiven'
  BY EntityStep, TypeNext, AreasNext DEF SubInv, SubTypeOK
<1>2. finding' \in [Findings -> FindingRecord] /\ FindingInv'
  BY FindingsNext DEF SubInv
<1>3. writes' \in 0..MaxWrites
  BY DEF SubInv, SubTypeOK, SubNext, OtherWriter, SessionStep, StartResearch, StartGuidance, ToolCall,
     TurnEnds, TurnRaises, Degrade, Return, Kill, Age, OnlySession, subVars
<1> DEFINE SessionOK ==
      /\ session \in Session /\ session.todo \subseteq session.queue
      /\ session.at = "idle" <=> session = Idle
      /\ session.agent = "none" <=> session = Idle
      /\ session.attempt = 2 \/ session.at = "degrade" => session.agent = "research"
      /\ SessionInv
<1>4. SessionOK
  BY DEF SubInv, SubTypeOK
<1>5. SessionOK'
  <2> USE <1>4 DEF Session, SessionInv, Idle
  <2>1. CASE OtherWriter
    BY <2>1, <1>4 DEF OtherWriter
  <2>2. CASE \E available \in BOOLEAN : StartResearch(available)
    <3>1. PICK available \in BOOLEAN : StartResearch(available)
      BY <2>2
    <3>2. UNCHANGED unk /\ Queued("RESEARCH") \subseteq Unknowns
      BY <3>1 DEF StartResearch, OnlySession, vars, Queued
    <3> QED BY <3>1, <3>2 DEF StartResearch, Queued
  <2>3. CASE StartGuidance
    BY <2>3 DEF StartGuidance
  <2>4. CASE ToolCall \/ (\E f \in Findings : Age(f)) \/ UNCHANGED subVars
    BY <2>4, <1>4 DEF ToolCall, Age, subVars, vars, Queued
  <2>5. CASE TurnEnds \/ Return \/ Kill
    BY <2>5 DEF TurnEnds, Return, Kill
  <2>6. CASE TurnRaises
    <3>1. unk' = unk /\ session.at = "turn" /\ session.agent \in {"none", "research", "guidance"}
      BY <2>6, <1>4 DEF TurnRaises, InTurn, OnlySession, vars
    <3>2. CASE session.agent = "guidance"
      BY <2>6, <3>2 DEF TurnRaises
    <3>3. CASE session.agent # "guidance" /\ session.attempt = 1
      <4>1. session' = [session EXCEPT !.attempt = 2]
        BY <2>6, <3>3 DEF TurnRaises
      <4> QED BY <1>4, <3>1, <3>3, <4>1 DEF Queued
    <3>4. CASE session.agent # "guidance" /\ session.attempt # 1
      <4>1. session' = [session EXCEPT !.at = "degrade"]
        BY <2>6, <3>4 DEF TurnRaises
      <4> QED BY <1>4, <3>1, <3>4, <4>1 DEF Queued
    <3> QED BY <3>2, <3>3, <3>4
  <2>7. CASE Degrade
    <3>1. PICK u \in session.todo :
            /\ session' = [session EXCEPT !.todo = @ \ {u}]
            /\ unk[u].status = "OPEN" /\ unk[u] \in UnknownRecord
            /\ ClassifyUnknown(u, unk[u].area, unk[u].blocking, "other", unk[u].route)
      BY <2>7, DegradeClassifies
    <3>2. unk \in [Unknowns -> UnknownRecord] /\ u \in Unknowns
      BY <1>4 DEF SubInv, SubTypeOK, TypeOK
    <3>3. /\ unk'[u].status = "OPEN" /\ unk'[u].owner = "other" /\ unk'[u].route = unk[u].route
          /\ \A v \in Unknowns \ {u} : unk'[v] = unk[v]
      BY <3>1, <3>2 DEF ClassifyUnknown, UnknownRecord
    <3>4. Queued("RESEARCH") \subseteq Queued("RESEARCH")'
      BY <3>1, <3>3 DEF Queued
    <3>5. /\ session'.agent = session.agent /\ session'.at = session.at
          /\ session'.attempt = session.attempt /\ session'.queue = session.queue
          /\ session'.todo = session.todo \ {u} /\ session' \in Session
      BY <3>1, <1>4
    <3>6. session.at = "degrade" /\ session.agent = "research"
      BY <2>7, <1>4 DEF Degrade
    <3> QED BY <3>2, <3>3, <3>4, <3>5, <3>6, <1>4
  <2> QED BY <2>1, <2>2, <2>3, <2>4, <2>5, <2>6, <2>7 DEF SubNext, SessionStep
<1> QED BY <1>1, <1>2, <1>3, <1>5 DEF SubInv, SubTypeOK

LEMMA SubInvHolds == SubSpec => []SubInv
BY SubInvInit, SubInvNext, PTL DEF SubSpec

(* Entities and sessions keep their types, wherever sessions are killed.    *)
THEOREM SubagentTypeCorrect == SubSpec => []SubTypeOK
<1>1. SubInv => SubTypeOK
  BY DEF SubInv
<1> QED BY <1>1, SubInvHolds, PTL

(* The composition implements the entities alone: a session makes legal     *)
(* calls of their writers and nothing else.                                 *)
THEOREM SessionsAreWriters == SubSpec => Spec
<1>1. SubInit => Init
  BY DEF SubInit
<1> QED BY <1>1, EntityStep, SubInvHolds, PTL DEF SubSpec, Spec

(* So what holds of the entities holds with sessions running over them.     *)
THEOREM EntityPromisesKept ==
  SubSpec => []ViewsAgree /\ CoverageKept /\ CoverageGrowsUnblocked /\ SettlingKeepsReady
BY SessionsAreWriters, ViewsAlwaysAgree, CoverageIsKept, CoverageIsUnblocked, SettlingIsSafe

-----------------------------------------------------------------------------
(* A degraded batch is handed over whole.                                   *)
THEOREM DegradedHandedOver == SubSpec => DegradedAreHandedOver
<1>1. SubInv /\ [SubNext]_subVars =>
        [ Return => \A u \in session.queue :
            u \in Queued("RESEARCH") /\ unk[u].owner = "other" ]_subVars
  BY DEF SubInv, SubTypeOK, SessionInv, Return
<1> QED BY <1>1, SubInvHolds, PTL DEF SubSpec, DegradedAreHandedOver

(* The board is the same before and after each step of a session, and the   *)
(* gate gets a blocker only for a question taken over from the client.      *)
THEOREM BoardIsKept == SubSpec => SessionsKeepTheBoard
<1>1. SubInv /\ [SubNext]_subVars =>
        [ session # session' =>
            /\ OpenItems' = OpenItems
            /\ EntityBlockers \subseteq EntityBlockers'
            /\ \A u \in EntityBlockers' \ EntityBlockers :
                 u \in Unknowns /\ unk[u].owner = "external" /\ unk[u].blocking ]_subVars
  <2> SUFFICES ASSUME SubInv, [SubNext]_subVars, session # session'
               PROVE  /\ OpenItems' = OpenItems
                      /\ EntityBlockers \subseteq EntityBlockers'
                      /\ \A u \in EntityBlockers' \ EntityBlockers :
                           u \in Unknowns /\ unk[u].owner = "external" /\ unk[u].blocking
    OBVIOUS
  <2> USE DEF OpenItems, EntityBlockers, OpenBlockingUnknowns, ProposedHigh, LiveDecisions,
              BlockingUnknowns, UnconfirmedHigh, UndecidedBlocking
  <2>1. CASE Degrade
    <3>1. PICK u \in session.todo :
            /\ unk[u].status = "OPEN" /\ unk[u] \in UnknownRecord
            /\ ClassifyUnknown(u, unk[u].area, unk[u].blocking, "other", unk[u].route)
      BY <2>1, DegradeClassifies
    <3>2. unk \in [Unknowns -> UnknownRecord] /\ u \in Unknowns
      BY DEF SubInv, SubTypeOK, TypeOK, Session
    <3>3. /\ unk'[u].status = "OPEN" /\ unk'[u].owner = "other" /\ unk'[u].route = unk[u].route
          /\ unk'[u].area = unk[u].area /\ unk'[u].blocking = unk[u].blocking
          /\ \A v \in Unknowns \ {u} : unk'[v] = unk[v]
          /\ UNCHANGED <<asm, dec>>
      BY <3>1, <3>2 DEF ClassifyUnknown, UnknownRecord, OnlyUnk
    <3>4. OpenItems' = OpenItems
      <4>1. OpenBlockingUnknowns(Areas)' = OpenBlockingUnknowns(Areas)
        BY <3>1, <3>3
      <4>2. {v \in Unknowns : unk[v].status = "OPEN" /\ unk[v].route = "RESEARCH"}'
              = {v \in Unknowns : unk[v].status = "OPEN" /\ unk[v].route = "RESEARCH"}
        BY <3>1, <3>3
      <4> QED BY <3>3, <4>1, <4>2
    <3>5. UnconfirmedHigh' = UnconfirmedHigh /\ UndecidedBlocking' = UndecidedBlocking
      BY <3>3
    <3>6. BlockingUnknowns \subseteq BlockingUnknowns'
      BY <3>1, <3>3
    <3>7. ASSUME NEW v \in BlockingUnknowns' \ BlockingUnknowns
          PROVE  v \in Unknowns /\ unk[v].owner = "external" /\ unk[v].blocking
      <4>1. v = u
        BY <3>3, <3>7
      <4> QED BY <3>1, <3>2, <3>3, <3>7, <4>1 DEF UnknownRecord, Owners
    <3> QED BY <3>4, <3>5, <3>6, <3>7
  <2>2. CASE SubNext /\ ~Degrade
    <3>1. UNCHANGED <<unk, asm, dec>>
      BY <2>2 DEF SubNext, OtherWriter, SessionStep, StartResearch, StartGuidance, ToolCall, TurnEnds,
         TurnRaises, Return, Kill, Age, OnlySession, vars
    <3> QED BY <3>1
  <2> QED BY <2>1, <2>2 DEF subVars
<1> QED BY <1>1, SubInvHolds, PTL DEF SubSpec, SessionsKeepTheBoard

(* A stale finding behind an open decision or unknown stays flagged until   *)
(* that is closed or the finding, still ACTIVE, is linked elsewhere.        *)
THEOREM FlagsAlwaysLast == SubSpec => FlagsLast
<1>1. SubInv /\ [SubNext]_subVars =>
        [ \A f \in Flagged \ Flagged' :
            \/ finding[f].feeds \notin Underpinned'
            \/ finding[f].status = "ACTIVE" /\ finding'[f].feeds # finding[f].feeds ]_subVars
  <2> SUFFICES ASSUME SubInv, [SubNext]_subVars, NEW f \in Flagged \ Flagged',
                      finding[f].feeds \in Underpinned'
               PROVE  finding[f].status = "ACTIVE" /\ finding'[f].feeds # finding[f].feeds
    OBVIOUS
  <2>1. /\ f \in Findings /\ finding[f].stale /\ finding[f].feeds \in Underpinned
        /\ ~(finding'[f].stale /\ finding'[f].feeds \in Underpinned')
    BY DEF Flagged
  <2>2. finding \in [Findings -> FindingRecord] /\ finding' \in [Findings -> FindingRecord]
    BY FindingsNext DEF SubInv, SubTypeOK
  <2>3. finding[f].status # Absent
    BY <2>1 DEF SubInv, FindingInv
  <2>4. finding'[f].stale => finding'[f].feeds # finding[f].feeds
    BY <2>1
  <2>5. CASE ToolCall
    <3>1. PICK g \in Findings :
            \/ \E i \in Named : CreateFinding(g, i) \/ LinkDecision(g, i)
            \/ SupersedeFinding(g)
      BY <2>5 DEF ToolCall
    <3>2. CASE \E i \in Named : CreateFinding(g, i)
      BY <2>1, <2>2, <2>3, <2>4, <3>2 DEF CreateFinding, FindingRecord
    <3>3. CASE \E i \in Named : LinkDecision(g, i)
      BY <2>1, <2>2, <2>4, <3>3 DEF LinkDecision, FindingRecord
    <3>4. CASE SupersedeFinding(g)
      BY <2>1, <2>2, <2>4, <3>4 DEF SupersedeFinding, FindingRecord
    <3> QED BY <3>1, <3>2, <3>3, <3>4
  <2>6. CASE \E g \in Findings : Age(g)
    BY <2>1, <2>2, <2>4, <2>6 DEF Age, FindingRecord
  <2>7. CASE finding' = finding
    BY <2>1, <2>4, <2>7
  <2> QED BY <2>5, <2>6, <2>7 DEF SubNext, OtherWriter, SessionStep, StartResearch, StartGuidance,
         TurnEnds, TurnRaises, Degrade, Return, Kill, OnlySession, subVars
<1> QED BY <1>1, SubInvHolds, PTL DEF SubSpec, FlagsLast

=============================================================================
