---------------------------- MODULE EntitiesProofs ----------------------------
(* Theorems about Entities: for any number of entities, areas and pairs.    *)
EXTENDS Entities, TLAPS

USE EntityAssumption

LEMMA TypeInit == Init => TypeOK
<1> SUFFICES ASSUME Init PROVE TypeOK OBVIOUS
<1> USE DEF Init
<1>1. req \in [Requirements -> RequirementRecord]
  <2>1. [status |-> Absent, areas |-> {}, from |-> {}] \in RequirementRecord
    BY DEF RequirementRecord
  <2> QED BY <2>1
<1>2. asm \in [Assumptions -> AssumptionRecord] /\ dec \in [Decisions -> DecisionRecord]
  BY DEF AssumptionRecord, DecisionRecord
<1>3. unk \in [Unknowns -> UnknownRecord]
  BY DEF UnknownRecord, Owners, Routes
<1> QED BY <1>1, <1>2, <1>3 DEF TypeOK

LEMMA TypeNext == TypeOK /\ [Next]_vars => TypeOK'
<1> SUFFICES ASSUME TypeOK, [Next]_vars PROVE TypeOK' OBVIOUS
<1> USE DEF TypeOK
<1>1. CASE RequirementStep
  <2>1. PICK r \in Requirements :
          \/ \E areas \in SUBSET Areas, from \in Links :
               CreateRequirement(r, areas, from) \/ ReviseRequirement(r, areas, from)
          \/ ConfirmRequirement(r) \/ RejectRequirement(r) \/ SupersedeRequirement(r)
    BY <1>1 DEF RequirementStep
  <2> USE DEF OnlyReq, RequirementRecord, RequirementStatus
  <2>2. CASE \E areas \in SUBSET Areas, from \in Links : CreateRequirement(r, areas, from)
    BY <2>2 DEF CreateRequirement
  <2>3. CASE \E areas \in SUBSET Areas, from \in Links : ReviseRequirement(r, areas, from)
    <3>1. PICK areas \in SUBSET Areas, from \in Links : ReviseRequirement(r, areas, from)
      BY <2>3
    <3>2. [[req[r] EXCEPT !.areas = areas] EXCEPT !.from = from] \in RequirementRecord
      <4>1. req[r] \in RequirementRecord /\ from \in SUBSET Sources
        OBVIOUS
      <4> QED BY <4>1
    <3>3. req' = [req EXCEPT ![r] = [[req[r] EXCEPT !.areas = areas] EXCEPT !.from = from]]
      BY <3>1 DEF ReviseRequirement
    <3> QED BY <3>1, <3>2, <3>3 DEF ReviseRequirement
  <2>4. CASE ConfirmRequirement(r)
    BY <2>4 DEF ConfirmRequirement
  <2>5. CASE RejectRequirement(r) \/ SupersedeRequirement(r)
    BY <2>5 DEF RejectRequirement, SupersedeRequirement
  <2> QED BY <2>1, <2>2, <2>3, <2>4, <2>5
<1>2. CASE AssumptionStep
  <2> USE DEF OnlyAsm, AssumptionRecord, AssumptionStatus, RequirementStatus
  <2>1. PICK a \in Assumptions :
          \/ \E impact \in {"HIGH", "LOWER"} :
               CreateAssumption(a, impact) \/ ModifyAssumption(a, impact)
          \/ \E to \in {"CONFIRMED", "REJECTED", "SUPERSEDED"} : MoveAssumption(a, to)
    BY <1>2 DEF AssumptionStep
  <2> QED BY <2>1 DEF CreateAssumption, ModifyAssumption, MoveAssumption
<1>3. CASE DecisionStep
  BY <1>3 DEF DecisionStep, OpenDecision, MoveDecision, OnlyDec, DecisionRecord, DecisionStatus
<1>4. CASE UnknownStep
  <2> USE DEF OnlyUnk, UnknownRecord, UnknownStatus
  <2>1. PICK u \in Unknowns :
          \/ \E area \in Areas, blocking \in BOOLEAN, owner \in Owners, route \in Routes :
               \/ RecordUnknown(u, area, blocking, owner, route)
               \/ ClassifyUnknown(u, area, blocking, owner, route)
          \/ ResolveUnknown(u)
          \/ \E to \in Ids : ConvertUnknown(u, to)
    BY <1>4 DEF UnknownStep
  <2>2. CASE \E area \in Areas, blocking \in BOOLEAN, owner \in Owners, route \in Routes :
               RecordUnknown(u, area, blocking, owner, route)
    BY <2>2 DEF RecordUnknown
  <2>3. CASE \E area \in Areas, blocking \in BOOLEAN, owner \in Owners, route \in Routes :
               ClassifyUnknown(u, area, blocking, owner, route)
    <3>1. PICK area \in Areas, blocking \in BOOLEAN, owner \in Owners, route \in Routes :
            ClassifyUnknown(u, area, blocking, owner, route)
      BY <2>3
    <3> DEFINE new == [[[[unk[u] EXCEPT !.area = area] EXCEPT !.blocking = blocking]
                       EXCEPT !.owner = owner] EXCEPT !.route = route]
    <3>2. new \in UnknownRecord
      <4>1. unk[u] \in UnknownRecord
        OBVIOUS
      <4> QED BY <4>1
    <3>3. unk' = [unk EXCEPT ![u] = new]
      BY <3>1 DEF ClassifyUnknown
    <3>4. OnlyUnk
      BY <3>1 DEF ClassifyUnknown
    <3> HIDE DEF new
    <3>5. unk' \in [Unknowns -> UnknownRecord]
      BY <3>2, <3>3
    <3> QED BY <3>4, <3>5
  <2>4. CASE ResolveUnknown(u)
    BY <2>4 DEF ResolveUnknown
  <2>5. CASE \E to \in Ids : ConvertUnknown(u, to)
    <3>1. PICK to \in Ids : ConvertUnknown(u, to)
      BY <2>5
    <3> DEFINE new == [[unk[u] EXCEPT !.status = "CONVERTED"] EXCEPT !.to = to]
    <3>2. new \in UnknownRecord
      <4>1. unk[u] \in UnknownRecord
        OBVIOUS
      <4> QED BY <4>1
    <3>3. unk' = [unk EXCEPT ![u] = new]
      BY <3>1 DEF ConvertUnknown
    <3>4. OnlyUnk
      BY <3>1 DEF ConvertUnknown
    <3> HIDE DEF new
    <3>5. unk' \in [Unknowns -> UnknownRecord]
      BY <3>2, <3>3
    <3> QED BY <3>4, <3>5
  <2> QED BY <2>1, <2>2, <2>3, <2>4, <2>5
<1>5. CASE MetaStep
  BY <1>5 DEF MetaStep, RecordAnswer, Adjudicate, ApproveReview
<1>6. CASE UNCHANGED vars
  BY <1>6 DEF vars
<1> QED BY <1>1, <1>2, <1>3, <1>4, <1>5, <1>6 DEF Next

(* Every entity keeps its shape and a status of its own table.              *)
THEOREM EntityTypeCorrect == Spec => []TypeOK
<1>1. Init => TypeOK
  BY TypeInit
<1>2. TypeOK /\ [Next]_vars => TypeOK'
  BY TypeNext
<1> QED BY <1>1, <1>2, PTL DEF Spec

(* Every unknown that was recorded has an area.                             *)
LEMMA AreasNext == TypeOK /\ AreasAreGiven /\ [Next]_vars => AreasAreGiven'
<1> SUFFICES ASSUME TypeOK, AreasAreGiven, [Next]_vars PROVE AreasAreGiven' OBVIOUS
<1> USE DEF AreasAreGiven, TypeOK, UnknownRecord
<1>1. CASE unk' = unk
  BY <1>1
<1>2. CASE UnknownStep
  <2>1. PICK u \in Unknowns :
          \/ \E area \in Areas, blocking \in BOOLEAN, owner \in Owners, route \in Routes :
               \/ RecordUnknown(u, area, blocking, owner, route)
               \/ ClassifyUnknown(u, area, blocking, owner, route)
          \/ ResolveUnknown(u)
          \/ \E to \in Ids : ConvertUnknown(u, to)
    BY <1>2 DEF UnknownStep
  <2>2. CASE \E area \in Areas, blocking \in BOOLEAN, owner \in Owners, route \in Routes :
               RecordUnknown(u, area, blocking, owner, route)
    BY <2>2 DEF RecordUnknown
  <2>3. CASE \E area \in Areas, blocking \in BOOLEAN, owner \in Owners, route \in Routes :
               ClassifyUnknown(u, area, blocking, owner, route)
    BY <2>3 DEF ClassifyUnknown
  <2>4. CASE ResolveUnknown(u) \/ \E to \in Ids : ConvertUnknown(u, to)
    BY <2>4 DEF ResolveUnknown, ConvertUnknown, CanMove
  <2> QED BY <2>1, <2>2, <2>3, <2>4
<1>3. CASE RequirementStep \/ AssumptionStep \/ DecisionStep \/ MetaStep \/ UNCHANGED vars
  <2>1. unk' = unk
    BY <1>3 DEF RequirementStep, CreateRequirement, ReviseRequirement, ConfirmRequirement,
       RejectRequirement, SupersedeRequirement, OnlyReq, AssumptionStep, CreateAssumption,
       ModifyAssumption, MoveAssumption, OnlyAsm, DecisionStep, OpenDecision, MoveDecision,
       OnlyDec, MetaStep, RecordAnswer, Adjudicate, ApproveReview, vars
  <2> QED BY <2>1
<1> QED BY <1>1, <1>2, <1>3 DEF Next

LEMMA AreasAlwaysGiven == Spec => []AreasAreGiven
<1>1. Init => AreasAreGiven
  BY DEF Init, AreasAreGiven
<1> QED BY <1>1, AreasNext, EntityTypeCorrect, PTL DEF Spec

(* The gate, the board and the digest differ only in what was superseded,   *)
(* what somebody outside has to answer, and what does not block.            *)
THEOREM ViewsAlwaysAgree == Spec => []ViewsAgree
<1>1. TypeOK /\ AreasAreGiven => ViewsAgree
  <2> SUFFICES ASSUME TypeOK, AreasAreGiven PROVE ViewsAgree OBVIOUS
  <2> USE DEF TypeOK, AssumptionRecord, AssumptionStatus, RequirementStatus, DecisionRecord,
              DecisionStatus, UnknownRecord, UnknownStatus, Absent
  <2>1. ASSUME NEW i \in EntityBlockers \ (OpenItems \cap InDigestInFull)
        PROVE  \/ i \in Assumptions /\ asm[i].status = "SUPERSEDED"
               \/ i \in Decisions /\ dec[i].status = "SUPERSEDED"
    <3> USE <2>1 DEF OpenItems, InDigestInFull
    <3>1. CASE i \in BlockingUnknowns
      BY <3>1 DEF BlockingUnknowns
    <3>2. CASE i \in UnconfirmedHigh
      BY <3>2 DEF UnconfirmedHigh, ProposedHigh
    <3>3. CASE i \in UndecidedBlocking
      BY <3>3 DEF UndecidedBlocking, LiveDecisions
    <3> QED BY <3>1, <3>2, <3>3 DEF EntityBlockers
  <2>2. InDigestInFull \subseteq OpenItems
    BY DEF InDigestInFull, OpenItems
  <2>3. ASSUME NEW i \in OpenItems \ EntityBlockers
        PROVE  \/ i \in Unknowns /\ (unk[i].owner = "external" \/ ~unk[i].blocking)
               \/ i \in Decisions /\ ~dec[i].blocking
    <3> USE <2>3 DEF EntityBlockers
    <3>1. CASE i \in OpenBlockingUnknowns(Areas)
      BY <3>1 DEF OpenBlockingUnknowns, BlockingUnknowns
    <3>2. CASE i \in ProposedHigh
      BY <3>2 DEF ProposedHigh, UnconfirmedHigh
    <3>3. CASE i \in LiveDecisions
      BY <3>3 DEF LiveDecisions, UndecidedBlocking
    <3>4. CASE i \in Unknowns /\ unk[i].status = "OPEN"
      <4>1. unk[i].area \in Areas
        BY <3>4 DEF AreasAreGiven
      <4> QED BY <3>4, <4>1 DEF OpenBlockingUnknowns, BlockingUnknowns
    <3> QED BY <3>1, <3>2, <3>3, <3>4 DEF OpenItems
  <2>4. InLedgerCounts \subseteq OpenItems
    <3> SUFFICES ASSUME NEW i \in InLedgerCounts PROVE i \in OpenItems OBVIOUS
    <3>1. CASE i \in ProposedHigh
      BY <3>1 DEF OpenItems
    <3>2. CASE i \in Decisions /\ dec[i].status = "OPEN"
      BY <3>2 DEF OpenItems, LiveDecisions
    <3>3. CASE i \in Unknowns /\ unk[i].status = "OPEN" /\ unk[i].blocking
      <4>1. unk[i].area \in Areas
        BY <3>3 DEF AreasAreGiven
      <4> QED BY <3>3, <4>1 DEF OpenItems, OpenBlockingUnknowns
    <3>4. CASE i \in Unknowns /\ unk[i].status = "OPEN" /\ unk[i].route = "RESEARCH"
      BY <3>4 DEF OpenItems
    <3> QED BY <3>1, <3>2, <3>3, <3>4 DEF InLedgerCounts
  <2>5. ASSUME NEW i \in OpenItems \ InLedgerCounts
        PROVE  i \in Decisions /\ (dec[i].status = "DECIDE_LATER" \/ ~dec[i].blocking)
    <3> USE <2>5 DEF InLedgerCounts
    <3>1. CASE i \in OpenBlockingUnknowns(Areas)
      BY <3>1 DEF OpenBlockingUnknowns
    <3>2. CASE i \in LiveDecisions
      BY <3>2 DEF LiveDecisions
    <3>3. CASE i \in ProposedHigh \/ (i \in Unknowns /\ unk[i].status = "OPEN"
                                                    /\ unk[i].route = "RESEARCH")
      BY <3>3
    <3> QED BY <3>1, <3>2, <3>3 DEF OpenItems
  <2> QED BY <2>1, <2>2, <2>3, <2>4, <2>5 DEF ViewsAgree
<1> QED BY <1>1, EntityTypeCorrect, AreasAlwaysGiven, PTL

-----------------------------------------------------------------------------
(* What a step may do to one requirement; every other one, and its areas    *)
(* once it left PROPOSED, stays.                                            *)
Moved(r) ==
  \/ req[r].status = Absent /\ req'[r].status = "PROPOSED"
  \/ req[r].status = "PROPOSED" /\ req'[r].status = "PROPOSED"
  \/ /\ req'[r].areas = req[r].areas
     /\ \/ /\ req[r].status \in {"PROPOSED", "CONFIRMED"} /\ req'[r].status = "CONFIRMED"
           /\ OpenBlockingUnknowns(req[r].areas) = {}
        \/ req[r].status \in {"PROPOSED", "REJECTED"} /\ req'[r].status = "REJECTED"
        \/ req[r].status # Absent /\ req'[r].status = "SUPERSEDED"

LEMMA RequirementMoved ==
  ASSUME TypeOK, RequirementStep
  PROVE  /\ OnlyReq
         /\ \E r \in Requirements : Moved(r) /\ \A q \in Requirements \ {r} : req'[q] = req[q]
<1>1. PICK r \in Requirements :
        \/ \E areas \in SUBSET Areas, from \in Links :
             CreateRequirement(r, areas, from) \/ ReviseRequirement(r, areas, from)
        \/ ConfirmRequirement(r) \/ RejectRequirement(r) \/ SupersedeRequirement(r)
  BY DEF RequirementStep
<1>2. req \in [Requirements -> RequirementRecord] /\ req[r] \in RequirementRecord
  BY DEF TypeOK
<1> USE DEF RequirementRecord, RequirementStatus, RequirementMoves, CanMove, EditableFrom, Absent
<1>3. OnlyReq /\ \A q \in Requirements \ {r} : req'[q] = req[q]
  BY <1>1, <1>2 DEF CreateRequirement, ReviseRequirement, ConfirmRequirement, RejectRequirement,
                    SupersedeRequirement
<1>4. Moved(r)
  <2>1. CASE \E areas \in SUBSET Areas, from \in Links : CreateRequirement(r, areas, from)
    BY <2>1, <1>2 DEF CreateRequirement, Moved
  <2>2. CASE \E areas \in SUBSET Areas, from \in Links : ReviseRequirement(r, areas, from)
    BY <2>2, <1>2 DEF ReviseRequirement, Moved
  <2>3. CASE ConfirmRequirement(r)
    BY <2>3, <1>2 DEF ConfirmRequirement, Moved
  <2>4. CASE RejectRequirement(r) \/ SupersedeRequirement(r)
    BY <2>4, <1>2 DEF RejectRequirement, SupersedeRequirement, Moved
  <2> QED BY <1>1, <2>1, <2>2, <2>3, <2>4
<1> QED BY <1>3, <1>4

(* A step about unknowns leaves everything else.                            *)
LEMMA OnlyUnknowns ==
  ASSUME UnknownStep
  PROVE  OnlyUnk
<1>1. PICK u \in Unknowns :
        \/ \E area \in Areas, blocking \in BOOLEAN, owner \in Owners, route \in Routes :
             \/ RecordUnknown(u, area, blocking, owner, route)
             \/ ClassifyUnknown(u, area, blocking, owner, route)
        \/ ResolveUnknown(u)
        \/ \E to \in Ids : ConvertUnknown(u, to)
  BY DEF UnknownStep
<1>2. CASE \E area \in Areas, blocking \in BOOLEAN, owner \in Owners, route \in Routes :
             RecordUnknown(u, area, blocking, owner, route)
  BY <1>2 DEF RecordUnknown
<1>3. CASE \E area \in Areas, blocking \in BOOLEAN, owner \in Owners, route \in Routes :
             ClassifyUnknown(u, area, blocking, owner, route)
  BY <1>3 DEF ClassifyUnknown
<1>4. CASE ResolveUnknown(u) \/ \E to \in Ids : ConvertUnknown(u, to)
  BY <1>4 DEF ResolveUnknown, ConvertUnknown
<1> QED BY <1>1, <1>2, <1>3, <1>4

(* The steps that are not about requirements leave them.                    *)
LEMMA OthersKeepRequirements ==
  ASSUME AssumptionStep \/ DecisionStep \/ UnknownStep \/ MetaStep \/ UNCHANGED vars
  PROVE  req' = req
BY OnlyUnknowns
   DEF AssumptionStep, CreateAssumption, ModifyAssumption, MoveAssumption, OnlyAsm,
       DecisionStep, OpenDecision, MoveDecision, OnlyDec, OnlyUnk,
       MetaStep, RecordAnswer, Adjudicate, ApproveReview, vars

(* An area is lost only with a requirement that is superseded.              *)
THEOREM CoverageIsKept == Spec => CoverageKept
<1>1. TypeOK /\ [Next]_vars =>
        [\A c \in Sufficient \ Sufficient' : \E r \in Requirements :
           c \in req[r].areas /\ req[r].status = "CONFIRMED" /\ req'[r].status = "SUPERSEDED" ]_vars
  <2> SUFFICES ASSUME TypeOK, [Next]_vars, NEW c \in Sufficient \ Sufficient'
               PROVE  \E r \in Requirements : /\ c \in req[r].areas /\ req[r].status = "CONFIRMED"
                                              /\ req'[r].status = "SUPERSEDED"
    OBVIOUS
  <2>1. CASE RequirementStep
    <3>1. PICK r \in Requirements : Moved(r) /\ \A q \in Requirements \ {r} : req'[q] = req[q]
      BY <2>1, RequirementMoved
    <3>2. PICK q \in Requirements : req[q].status = "CONFIRMED" /\ c \in req[q].areas
      BY DEF Sufficient
    <3>3. ~(req'[q].status = "CONFIRMED" /\ c \in req'[q].areas)
      BY DEF Sufficient
    <3> QED BY <3>1, <3>2, <3>3 DEF Moved, Absent
  <2>2. CASE AssumptionStep \/ DecisionStep \/ UnknownStep \/ MetaStep \/ UNCHANGED vars
    BY <2>2, OthersKeepRequirements DEF Sufficient
  <2> QED BY <2>1, <2>2 DEF Next
<1> QED BY <1>1, EntityTypeCorrect, PTL DEF Spec, CoverageKept

(* No area becomes SUFFICIENT while an unknown blocks it.                   *)
THEOREM CoverageIsUnblocked == Spec => CoverageGrowsUnblocked
<1>1. TypeOK /\ [Next]_vars =>
        [\A c \in Sufficient' \ Sufficient : OpenBlockingUnknowns({c}) = {} ]_vars
  <2> SUFFICES ASSUME TypeOK, [Next]_vars, NEW c \in Sufficient' \ Sufficient
               PROVE  OpenBlockingUnknowns({c}) = {}
    OBVIOUS
  <2>1. CASE RequirementStep
    <3>1. PICK r \in Requirements : Moved(r) /\ \A q \in Requirements \ {r} : req'[q] = req[q]
      BY <2>1, RequirementMoved
    <3>2. PICK q \in Requirements : req'[q].status = "CONFIRMED" /\ c \in req'[q].areas
      BY DEF Sufficient
    <3>3. ~(req[q].status = "CONFIRMED" /\ c \in req[q].areas)
      BY DEF Sufficient
    <3>4. q = r /\ c \in req[r].areas /\ OpenBlockingUnknowns(req[r].areas) = {}
      BY <3>1, <3>2, <3>3 DEF Moved
    <3> QED BY <3>4 DEF OpenBlockingUnknowns
  <2>2. CASE AssumptionStep \/ DecisionStep \/ UnknownStep \/ MetaStep \/ UNCHANGED vars
    BY <2>2, OthersKeepRequirements DEF Sufficient
  <2> QED BY <2>1, <2>2 DEF Next
<1> QED BY <1>1, EntityTypeCorrect, PTL DEF Spec, CoverageGrowsUnblocked

-----------------------------------------------------------------------------
(* A step about unknowns: one is created OPEN, or was OPEN, or is saved     *)
(* again with the status it has.                                            *)
LEMMA UnknownMoved ==
  ASSUME TypeOK, UnknownStep
  PROVE  /\ OnlyUnk
         /\ \A u \in Unknowns : \/ unk'[u] = unk[u]
                                \/ unk'[u].status = "OPEN" /\ unk[u].status \in {Absent, "OPEN"}
                                \/ unk'[u].status \in {"RESOLVED", "CONVERTED"}
<1>1. PICK v \in Unknowns :
        \/ \E area \in Areas, blocking \in BOOLEAN, owner \in Owners, route \in Routes :
             \/ RecordUnknown(v, area, blocking, owner, route)
             \/ ClassifyUnknown(v, area, blocking, owner, route)
        \/ ResolveUnknown(v)
        \/ \E to \in Ids : ConvertUnknown(v, to)
  BY DEF UnknownStep
<1>2. unk \in [Unknowns -> UnknownRecord] /\ unk[v] \in UnknownRecord
  BY DEF TypeOK
<1> USE <1>2 DEF UnknownRecord
<1>3. CASE \E area \in Areas, blocking \in BOOLEAN, owner \in Owners, route \in Routes :
             RecordUnknown(v, area, blocking, owner, route)
  BY <1>3 DEF RecordUnknown
<1>4. CASE \E area \in Areas, blocking \in BOOLEAN, owner \in Owners, route \in Routes :
             ClassifyUnknown(v, area, blocking, owner, route)
  BY <1>4 DEF ClassifyUnknown
<1>5. CASE ResolveUnknown(v)
  BY <1>5 DEF ResolveUnknown
<1>6. CASE \E to \in Ids : ConvertUnknown(v, to)
  BY <1>6 DEF ConvertUnknown
<1> QED BY <1>1, <1>3, <1>4, <1>5, <1>6

(* What is there stays there.                                               *)
LEMMA ExistingGrows ==
  ASSUME TypeOK, [Next]_vars
  PROVE  Existing \subseteq Existing'
<1> USE DEF TypeOK, Existing
<1>1. CASE RequirementStep
  <2>1. PICK r \in Requirements : Moved(r) /\ \A q \in Requirements \ {r} : req'[q] = req[q]
    BY <1>1, RequirementMoved
  <2>2. \A q \in Requirements : req[q].status # Absent => req'[q].status # Absent
    BY <2>1 DEF Moved, Absent
  <2>3. OnlyReq
    BY <1>1, RequirementMoved
  <2> QED BY <2>2, <2>3 DEF OnlyReq
<1>2. CASE AssumptionStep
  <2>1. OnlyAsm /\ \A a \in Assumptions : asm[a].status # Absent => asm'[a].status # Absent
    BY <1>2 DEF AssumptionStep, CreateAssumption, ModifyAssumption, MoveAssumption,
                OnlyAsm, AssumptionRecord, Absent
  <2> QED BY <2>1 DEF OnlyAsm
<1>3. CASE DecisionStep
  <2>1. OnlyDec /\ \A d \in Decisions : dec[d].status # Absent => dec'[d].status # Absent
    BY <1>3 DEF DecisionStep, OpenDecision, MoveDecision, OnlyDec, DecisionRecord, Absent
  <2> QED BY <2>1 DEF OnlyDec
<1>4. CASE UnknownStep
  <2>1. OnlyUnk /\ \A u \in Unknowns : unk[u].status # Absent => unk'[u].status # Absent
    BY <1>4, UnknownMoved DEF Absent
  <2> QED BY <2>1 DEF OnlyUnk
<1>5. CASE MetaStep \/ UNCHANGED vars
  BY <1>5 DEF MetaStep, RecordAnswer, Adjudicate, ApproveReview, vars
<1> QED BY <1>1, <1>2, <1>3, <1>4, <1>5 DEF Next

(* A CONVERTED unknown points to an entity that is there; no other points   *)
(* anywhere.                                                                *)
THEOREM ConversionsAlwaysHold == Spec => []ConversionsHold
<1>1. Init => ConversionsHold
  BY DEF Init, ConversionsHold, Absent
<1>2. TypeOK /\ ConversionsHold /\ [Next]_vars => ConversionsHold'
  <2> SUFFICES ASSUME TypeOK, ConversionsHold, [Next]_vars, NEW u \in Unknowns
               PROVE  IF unk'[u].status = "CONVERTED" THEN unk'[u].to \in Existing'
                                                      ELSE unk'[u].to = None
    BY DEF ConversionsHold
  <2>1. IF unk[u].status = "CONVERTED" THEN unk[u].to \in Existing ELSE unk[u].to = None
    BY DEF ConversionsHold
  <2>2. Existing \subseteq Existing'
    BY ExistingGrows
  <2>3. CASE unk'[u] = unk[u]
    BY <2>1, <2>2, <2>3
  <2>4. CASE unk'[u] # unk[u]
    <3>1. UnknownStep
      BY <2>4, RequirementMoved DEF Next, OnlyReq, vars, AssumptionStep, CreateAssumption, ModifyAssumption,
         MoveAssumption, OnlyAsm, DecisionStep, OpenDecision, MoveDecision, OnlyDec,
         MetaStep, RecordAnswer, Adjudicate, ApproveReview
    <3> USE <2>4 DEF TypeOK, UnknownRecord, CanMove, UnknownMoves, Absent
    <3>2. PICK v \in Unknowns :
            \/ \E area \in Areas, blocking \in BOOLEAN, owner \in Owners, route \in Routes :
                 \/ RecordUnknown(v, area, blocking, owner, route)
                 \/ ClassifyUnknown(v, area, blocking, owner, route)
            \/ ResolveUnknown(v)
            \/ \E to \in Ids : ConvertUnknown(v, to)
      BY <3>1 DEF UnknownStep
    <3>3. CASE \E area \in Areas, blocking \in BOOLEAN, owner \in Owners, route \in Routes :
                 RecordUnknown(v, area, blocking, owner, route)
      BY <3>3 DEF RecordUnknown
    <3>4. CASE \E area \in Areas, blocking \in BOOLEAN, owner \in Owners, route \in Routes :
                 ClassifyUnknown(v, area, blocking, owner, route)
      BY <3>4, <2>1 DEF ClassifyUnknown
    <3>5. CASE ResolveUnknown(v)
      BY <3>5, <2>1 DEF ResolveUnknown
    <3>6. CASE \E to \in Ids : ConvertUnknown(v, to)
      BY <3>6, <2>1, <2>2 DEF ConvertUnknown
    <3> QED BY <3>2, <3>3, <3>4, <3>5, <3>6
  <2> QED BY <2>3, <2>4
<1> QED BY <1>1, <1>2, EntityTypeCorrect, PTL DEF Spec

(* Once the gate is open, only something new, more severe or superseded     *)
(* closes it.                                                               *)
THEOREM SettlingIsSafe == Spec => SettlingKeepsReady
<1>1. TypeOK /\ [Next]_vars => [ Ready /\ ~Ready' => Created \/ Raised \/ Superseded ]_vars
  <2> SUFFICES ASSUME TypeOK, [Next]_vars, Ready, ~Created, ~Raised, ~Superseded PROVE Ready'
    OBVIOUS
  <2> USE DEF TypeOK
  <2>1. CASE RequirementStep
    <3>1. PICK r \in Requirements : Moved(r) /\ \A q \in Requirements \ {r} : req'[q] = req[q]
      BY <2>1, RequirementMoved
    <3>2. OnlyReq
      BY <2>1, RequirementMoved
    <3>3. Critical \subseteq Sufficient'
      <4> SUFFICES ASSUME NEW c \in Critical PROVE c \in Sufficient'
        OBVIOUS
      <4>1. PICK q \in Requirements : req[q].status = "CONFIRMED" /\ c \in req[q].areas
        BY DEF Ready, UncoveredAreas, Sufficient
      <4>2. req'[q].status = "CONFIRMED" /\ c \in req'[q].areas
        BY <3>1, <4>1 DEF Moved, Superseded, Absent
      <4> QED BY <4>2 DEF Sufficient
    <3>4. BareAreas' = {}
      BY <3>3 DEF BareAreas, Sufficient, Absent
    <3>5. BlockingUnknowns' = {} /\ UnconfirmedHigh' = {} /\ UndecidedBlocking' = {}
      BY <3>2 DEF OnlyReq, Ready, BlockingUnknowns, OpenBlockingUnknowns, UnconfirmedHigh, UndecidedBlocking
    <3> QED BY <3>2, <3>3, <3>4, <3>5 DEF Ready, UncoveredAreas, OnlyReq
  <2>2. CASE AssumptionStep
    <3>1. OnlyAsm
      BY <2>2 DEF AssumptionStep, CreateAssumption, ModifyAssumption, MoveAssumption
    <3>2. ASSUME NEW a \in Assumptions, asm'[a].impact = "HIGH",
                 asm'[a].status \notin {"CONFIRMED", "REJECTED", Absent}
          PROVE  FALSE
      <4>1. asm[a].impact # "HIGH" \/ asm[a].status \in {"CONFIRMED", "REJECTED", Absent}
        BY DEF Ready, UnconfirmedHigh
      <4>2. asm[a].status # Absent
        BY <3>2 DEF Created
      <4>3. asm[a].impact = "HIGH"
        BY <3>2 DEF Raised, AssumptionRecord
      <4>4. asm[a].status \in {"CONFIRMED", "REJECTED"}
        BY <4>1, <4>2, <4>3
      <4>5. ~(asm[a].status = "CONFIRMED" /\ asm'[a].status = "SUPERSEDED")
        BY DEF Superseded
      <4>6. asm'[a] # asm[a]
        BY <3>2, <4>4
      <4>7. PICK b \in Assumptions :
              \/ \E impact \in {"HIGH", "LOWER"} : CreateAssumption(b, impact) \/ ModifyAssumption(b, impact)
              \/ \E to \in {"CONFIRMED", "REJECTED", "SUPERSEDED"} : MoveAssumption(b, to)
        BY <2>2 DEF AssumptionStep
      <4>8. b = a
        BY <4>6, <4>7 DEF CreateAssumption, ModifyAssumption, MoveAssumption
      <4>9. ~(\E impact \in {"HIGH", "LOWER"} : CreateAssumption(a, impact) \/ ModifyAssumption(a, impact))
        BY <4>4 DEF CreateAssumption, ModifyAssumption, EditableFrom, Absent
      <4>10. PICK to \in {"CONFIRMED", "REJECTED", "SUPERSEDED"} : MoveAssumption(a, to)
        BY <4>7, <4>8, <4>9
      <4>11. asm'[a].status = to
        BY <4>10 DEF MoveAssumption, AssumptionRecord
      <4> QED BY <3>2, <4>4, <4>5, <4>10, <4>11 DEF MoveAssumption, CanMove, AssumptionMoves,
                 RequirementMoves
    <3>3. UnconfirmedHigh' = {}
      BY <3>2 DEF UnconfirmedHigh
    <3> QED BY <3>1, <3>3 DEF OnlyAsm, Ready, UncoveredAreas, Sufficient, BlockingUnknowns,
            OpenBlockingUnknowns, UndecidedBlocking, BareAreas
  <2>3. CASE DecisionStep
    <3>1. OnlyDec
      BY <2>3 DEF DecisionStep, OpenDecision, MoveDecision
    <3>2. ASSUME NEW d \in Decisions, dec'[d].blocking, dec'[d].status \notin {"DECIDED", Absent}
          PROVE  FALSE
      <4>1. ~dec[d].blocking \/ dec[d].status \in {"DECIDED", Absent}
        BY DEF Ready, UndecidedBlocking
      <4>2. dec[d].status # Absent
        BY <3>2 DEF Created
      <4>3. ~(dec[d].status = "DECIDED" /\ dec'[d].status = "SUPERSEDED")
        BY DEF Superseded
      <4>4. dec'[d].blocking = dec[d].blocking
        BY <2>3, <4>2 DEF DecisionStep, OpenDecision, MoveDecision, DecisionRecord
      <4>5. dec[d].status = "DECIDED"
        BY <3>2, <4>1, <4>2, <4>4
      <4>6. PICK e \in Decisions :
              \/ \E blocking \in BOOLEAN : OpenDecision(e, blocking)
              \/ \E to \in {"DECIDE_LATER", "DECIDED", "SUPERSEDED"} : MoveDecision(e, to)
        BY <2>3 DEF DecisionStep
      <4>7. e = d
        BY <3>2, <4>5, <4>6 DEF OpenDecision, MoveDecision
      <4>8. PICK to \in {"DECIDE_LATER", "DECIDED", "SUPERSEDED"} : MoveDecision(d, to)
        BY <4>5, <4>6, <4>7 DEF OpenDecision, Absent
      <4>9. dec'[d].status = to
        BY <4>8 DEF MoveDecision, DecisionRecord
      <4> QED BY <3>2, <4>5, <4>3, <4>8, <4>9 DEF MoveDecision, CanMove, DecisionMoves
    <3>3. UndecidedBlocking' = {}
      BY <3>2 DEF UndecidedBlocking
    <3> QED BY <3>1, <3>3 DEF OnlyDec, Ready, UncoveredAreas, Sufficient, BlockingUnknowns,
            OpenBlockingUnknowns, UnconfirmedHigh, BareAreas
  <2>4. CASE UnknownStep
    <3>1. OnlyUnk
      BY <2>4, OnlyUnknowns
    <3>2. ASSUME NEW u \in Unknowns, unk'[u].status = "OPEN"
          PROVE  unk'[u] = unk[u]
      <4>1. unk[u].status # Absent
        BY <3>2 DEF Created, Absent
      <4>2. unk[u].status = "OPEN"
        BY <2>4, <3>2, <4>1, UnknownMoved
      <4> QED BY <3>2, <4>2 DEF Raised
    <3>3. BlockingUnknowns' = {}
      BY <3>1, <3>2 DEF BlockingUnknowns, OpenBlockingUnknowns, Ready
    <3> QED BY <3>1, <3>3 DEF OnlyUnk, Ready, UncoveredAreas, Sufficient, UndecidedBlocking,
            UnconfirmedHigh, BareAreas
  <2>5. CASE MetaStep \/ UNCHANGED vars
    <3>1. UNCHANGED <<req, asm, dec, unk>> /\ conflicts' = {} /\ approved'
      BY <2>5 DEF MetaStep, RecordAnswer, Adjudicate, ApproveReview, Raised, Ready, vars
    <3> QED BY <3>1 DEF Ready, UncoveredAreas, Sufficient, BlockingUnknowns, OpenBlockingUnknowns,
            UndecidedBlocking, UnconfirmedHigh, BareAreas
  <2> QED BY <2>1, <2>2, <2>3, <2>4, <2>5 DEF Next
<1> QED BY <1>1, EntityTypeCorrect, PTL DEF Spec, SettlingKeepsReady

=============================================================================
