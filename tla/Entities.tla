------------------------------- MODULE Entities -------------------------------
(***************************************************************************)
(* The planning entities and the gate over them: the writers of            *)
(* ppa/tools/discovery_tools.py (manage_requirement, manage_assumption,    *)
(* manage_decision, manage_unknown, manage_conflict), the status table of  *)
(* ppa/ledger/transitions.py, and what reads the entities: coverage,       *)
(* readiness, open items, the digest every agent is given, the             *)
(* questionnaire for the client.                                           *)
(*                                                                         *)
(* A writer reads the entities, checks, and appends one event without      *)
(* leaving the event loop, so a successful call is one step here           *)
(* (LedgerStore shows that the append is atomic); a call that fails a      *)
(* check writes nothing.  Text fields are left out; MEDIUM and LOW impact  *)
(* are one value, and so are the owners other than "external", because no  *)
(* reader tells them apart.                                                *)
(***************************************************************************)
CONSTANTS
  Requirements, Assumptions, Decisions, Unknowns,   \* ids: REQ-, ASM-, DEC-, UNK-
  Answers,       \* ids Q-nnn and ANS-nnn that ask_user may record
  AreaKeys,      \* the keys of config/areas.py
  Critical,      \* those that matter for the project's profile
  StrayAreas,    \* other strings given as an area
  Links,         \* provenance sets that a call may give
  Pairs,         \* <<subject, candidate>> pairs of conflict candidates
  None

Ids == Requirements \cup Assumptions \cup Decisions \cup Unknowns \cup Answers
Areas == AreaKeys \cup StrayAreas
Sources == Answers \cup Assumptions \cup Decisions

ASSUME EntityAssumption ==
  /\ Critical \subseteq AreaKeys
  /\ Links \subseteq SUBSET Sources
  /\ None \notin Ids \cup Areas
  /\ Requirements \cap (Sources \cup Unknowns) = {}
  /\ Unknowns \cap Sources = {}
  /\ Assumptions \cap (Answers \cup Decisions) = {} /\ Answers \cap Decisions = {}

VARIABLES
  req,       \* requirement -> status, covers_areas, the three provenance fields
  asm,       \* assumption -> status, impact
  dec,       \* decision -> status, blocking
  unk,       \* unknown -> status, area, blocking, owner_type, route, converted_to
  answers,   \* those recorded so far
  conflicts, \* pairs whose last adjudication is an unresolved contradiction
  approved   \* a review.approved event is in the log

vars == <<req, asm, dec, unk, answers, conflicts, approved>>

-----------------------------------------------------------------------------
(* ledger/models.py and ledger/transitions.py.  ABSENT: not created yet.   *)

Absent == "ABSENT"
RequirementStatus == {"PROPOSED", "CONFIRMED", "REJECTED", "SUPERSEDED"}
AssumptionStatus == RequirementStatus
DecisionStatus == {"OPEN", "DECIDE_LATER", "DECIDED", "SUPERSEDED"}
UnknownStatus == {"OPEN", "RESOLVED", "CONVERTED"}

(* The values of owner_type and of route that a reader tells apart.         *)
Owners == {"external", "other"}
Routes == {"RESEARCH", "GUIDANCE", "other"}

RequirementRecord == [status : RequirementStatus \cup {Absent},
                      areas : SUBSET Areas, from : SUBSET Sources]
AssumptionRecord == [status : AssumptionStatus \cup {Absent}, impact : {"HIGH", "LOWER"}]
DecisionRecord == [status : DecisionStatus \cup {Absent}, blocking : BOOLEAN]
UnknownRecord == [status : UnknownStatus \cup {Absent}, area : Areas \cup {None},
                  blocking : BOOLEAN, owner : Owners, route : Routes,
                  to : Ids \cup {None}]

(* A bug: what was confirmed can be rejected. *)
RequirementMovesUndone == [PROPOSED |-> {"CONFIRMED", "REJECTED", "SUPERSEDED"},
                           CONFIRMED |-> {"REJECTED", "SUPERSEDED"},
                           REJECTED |-> {}, SUPERSEDED |-> {}]

(* The statuses each status may move to.                                   *)
RequirementMoves == [PROPOSED |-> {"CONFIRMED", "REJECTED", "SUPERSEDED"},
                     CONFIRMED |-> {"SUPERSEDED"}, REJECTED |-> {}, SUPERSEDED |-> {}]
AssumptionMoves == RequirementMoves
DecisionMoves == [OPEN |-> {"DECIDE_LATER", "DECIDED", "SUPERSEDED"},
                  DECIDE_LATER |-> {"OPEN", "DECIDED", "SUPERSEDED"},
                  DECIDED |-> {"SUPERSEDED"}, SUPERSEDED |-> {}]
UnknownMoves == [OPEN |-> {"RESOLVED", "CONVERTED"}, RESOLVED |-> {}, CONVERTED |-> {}]

(* validate_transition, for an entity that exists; a status may be saved    *)
(* again.                                                                   *)
CanMove(moves, from, to) == from # Absent /\ (from = to \/ to \in moves[from])

Existing == {r \in Requirements : req[r].status # Absent}
            \cup {a \in Assumptions : asm[a].status # Absent}
            \cup {d \in Decisions : dec[d].status # Absent}
            \cup {u \in Unknowns : unk[u].status # Absent} \cup answers

-----------------------------------------------------------------------------
(* The engines.                                                            *)

(* Coverage: areas with a CONFIRMED requirement are SUFFICIENT (CONFIRMED   *)
(* after the review, which the gate treats alike); the others are PARTIAL   *)
(* or UNTOUCHED.                                                            *)
Sufficient == {c \in AreaKeys : \E r \in Requirements :
                 req[r].status = "CONFIRMED" /\ c \in req[r].areas}

(* _open_blocking_unknowns_for_areas *)
OpenBlockingUnknowns(areas) ==
  {u \in Unknowns : unk[u].status = "OPEN" /\ unk[u].blocking /\ unk[u].area \in areas}

(* The seven conditions of check_readiness, in its order.                   *)
UncoveredAreas == Critical \ Sufficient
BlockingUnknowns == {u \in OpenBlockingUnknowns(Areas) : unk[u].owner # "external"}
UnconfirmedHigh == {a \in Assumptions : asm[a].impact = "HIGH"
                                   /\ asm[a].status \notin {"CONFIRMED", "REJECTED", Absent}}
UndecidedBlocking == {d \in Decisions : dec[d].blocking
                                   /\ dec[d].status \notin {"DECIDED", Absent}}
BareAreas == {c \in Critical : \A r \in Requirements :
                req[r].status = Absent \/ c \notin req[r].areas}

EntityBlockers == BlockingUnknowns \cup UnconfirmedHigh \cup UndecidedBlocking

Ready == /\ UncoveredAreas = {} /\ BlockingUnknowns = {} /\ UnconfirmedHigh = {}
         /\ UndecidedBlocking = {} /\ BareAreas = {} /\ conflicts = {} /\ approved

(* What open_items.py and digest.py each select again on their own.         *)
ProposedHigh == {a \in Assumptions : asm[a].impact = "HIGH" /\ asm[a].status = "PROPOSED"}
LiveDecisions == {d \in Decisions : dec[d].status \in {"OPEN", "DECIDE_LATER"}}

(* A bug: the board forgets deferred decisions. *)
OpenItemsUndeferred == OpenBlockingUnknowns(Areas) \cup ProposedHigh
             \cup {d \in Decisions : dec[d].status = "OPEN"}

(* collect_open_items; the last part is kind "research_queued".             *)
OpenItems == OpenBlockingUnknowns(Areas) \cup ProposedHigh \cup LiveDecisions
             \cup {u \in Unknowns : unk[u].status = "OPEN" /\ unk[u].route = "RESEARCH"}

(* generate_digest: what it prints in full; the rest gets its title.        *)
InDigestInFull == OpenBlockingUnknowns(Areas) \cup ProposedHigh
                  \cup {d \in LiveDecisions : dec[d].blocking}

(* _ledger_section: what the board's summary counts as waiting; its parts   *)
(* for unknowns are "blocking" and "research".                              *)
InLedgerCounts ==
  ProposedHigh
  \cup {d \in Decisions : dec[d].status = "OPEN" /\ dec[d].blocking}
  \cup {u \in Unknowns : /\ unk[u].status = "OPEN"
                         /\ unk[u].blocking \/ unk[u].route = "RESEARCH"}

(* render_client_questionnaire: what a client owns, whatever its status,    *)
(* area by area of AREA_KEYS.                                               *)
Questionnaire == {u \in Unknowns : /\ unk[u].status # Absent
                                   /\ unk[u].owner = "external" /\ unk[u].area \in AreaKeys}

-----------------------------------------------------------------------------
(* The writers.  Each one is a call that passes its checks.                 *)

Init ==
  /\ req = [r \in Requirements |-> [status |-> Absent, areas |-> {}, from |-> {}]]
  /\ asm = [a \in Assumptions |-> [status |-> Absent, impact |-> "LOWER"]]
  /\ dec = [d \in Decisions |-> [status |-> Absent, blocking |-> FALSE]]
  /\ unk = [u \in Unknowns |-> [status |-> Absent, area |-> None, blocking |-> FALSE,
                                owner |-> "other", route |-> "other", to |-> None]]
  /\ answers = {}
  /\ conflicts = {}
  /\ approved = FALSE

OnlyReq == UNCHANGED <<asm, dec, unk, answers, conflicts, approved>>
OnlyAsm == UNCHANGED <<req, dec, unk, answers, conflicts, approved>>
OnlyDec == UNCHANGED <<req, asm, unk, answers, conflicts, approved>>
OnlyUnk == UNCHANGED <<req, asm, dec, answers, conflicts, approved>>

(* _requirement_create: real areas, and something that exists to trace to.  *)
CreateRequirement(r, areas, from) ==
  /\ req[r].status = Absent
  /\ areas # {} /\ areas \subseteq AreaKeys
  /\ from # {} /\ from \subseteq Existing
  /\ req' = [req EXCEPT ![r] = [status |-> "PROPOSED", areas |-> areas, from |-> from]]
  /\ OnlyReq

(* A bug: what was confirmed can be edited. *)
EditableFromConfirmed == {"PROPOSED", "CONFIRMED"}

(* allowed_from of "revise" and "modify". *)
EditableFrom == {"PROPOSED"}

(* revise: areas and provenance are replaced as given, neither is checked.  *)
ReviseRequirement(r, areas, from) ==
  /\ req[r].status \in EditableFrom
  /\ req' = [req EXCEPT ![r].areas = areas, ![r].from = from]
  /\ OnlyReq

(* A bug: the unknowns are not looked at. *)
ConfirmRequirementBlocked(r) ==
  /\ CanMove(RequirementMoves, req[r].status, "CONFIRMED")
  /\ req' = [req EXCEPT ![r].status = "CONFIRMED"]
  /\ OnlyReq

(* confirm: not while an unknown blocks one of its areas. *)
ConfirmRequirement(r) ==
  /\ CanMove(RequirementMoves, req[r].status, "CONFIRMED")
  /\ OpenBlockingUnknowns(req[r].areas) = {}
  /\ req' = [req EXCEPT ![r].status = "CONFIRMED"]
  /\ OnlyReq

RejectRequirement(r) ==
  /\ CanMove(RequirementMoves, req[r].status, "REJECTED")
  /\ req' = [req EXCEPT ![r].status = "REJECTED"]
  /\ OnlyReq

SupersedeRequirement(r) ==
  /\ CanMove(RequirementMoves, req[r].status, "SUPERSEDED")
  /\ req' = [req EXCEPT ![r].status = "SUPERSEDED"]
  /\ OnlyReq

CreateAssumption(a, impact) ==
  /\ asm[a].status = Absent
  /\ asm' = [asm EXCEPT ![a] = [status |-> "PROPOSED", impact |-> impact]]
  /\ OnlyAsm

ModifyAssumption(a, impact) ==
  /\ asm[a].status \in EditableFrom
  /\ asm' = [asm EXCEPT ![a].impact = impact]
  /\ OnlyAsm

(* confirm, reject, supersede. *)
MoveAssumption(a, to) ==
  /\ CanMove(AssumptionMoves, asm[a].status, to)
  /\ asm' = [asm EXCEPT ![a].status = to]
  /\ OnlyAsm

OpenDecision(d, blocking) ==
  /\ dec[d].status = Absent
  /\ dec' = [dec EXCEPT ![d] = [status |-> "OPEN", blocking |-> blocking]]
  /\ OnlyDec

(* defer, decide, supersede. *)
MoveDecision(d, to) ==
  /\ CanMove(DecisionMoves, dec[d].status, to)
  /\ dec' = [dec EXCEPT ![d].status = to]
  /\ OnlyDec

(* record: the area is not checked against AREA_KEYS. *)
RecordUnknown(u, area, blocking, owner, route) ==
  /\ unk[u].status = Absent
  /\ unk' = [unk EXCEPT ![u] = [status |-> "OPEN", area |-> area, blocking |-> blocking,
                                owner |-> owner, route |-> route, to |-> None]]
  /\ OnlyUnk

ClassifyUnknown(u, area, blocking, owner, route) ==
  /\ unk[u].status = "OPEN"
  /\ unk' = [unk EXCEPT ![u].area = area, ![u].blocking = blocking, ![u].owner = owner,
                        ![u].route = route]
  /\ OnlyUnk

ResolveUnknown(u) ==
  /\ CanMove(UnknownMoves, unk[u].status, "RESOLVED")
  /\ unk' = [unk EXCEPT ![u].status = "RESOLVED"]
  /\ OnlyUnk

(* convert: to any entity that exists, itself included. *)
ConvertUnknown(u, to) ==
  /\ CanMove(UnknownMoves, unk[u].status, "CONVERTED")
  /\ to \in Existing
  /\ unk' = [unk EXCEPT ![u].status = "CONVERTED", ![u].to = to]
  /\ OnlyUnk

(* ask_user records an answer; answers are never taken back. *)
RecordAnswer(n) ==
  /\ n \notin answers
  /\ answers' = answers \cup {n}
  /\ UNCHANGED <<req, asm, dec, unk, conflicts, approved>>

(* manage_conflict: the last adjudication of a pair counts; open stands for *)
(* a contradiction that is not resolved.                                    *)
Adjudicate(p, open) ==
  /\ conflicts' = IF open THEN conflicts \cup {p} ELSE conflicts \ {p}
  /\ UNCHANGED <<req, asm, dec, unk, answers, approved>>

(* grant_review_approval; there is no way to take it back. *)
ApproveReview ==
  /\ approved' = TRUE
  /\ UNCHANGED <<req, asm, dec, unk, answers, conflicts>>

RequirementStep == \E r \in Requirements :
  \/ \E areas \in SUBSET Areas, from \in Links :
       CreateRequirement(r, areas, from) \/ ReviseRequirement(r, areas, from)
  \/ ConfirmRequirement(r) \/ RejectRequirement(r) \/ SupersedeRequirement(r)

AssumptionStep == \E a \in Assumptions :
  \/ \E impact \in {"HIGH", "LOWER"} : CreateAssumption(a, impact) \/ ModifyAssumption(a, impact)
  \/ \E to \in {"CONFIRMED", "REJECTED", "SUPERSEDED"} : MoveAssumption(a, to)

DecisionStep == \E d \in Decisions :
  \/ \E blocking \in BOOLEAN : OpenDecision(d, blocking)
  \/ \E to \in {"DECIDE_LATER", "DECIDED", "SUPERSEDED"} : MoveDecision(d, to)

UnknownStep == \E u \in Unknowns :
  \/ \E area \in Areas, blocking \in BOOLEAN, owner \in Owners, route \in Routes :
       \/ RecordUnknown(u, area, blocking, owner, route)
       \/ ClassifyUnknown(u, area, blocking, owner, route)
  \/ ResolveUnknown(u)
  \/ \E to \in Ids : ConvertUnknown(u, to)

MetaStep ==
  \/ \E n \in Answers : RecordAnswer(n)
  \/ \E p \in Pairs, open \in BOOLEAN : Adjudicate(p, open)
  \/ ApproveReview

Next == RequirementStep \/ AssumptionStep \/ DecisionStep \/ UnknownStep \/ MetaStep

Spec == Init /\ [][Next]_vars

-----------------------------------------------------------------------------
(* Properties.                                                             *)

(* Every entity keeps its shape and a status of its own table, through all  *)
(* the writers.                                                             *)
TypeOK ==
  /\ req \in [Requirements -> RequirementRecord]
  /\ asm \in [Assumptions -> AssumptionRecord]
  /\ dec \in [Decisions -> DecisionRecord]
  /\ unk \in [Unknowns -> UnknownRecord]
  /\ answers \subseteq Answers
  /\ conflicts \subseteq Pairs
  /\ approved \in BOOLEAN

(* The gate, the status board and the digest read the same ledger with      *)
(* conditions of their own.  What blocks the gate is on the board and in    *)
(* full in the digest unless it was superseded; the digest prints nothing   *)
(* in full that the board leaves out; what the board shows holds the gate   *)
(* unless somebody outside has to answer it or it does not block; and the   *)
(* board's summary counts what its list has, but for a decision that was    *)
(* deferred or does not block.                                              *)
ViewsAgree ==
  /\ \A i \in EntityBlockers \ (OpenItems \cap InDigestInFull) :
       \/ i \in Assumptions /\ asm[i].status = "SUPERSEDED"
       \/ i \in Decisions /\ dec[i].status = "SUPERSEDED"
  /\ InDigestInFull \subseteq OpenItems
  /\ \A i \in OpenItems \ EntityBlockers :
       \/ i \in Unknowns /\ (unk[i].owner = "external" \/ ~unk[i].blocking)
       \/ i \in Decisions /\ ~dec[i].blocking
  /\ InLedgerCounts \subseteq OpenItems
  /\ \A i \in OpenItems \ InLedgerCounts :
       i \in Decisions /\ (dec[i].status = "DECIDE_LATER" \/ ~dec[i].blocking)

(* Every unknown that was recorded has an area, of the config or not.       *)
AreasAreGiven == \A u \in Unknowns : unk[u].status # Absent => unk[u].area \in Areas

(* A CONVERTED unknown points to an entity that is there, and only          *)
(* a CONVERTED one points anywhere.                                         *)
ConversionsHold ==
  \A u \in Unknowns : IF unk[u].status = "CONVERTED" THEN unk[u].to \in Existing
                                                     ELSE unk[u].to = None

(* Progress on an area is lost only when a requirement that carried it is   *)
(* superseded: no revision, rejection or reclassification takes an area     *)
(* back from SUFFICIENT.                                                    *)
CoverageKept == [][
  \A c \in Sufficient \ Sufficient' : \E r \in Requirements :
    c \in req[r].areas /\ req[r].status = "CONFIRMED" /\ req'[r].status = "SUPERSEDED" ]_vars

(* No area becomes SUFFICIENT while an unknown that blocks it is open, by   *)
(* whatever call: a confirmation, or an edit of what was confirmed.         *)
CoverageGrowsUnblocked == [][
  \A c \in Sufficient' \ Sufficient : OpenBlockingUnknowns({c}) = {} ]_vars

(* Once the gate is open, it closes only on something new (an entity, a     *)
(* contradiction), something made more severe, or something superseded.     *)
(* Confirming, rejecting, deciding, deferring, resolving, converting and    *)
(* revising leave it open.                                                  *)
Created == \/ \E a \in Assumptions : asm[a].status = Absent /\ asm'[a].status # Absent
           \/ \E d \in Decisions : dec[d].status = Absent /\ dec'[d].status # Absent
           \/ \E u \in Unknowns : unk[u].status = Absent /\ unk'[u].status # Absent
Raised == \/ \E a \in Assumptions : asm[a].impact = "LOWER" /\ asm'[a].impact = "HIGH"
          \/ \E u \in Unknowns : /\ unk[u].status = "OPEN" /\ unk'[u].status = "OPEN"
                                 /\ unk[u] # unk'[u]
          \/ conflicts' \ conflicts # {}
Superseded == \/ \E r \in Requirements : req[r].status = "CONFIRMED" /\ req'[r].status = "SUPERSEDED"
              \/ \E a \in Assumptions : asm[a].status = "CONFIRMED" /\ asm'[a].status = "SUPERSEDED"
              \/ \E d \in Decisions : dec[d].status = "DECIDED" /\ dec'[d].status = "SUPERSEDED"

SettlingKeepsReady == [][ Ready /\ ~Ready' => Created \/ Raised \/ Superseded ]_vars

-----------------------------------------------------------------------------
(* What the documents say, and the code does not do.                        *)

(* readiness.py:45: a blocker "states what would clear it", and it is       *)
(* "confirm or reject it", or to decide.                                    *)
BlockersCanBeCleared ==
  /\ \A a \in UnconfirmedHigh : \E to \in {"CONFIRMED", "REJECTED"} :
       CanMove(AssumptionMoves, asm[a].status, to)
  /\ \A d \in UndecidedBlocking : CanMove(DecisionMoves, dec[d].status, "DECIDED")

(* client_questions.py:61: the questionnaire is "covering every             *)
(* external-owned open item".                                               *)
ClientIsAsked ==
  \A u \in Unknowns : unk[u].status = "OPEN" /\ unk[u].owner = "external" => u \in Questionnaire

=============================================================================
