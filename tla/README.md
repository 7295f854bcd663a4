# Verification of ppa, the product planning agent

TLA+ models of `src/product_planning_agent/ppa`, the TLC configurations that check them on small
instances, and theorems about them whose proofs TLAPS checks. Paths below are relative to
`src/product_planning_agent/ppa` unless they begin with `src/`. `PROJECT.json` lists the runs, the
mutants (for each property a plausible bug that breaks it), the map from definitions to source
lines, the findings, the hazards and the theorems.

To run: `tlc -config X.cfg M` with the module named in `PROJECT.json`; `tlapm MProofs.tla`.

## 1. The system

ppa interviews a user about a product and keeps what it learns as a *ledger*: an append-only log of
events, folded into entities (requirements, assumptions, decisions, unknowns, questions). A language
model runs inside a turn and changes the ledger only through tools; an outer loop decides which
agent runs, when to retry, and when a gate over the ledger is open.

| Component | State | Operations | Talks to |
|---|---|---|---|
| Event log store (`ledger/store.py`) | `events.ndjson`, `project.json` (counters, idempotency map, other fields), a cached last event number, a lock per path | `append_event`, `append_event_with_id`, `allocate_id`, setters under `path_lock` | everything that writes |
| Materializer (`ledger/materialize.py`) | `entities/` files | the fold, `rebuild_all` | called after each write and at commit |
| Outer loop (`orchestrator/loop.py`, `recovery/transaction.py`, `orchestrator/preconditions.py`, `dispatch.py`) | transaction markers in the log, `workflow_state`, locals of a turn | `run_turn`, `run_session`; `chat` in `cli.py` | agents, store, git, gate |
| Workflow machine (`workflow/`) | none; the table `transitions.yaml` | `validate_transition` | loop, change mode |
| Git history (`ledger/gitops.py`) | the project's repository | `commit_turn` | loop |
| Discovery writers (`tools/discovery_tools.py`, `ledger/transitions.py`) | entity snapshots in the log | `manage_requirement`, `manage_assumption`, `manage_decision`, `manage_unknown`, `manage_conflict`, `manage_research` | agents call them, store |
| Engines (`engines/`) | none | coverage, readiness (the gate), open items, impact, conflict candidates, question scoring | read the fold |
| Questions (`tools/interaction.py`, `agents/turn.py`, `cli.py`) | `Q-nnn` and `ANS-nnn` entities, `discovery_mode` | `ask_user`, `answer_pending_question`, the chat's prompts | agent, user, store |
| Change mode (`agents/modes/change.py`) and review approval (`review.py`) | adjudication and approval events | `run_change_session`, `unresolved_conflicts_from_events`, `grant_review_approval`, `_rewind_workflow` | agent, gate, loop |
| Approval gate (`tools/approval.py`, `tools/delivery_tools.py`) | grants and revocations in the log | `grant_approval`, `revoke_approval`, `requires_approval` | user, delivery tools |
| Subagents (`agents/subagents/`) | `RES-nnn` findings; the queue a session read | `run_research_session`, `run_guidance_session`, the stale flags | model, writers |
| Views (`ledger/digest.py`, `render/status_board.py`, `render/client_questions.py`, `orchestrator/context.py`) | none | digest, board, questionnaire, rounds | read the fold and the log |
| Retry (`recovery/retry.py`), dispatch and validation, audit, configuration, providers | see section 7 | | |

**What is hard.** Three things hold the state (log, `project.json`, entity files) and git a fourth,
each written in its own step, so a kill between two of them shows; there is no recovery code, the
next process simply reads what it finds. Agents answer anything and write at any time in a turn. The
gate, the status board, coverage and the round's own check each recompute their view from the log
with conditions of their own. The user answers, approves and revokes between an agent's steps.

**What must be right**, component by component: event and entity ids never repeat or go back, and no
update of `project.json` is lost (store); transactions are bracketed, results say what the ledger
holds, workflow moves are legal, nothing passes the gate, sessions end (loop); the gate, the board, the
digest and the questionnaire agree, coverage and readiness move only for a reason (entities); a fallback
hands over what it could not do, whole, and hides nothing (subagents); a question is shown until answered,
answered once, not lost (questions); the report of a change is complete and exact (impact); only an
approved batch is created (approval); a contradiction holds the gate until it is resolved (change).

## 2. The modules

| Module | Models | Extended by |
|---|---|---|
| `LedgerStore` | `ledger/store.py`, one action per step of a call inside the lock, several threads, crashes | `MCLedgerStore`, `LedgerStoreProofs` |
| `AtomicLedger` | what the store promises: each call one step, a failure nothing or one orphan. `LedgerStore` refines it (`Ledger == INSTANCE AtomicLedger WITH ...`) | |
| `OuterLoop` | `run_turn`, `run_session`, `chat`, the rewind, the fold and `rebuild_all`, `commit_turn`, interruption between any two writes | `MCOuterLoop`, `OuterLoopProofs` |
| `Entities` | the five writers, the engines coverage, readiness, open items, and what board, digest and questionnaire select | `Subagents`, `MCEntities`, `EntitiesProofs` |
| `Subagents` | research and guidance sessions and `manage_research`, composed with the writers of `Entities` | `MCSubagents`, `SubagentsProofs` |
| `Questions` | `ask_user`, `answer_pending_question`, the chat that collects answers | `MCQuestions`, `QuestionsProofs` |
| `Impact` | `analyze_impact`: breadth-first and depth-first walk, step by step | `MCImpact`, `ImpactProofs` |
| `Approval` | the gate before `manage_linear_issue(create)` | `MCApproval`, `ApprovalProofs` |
| `Change` | rounds of change, adjudications, the fold of unresolved conflicts | `MCChange`, `ChangeProofs` |

The modules are layered by atomicity. `LedgerStore` shows that an append is atomic for every other
caller (`IsAtomic`); the other modules therefore make an append one step. `Entities` makes a whole
writer one step: the handler reads, checks and appends without leaving the event loop, and only one
process works on a project. `OuterLoop` abstracts the entities to areas that are settled and entities
that are open, since the loop looks at them only through the gate. `Change` and `Questions` split what
is one step elsewhere at the writes where a kill matters. A mutant ("A bug: ...", "Mutant of ...") is
kept in the module beside the definition it breaks; no specification uses one.

### LedgerStore
`log`, `torn`, `meta` are the disk; `cache` and `lock` the process; `pc`, `call`, `snap`, `ent`,
`evt` a thread's call (`snap` is the copy of `project.json` it works on); `handed` the ids returned.
`Acquire` .. `Return` follow `append_event_with_id`: lock and read, replay of a known key, counter,
event number, line, `project.json`, return. `Reject` is `Event(...)` raising, `IOError` a failed write,
`Crash` the process dying, possibly with half a line. Torn lines come from a kill in the middle of
the write. A partial write by a process that lives, and the loss of a rename at a power failure, are
not modelled.

Consequences that are in the model and not claimed otherwise by the properties: a rejected event
leaves a gap in the event ids; after a crash between event and counter the next process gives the
same entity id to another event (`DuplicatesBoundedByFaults` and `CounterLag`); after a torn line every
append of a later process fails (`Unreadable`).

### OuterLoop
`log`, `txnCtr`, `wf`, `files`, `head` are the disk and git; `pc`, `back`, `sess`, `turn` the process;
the rest is observation (`cut`: transactions whose turn was interrupted). `Rounds` is the history that agents and board are given (`rounds_from_events`). The labels of `pc` are the
points between two writes of `run_turn`. Agents return any status of `AgentResultStatus`
(`AgentReturns`) and write any number of entities up to `MaxWrites` (`ToolWrite`, with `txn_id` None
as in the tools). What follows from the code and is visible here: retries are not gated again; an
illegal target raises and leaves the transaction open; `chat` never passes `review_approved`, so
completion is reported only by `run_session`; nothing in the CLI calls `run_session` or
`run_change_session` yet, so both are entry points in their own right. `head.told` is the set of entity
events a commit message mentions: `events_for_txn` finds only the markers, because the tools' events
carry no transaction; for the same reason no round of the history contains what its turn wrote.

### Entities
One function per kind of entity from ids to what the engines read; text is left out. `Ready` is the
seven conditions of `check_readiness`, `OpenItems` is `collect_open_items` (the board's list),
`InLedgerCounts` the board's summary, `InDigestInFull` what `generate_digest` prints in full,
`Questionnaire` what `render_client_questionnaire` asks, `Sufficient` is coverage. Owners and routes are
the values that one of these tells apart. `generate_digest` is always called without its `coverage`
argument (`agents/turn.py:245`, `orchestrator/loop.py:587`), so its coverage section says UNTOUCHED for
every area although `prompts/mode_clarify.md:7` sends the agent there; that involves no order of steps
and has no property.
Each writer is an action with the checks of its operation as guards. Not guarded, because the code
does not: the area of an unknown, the areas and the provenance of a revised requirement (which may
end up tracing to nothing), a conversion to the unknown itself. Confirming a requirement waits for
every open blocking unknown of its areas, those with an external owner included, although condition 2
of the gate exempts these.

### Subagents
`session` is the local state of `run_research_session` or `run_guidance_session`: its agent, the place
in its code, the attempt, the queue it read at the start, what is left to degrade. `ToolCall` is
`manage_research` in a turn, `TurnEnds` and `TurnRaises` the ways a turn may go, `Degrade` one iteration
of the fallback, `Kill` the process dying between two writes. `OtherWriter` is any step of `Entities`;
it waits for the session, because one process writes a project (`src/product_planning_agent/README.md:207-220`) and a session
keeps it busy. No command of this version starts a session; they are entry points of their own.
Visible here and not claimed otherwise: a degraded unknown stays OPEN and queued, so the next session
degrades it again; a retried turn may record a finding twice; a Guidance session always takes the first
id, so one that fails stays at the head; `link_decision` is granted to the subagents only, and neither it
nor `create` looks up the id in `feeds_decision`, while the stale flag looks only at that entity's
status (`Underpinned`), so a finding may be flagged for an unknown as well.

### Questions
A question is a number; `st`, `ans`, `last`, `mode` are the ledger, `pc`, `batch`, `cur`, `todo` the
process. The two events of an answer are `Replace` and `Record`; `Kill` may come before any write and
`WriteFails` is a write of `ask_user` that raises, after which the agent goes on. `Reply` is a
prompt with `parse_answer` and the checks of `answer_pending_question`. `idem_key` is left out: the
tool's schema does not offer it to the agent, and `chat` passes none. The answer's two events are not
atomic under a kill (`interaction.py:20` calls them "atomic in effect"): the question is then put away
without its answer, which `LossNeedsFault` bounds by the number of interruptions.

### Impact
The initial states are all graphs, with links to ids that are no entity, to the entity itself and in
circles. One action per iteration of the two loops; neighbours come in the order of their ids.

### Approval
`ReadClock`, `ReadLog`, `Decide` are the decorator's reads and its decision; `Grant`, `Revoke`, `Tick`
come between. `since`, `upto`, `began`, `ended` say how long a call ran. A scope is the multiset of
story ids: the tool hashes nothing else. An approval is not consumed by the batch it allowed. A
caller of the function may pass its own `now`; here it is the clock.

### Change
`StartChange`, `Detect`, `Agent`, `TurnEnds` follow `run_change_session`; `TurnFails` and `Kill` leave
what was written. An adjudication's `resolved` arrives as a Python bool or, through the tool server,
as a string (`Forms`, `Coerce`). `Adjudicate` names any two ids, also ones that do not exist (yet), in
either order: `manage_conflict` looks none up. The pair is ordered; the prompt and the tool's text
name it in opposite orders, and the fold (`Key`, `Wins`, `Unresolved`) counts them apart. The verdict
"unrelated" is left out: the code treats it as "refinement". Left out too are the impact reports of a
round, a returned value: they are about the subjects of all resolved adjudications in the log, so a
requirement superseded under the order of the prompt, where the answer is the subject, has none,
against "analyze impact on whatever was superseded" (`change.py:195-197`). Review approval is
in `Entities` (`ApproveReview`): it is never revoked, so a change closes the gate only by what
`SettlingKeepsReady` lists and not by itself, against the build plan's "a gate that drops back to NOT
READY" (`src/Plan/Design and Build plan.md:1286`).

## 3. What the runs show

| Run | Bounds | Properties |
|---|---|---|
| `LedgerStore` | 3 threads, 3 calls, 2 faults of any kind (crash, torn line, failed write), rejected events | ids increase, are handed out once, duplicates bounded by the faults, replies are in the log, refinement of `AtomicLedger` (`IsAtomic`), every call ends and frees the lock (`CallsEnd`) |
| `OuterLoop` | 2 sessions of any kind, 5 transactions, retry budget 2, cap 2, 2 entity writes, 1 interruption | bracketing, truthful results and history, the blockers of planning are the turn's own, git consistent with the log, legal moves, sessions end |
| `Subagents` | one entity of each kind but two unknowns, one finding, one critical area, 5 calls of writers and tools, any number of sessions | gate, board, summary and digest agree, coverage kept and grown only unblocked, an open gate closes only for a listed reason, a degraded batch is handed over whole, sessions keep the board, stale flags last, sessions end |
| `Questions` | 4 questions, batches of 3, 2 interruptions | answered once, losses bounded, every pending question shown, questions settle |
| `Impact` | all graphs of 3 entities and 1 dangling id | component, shortest real paths (0 at the source), a cycle reported exactly if there is one, termination |
| `Approval` | 2 stories, 5 batches, 3 grants or revocations, 3 ticks, 1 call | created only if covered, covered not refused |
| `Change` | 1 entity, 2 rounds (answers), 2 adjudications of any two of the 3 ids | a conflict is kept until its pair is adjudicated again, an ok report is of its own round |

Five more runs each end in a violation (section 4), those of `OuterLoop` and `Change` on the bounds of
the passing run: `OuterLoopRollback`, `OuterLoopRepair`, `EntitiesClearable`, `EntitiesClient` and
`ChangeGate`.

Why the bounds are enough. Two threads and a crash give each order of two calls' steps and a successor
reading the disk; the third thread can wait for the lock while these two hand it over. A second
fault is needed to see a duplicate of a duplicate. In `OuterLoop` one interruption in the first session
and a second session after it give every case of a state left behind; two attempts and two iterations
are the smallest budgets with a retry that is the last and a turn that is not the first. Entities of the
same kind meet only through areas and the conversion target, so one of each reaches every guard of
every writer; two unknowns give a batch with a part done. An area of no config is left out of `Subagents`
for time (the two runs of `Entities` have one); the theorems cover it, and any number of entities. Five
calls reach an unknown that is recorded, queued, reclassified and resolved around a session. Two answers and a third question in a batch are enough for
a list that is interrupted in its middle. Two rounds are needed for a verdict that outlives its round, and
one entity and two answers make nine ordered pairs, among them both orders of one and pairs that share an
id; the adjudications of different entities meet in the fold only through such pairs.
Three entities are the smallest graph with a path that is not the shortest and a cycle away from the
source. Every bound is a constant, and a guard of the model names it. Deadlock is checked where the
system can always go on (`Questions`) and switched off where the bounds end it.

**Fairness.** `LedgerStore`: a thread inside a call is scheduled (`WF` of its steps); the lock is taken
for a few file operations and no thread waits for another while it holds it. A lock of Python promises
no order, so a thread might wait for ever behind new callers; `MaxCalls` ends the new callers, and
`CallsEnd` says that nothing else keeps a thread waiting. `Subagents`: a model's turn ends by its answer
or an error (its calls are bounded by `MaxWrites`), and the code after it runs to its end. `OuterLoop`: the next step
of a session is taken; it includes the return of the agent's turn, which has no timeout in the code, so
this is an assumption about the model service; the number of an agent's writes is bounded by
`MaxWrites`, without which a turn could go on writing. `Questions`: the process's own steps and the end
of a turn, as above, and strong fairness of an accepted reply: a person who is shown a question again
and again answers it at last. Nothing makes a stopped session start again, and nothing makes the turn
succeed, so the liveness property ends with "or the session stops". `Impact`: a loop goes on.

## 4. Findings

Five runs show a statement of the repository that the code does not keep; the quotations are in
`PROJECT.json`.

- `OuterLoopRollback`: the tools' events carry no `txn_id`, so what a turn wrote stays in the entities
  after the turn was cut or aborted, and no round of the history and no commit message names it; `src/product_planning_agent/README.md:187` says it becomes invisible.
- `OuterLoopRepair`: a kill between the two writes of `_rewind_workflow` leaves `CHANGE_REQUESTED`,
  for which no agent is wired; every later session raises. The same passage says no repair is needed.
- `EntitiesClearable`: a HIGH assumption or a blocking decision that is superseded keeps conditions 3
  and 4 of the gate false, and no status it may move to clears them, although a blocker "states what
  would clear it". `ViewsAgree` shows that these are the only blockers that the board and the digest hide.
- `EntitiesClient`: no writer checks the area of an unknown, and the client's questionnaire walks the
  configured areas only: an open question that only the client can answer is left out of the document
  that covers "every external-owned open item".
- `ChangeGate`: a contradiction recorded through the tool server with `resolved` false is stored as
  resolved (`bool("False")`) and does not hold the gate: this is the behaviour TLC prints. With `Coerce`
  put right the property still fails, in the other direction: the fold goes by ordered pairs, so a
  contradiction surfaced as (answer, entity), the order of the prompt, and closed as (entity, answer), the
  order of the tool's text, holds the gate after it was resolved.

## 5. What is proved

Each theorem is for every value of the constants that satisfies the module's `ASSUME` (disjoint id
sets, bounds in `Nat`). The proofs have one step per action and lemmas for facts used twice.

- `LedgerStoreProofs`: `StoreInv`, the conjunction of types, `LockInv` (the lock belongs to the thread
  inside the block), `CallInv`, `NumberInv` (a warm cache is not below the log; a number about to be
  written is above it), `SnapInv` (the copy in memory is the file but for what the call sets),
  `HandedInv`, `ReturnInv` and the three safety properties. Without `LockInv` and `SnapInv` a thread
  might save a stale copy; without `NumberInv` the cache might repeat a number after a crash. Proved
  from it: types, `EventIdsIncrease`, `HandedOnce`, `CounterLag`, `MetaMonotone`. `LedgerInv` relates
  the log to `project.json`: `SaveInv` (between the event and the save the event is the last line, and
  what will be saved is the file with this one change), `LoggedInv` (a create about to return has its
  event in the log) and `OnceInv` (one line for a key or an id that is on disk or about to be saved,
  none for another, and one more per fault: the slack is what makes it inductive, since a crash turns
  "about to be saved" into a fault). Proved from it: `RepliesAreLogged`, `DuplicatesBoundedByFaults`, and
  the refinement `IsAtomic` (`StoreIsAtomic`). For the refinement an event is settled once its counter and key
  are saved: writing the line is a stutter, or the whole call if it has neither; saving is `Write`,
  `Allocate` or `SetField`; a crash or a failed write is `Orphan` if a line was unsaved, else `Fail`.
- `OuterLoopProofs`: `LoopInv` adds to the types `MarkerInv` (only markers carry a transaction, none
  above the counter), `HoldInv` (the transaction held has begun, once, and nothing more) and `PlaceInv`
  (what each place of `run_turn` knows of the state read at its start). Proved: types,
  `TransactionsBracketed`, `MovesAreLegal`. Three more invariants are inductive on top of it. `GitInv`: when a turn is about to be committed to git its rebuild has come
  to its end, and the log only grows; from it `GitIsConsistent`. `ResultInv`: only the tools write while a
  transaction is held, the attempts of a turn have consecutive transactions and none is committed, and
  an outcome is true from the last marker of its turn on; from it `StepResultIsTrue`. And `BlockersAreOwn`: the gate
  of planning reads the ledger once, before the first attempt, and a retry is not gated again; by the
  consecutive transactions of `ResultInv` whatever is open in a later attempt was written since.
- `EntitiesProofs`: type correctness with `ConversionsHold`; `ViewsAgree` follows from the types and from
  `AreasAreGiven` (every unknown has an area, else one that blocks would be on no list), the three action properties step by step from lemmas about one requirement's or one
  unknown's move.
- `SubagentsProofs`: `SubInv` adds to the types `SessionInv` (the queue a session read is still queued,
  since nobody else writes; the items behind it are handed over) and `FindingInv`. `SessionsAreWriters`
  maps every step of a session to a step of `Entities` or a stutter, so what is proved there holds with
  sessions too (`EntityPromisesKept`). Proved: types, `DegradedAreHandedOver`, `SessionsKeepTheBoard`,
  `FlagsLast`.
- `QuestionsProofs`: types, `IdInv` (ids above the counter are unused), `CurInv` (the question in hand
  and the place agree), `AnsInv` (an answered question is put away), `ShownInv` (what is pending is
  still to be shown or was shown). Proved: `AnsweredOnce`, `EveryQuestionIsShown`, and `LossNeedsFault`
  with the cardinality theorems.
- `ImpactProofs`: `ImpactInv`, for any finite set of ids and any links. Of the breadth-first walk:
  `FrontierInv` (what is reached lies in every closed set around the source; what is off the queue
  has its neighbours reached but for those left of the current one) and `DistanceInv` (the queue is in the order of
  the distance and holds two distances at most, so no link from a finished id leads farther than one hop). Of the
  depth-first walk: `StackInv` (gray ids are the stack, linked by `parent`), `BlackInv` (no link leads
  out of the black ids, and no set of them has a link from each member inside it, so none is on a
  cycle) and `ClimbInv` (what was collected of a cycle is the top of the stack). Proved: types,
  `AffectedIsComponent`, `PathsAreShortest`, `CycleIsReported`. `ReportedPathsBeatAll` says what shortest
  means, of ways of any length, which no run can enumerate: the first step of a way that is ahead of the distance would be
  over a link that leads farther than one hop; the least such step exists because `<` is well founded.
- `ApprovalProofs`: `ReadInv` (what a call holds is `Active` of a prefix of the log between `since` and
  `upto`) and `PrefixInv` (those are within the log), split into steps of the call and steps outside
  it. Proved: types, `CreatedWasCovered`, `CoveredIsNotRefused`.
- `ChangeProofs`: types and `RoundInv` (an adjudication is of a round that has begun, and a turn runs in
  one). With the premise that no agent named an answer that was still to come, a report that finds its
  candidate's pair finds one made in this round. `ConflictsAreKept` follows the fold over one more line:
  a key keeps its winner unless the line is of the same key. Proved: types, `OkReportIsThisRounds`,
  `ConflictsAreKept`.

**Only model-checked.** The five liveness properties `CallsEnd`, `SessionEnds`, `SessionsEnd`,
`QuestionsAreSettled` and `AnalysisEnds`: liveness under fairness and `ENABLED` are beyond the installed
provers. Every invariant and every action property of a passing run has a theorem. The strengthenings
named above were checked by TLC on the bounds of the run before they were proved.

## 6. Plan

The order was: store, loop, entities, questions, impact, approval, change, subagents, and for each its
theorems. All of these exist. What is left: the safety half of termination of `Impact` (a measure that each step
lowers), the same for a session's way through the code of `Subagents`, and one theorem that states what
the atomic store gives to the modules that make an append one step.

## 7. What is not modelled

Dispatch, validation layers and permissions are stateless checks in a fixed order (and are wired to no
agent in this version). `retry_operation` has no caller in this version. Two processes on one project are
excluded by `src/product_planning_agent/README.md:207-220`, which says that nothing holds then. The audit log is never read back.
Of digest, context, boards and cards the layout, the token budget and the due dates are left out. The
shape checks of `agents/modes/` (`evaluate_intake_shape`, `evaluate_dont_know_routing` and the like) judge
what a model wrote, are called by tests only and change nothing.
Profiles, areas, autonomy and house style are tables; the model service and git are external.
Question scoring, date parsing and the classifier of don't-know answers are pure functions of text.
`force_ready` writes an event that no decision reads. Planning and delivery agents are stubs, which
`OuterLoop` covers as agents that answer NOT_IMPLEMENTED. The contents of texts, redaction, and cost
figures play no part in any property.
