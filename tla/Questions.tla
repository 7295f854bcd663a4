------------------------------ MODULE Questions ------------------------------
(***************************************************************************)
(* Questions and their answers: ask_user and answer_pending_question of    *)
(* ppa/tools/interaction.py, the turn that asks (agents/turn.py) and       *)
(* `ppa chat` (cli.py), which collects the answers.                        *)
(*                                                                         *)
(* A question is a Q-nnn; its answer is a second entity, ANS-nnn, and the  *)
(* question is then REPLACED: two events of the log, each of them written  *)
(* atomically (LedgerStore), with nothing that ties them together.  The    *)
(* process may be killed before any write, and a write may fail.           *)
(***************************************************************************)
EXTENDS Naturals, FiniteSets

CONSTANTS
  MaxQuestions,  \* bound: questions ever asked
  MaxBatch,      \* _MAX_QUESTIONS of one ask_user call
  MaxFaults      \* bound: kills and failed writes

ASSUME QuestionAssumption ==
  /\ MaxQuestions \in Nat /\ MaxBatch \in Nat /\ MaxFaults \in Nat

Questions == 1..MaxQuestions

VARIABLES
  st,       \* question -> its status in the ledger
  last,     \* the counter of Q-nnn in project.json
  ans,      \* question -> ANS-nnn recorded for it
  mode,     \* discovery_mode in project.json
  pc,       \* where `ppa chat` is
  batch,    \* questions of the current ask_user call that are not done yet: with an
            \* answer, without one
  cur,      \* the question whose answer is being recorded
  todo,     \* chat's list of questions to show
  shown,    \* those it has shown since the turn was suspended
  faults    \* kills and failed writes so far

vars == <<st, last, ans, mode, pc, batch, cur, todo, shown, faults>>

NoBatch == [answered |-> 0, open |-> 0]
NoCur == 0

Pending == {q \in Questions : st[q] = "PENDING"}

(* parse_answer on what a person types, and the check that both writers     *)
(* make: an answer, or a reason why the question does not matter, needs     *)
(* text.  The prompt repeats itself on an empty line, not on spaces.        *)
Typed == {"words", "spaces", "idk", "later", "not relevant:"}
Kind(typed) == CASE typed \in {"words", "spaces"} -> "answered"
                 [] typed = "idk" -> "dont_know"
                 [] typed = "later" -> "decide_later"
                 [] typed = "not relevant:" -> "not_relevant"
HasText(typed) == typed \in {"words", "not relevant:"}
Accepted(typed) == Kind(typed) \in {"answered", "not_relevant"} => HasText(typed)

Init ==
  /\ last = 0
  /\ st = [q \in Questions |-> "ABSENT"]
  /\ ans = [q \in Questions |-> 0]
  /\ mode = "INTAKE"
  /\ pc = "stopped"
  /\ batch = NoBatch
  /\ cur = NoCur
  /\ todo = {}
  /\ shown = {}
  /\ faults = 0

(* `ppa chat` is started: the first thing it does is a turn.                *)
StartChat ==
  /\ pc = "stopped"
  /\ pc' = "turn"
  /\ UNCHANGED <<st, last, ans, mode, batch, cur, todo, shown, faults>>

-----------------------------------------------------------------------------
(* The agent's turn.                                                        *)

(* ask_user with a batch that passes _validate_batch; one that does not     *)
(* writes nothing.                                                          *)
AskUser(answered, open) ==
  /\ pc = "turn"
  /\ answered + open \in 1..MaxBatch
  /\ last + answered + open <= MaxQuestions
  /\ batch' = [answered |-> answered, open |-> open]
  /\ pc' = "ask"
  /\ UNCHANGED <<st, last, ans, mode, cur, todo, shown, faults>>

(* QUESTION_ASKED, under the next id. *)
CreateQuestion ==
  /\ last' = last + 1
  /\ st' = [st EXCEPT ![last + 1] = "PENDING"]

(* _ask_and_maybe_answer_one, first event, for a question without answer.   *)
AskOpen ==
  /\ pc = "ask" /\ batch.open > 0
  /\ CreateQuestion
  /\ batch' = [batch EXCEPT !.open = @ - 1]
  /\ UNCHANGED <<ans, mode, pc, cur, todo, shown, faults>>

(* The same for one that brings its answer: two more events follow.         *)
AskAnswered ==
  /\ pc = "ask" /\ batch.answered > 0
  /\ CreateQuestion
  /\ batch' = [batch EXCEPT !.answered = @ - 1]
  /\ cur' = last + 1
  /\ pc' = "replace by agent"
  /\ UNCHANGED <<ans, mode, todo, shown, faults>>

(* ask_user returns to the agent. *)
Asking == /\ pc = "ask" /\ batch = NoBatch
          /\ pc' = "turn"
          /\ UNCHANGED <<st, last, ans, mode, batch, cur, todo, shown, faults>>

(* A bug: only what the turn asked itself counts. *)
LeftByTurnNew == Pending \ shown

(* run_discovery_turn reads the ledger after the agent: any PENDING         *)
(* question makes the turn HUMAN_INPUT_REQUIRED.                            *)
LeftByTurn == Pending

(* A bug: a turn that asks nothing ends in another mode. *)
EndTurnReview ==
  /\ pc = "turn"
  /\ mode' = IF LeftByTurn = {} THEN "REVIEW" ELSE "CLARIFY"
  /\ pc' = IF LeftByTurn # {} THEN "suspended" ELSE "turn"
  /\ UNCHANGED <<st, last, ans, batch, cur, todo, shown, faults>>

(* The turn returns; an intake ends with its turn, whatever it asked.       *)
EndTurn ==
  /\ pc = "turn"
  /\ mode' = "CLARIFY"
  /\ pc' = IF LeftByTurn # {} THEN "suspended" ELSE "turn"
  /\ UNCHANGED <<st, last, ans, batch, cur, todo, shown, faults>>

(* The model service fails: the turn is NON_RECOVERABLE, chat stops.        *)
FailTurn ==
  /\ pc = "turn"
  /\ pc' = "stopped"
  /\ shown' = {}
  /\ UNCHANGED <<st, last, ans, mode, batch, cur, todo, faults>>

-----------------------------------------------------------------------------
(* chat, after a turn that was suspended.                                   *)

FirstOf(S) == CHOOSE q \in S : \A p \in S : q <= p

(* A bug: only one question for each turn is shown. *)
CollectOne ==
  /\ pc = "suspended"
  /\ todo' = {FirstOf(Pending)}
  /\ shown' = {}
  /\ pc' = "prompt"
  /\ UNCHANGED <<st, last, ans, mode, batch, cur, faults>>

(* The questions to show are read once.                                     *)
Collect ==
  /\ pc = "suspended"
  /\ todo' = Pending
  /\ shown' = {}
  /\ pc' = "prompt"
  /\ UNCHANGED <<st, last, ans, mode, batch, cur, faults>>

(* A bug: the answer is checked after the question is put away. *)
ReplyUnchecked(q, typed) ==
  /\ pc = "prompt" /\ todo # {} /\ q = FirstOf(todo)
  /\ shown' = shown \cup {q}
  /\ IF Accepted(typed)
       THEN /\ cur' = q /\ pc' = "replace by user"
            /\ UNCHANGED <<todo, st>>
       ELSE /\ todo' = todo \ {q} /\ st' = [st EXCEPT ![q] = "REPLACED"]
            /\ UNCHANGED <<cur, pc>>
  /\ UNCHANGED <<last, ans, mode, batch, faults>>

(* One prompt and the checks of answer_pending_question; chat does not look *)
(* at its result, so a refused answer leaves the question for another turn. *)
Reply(q, typed) ==
  /\ pc = "prompt" /\ todo # {} /\ q = FirstOf(todo)
  /\ shown' = shown \cup {q}
  /\ IF st[q] = "PENDING" /\ Accepted(typed)
       THEN /\ cur' = q /\ pc' = "replace by user"
            /\ UNCHANGED todo
       ELSE /\ todo' = todo \ {q}
            /\ UNCHANGED <<cur, pc>>
  /\ UNCHANGED <<st, last, ans, mode, batch, faults>>

(* All of them were shown: the next turn.                                   *)
Shown ==
  /\ pc = "prompt" /\ todo = {}
  /\ pc' = "turn"
  /\ UNCHANGED <<st, last, ans, mode, batch, cur, todo, shown, faults>>

-----------------------------------------------------------------------------
(* The two events of an answer, in ask_user and in answer_pending_question. *)

(* What comes after the answer: the rest of the batch, or of the list.      *)
Resume ==
  /\ pc' = IF pc = "answer by agent" THEN "ask" ELSE "prompt"
  /\ todo' = todo \ {cur}
  /\ cur' = NoCur

(* QUESTION_REPLACED *)
Replace ==
  /\ pc \in {"replace by agent", "replace by user"}
  /\ st' = [st EXCEPT ![cur] = "REPLACED"]
  /\ pc' = IF pc = "replace by agent" THEN "answer by agent" ELSE "answer by user"
  /\ UNCHANGED <<last, ans, mode, batch, cur, todo, shown, faults>>

(* ANSWER_RECORDED *)
Record ==
  /\ pc \in {"answer by agent", "answer by user"}
  /\ ans' = [ans EXCEPT ![cur] = @ + 1]
  /\ Resume
  /\ UNCHANGED <<st, last, mode, batch, shown, faults>>

(* A bug: the answer is recorded first, the question put away after it. *)
RecordFirst ==
  /\ pc \in {"replace by agent", "replace by user"}
  /\ ans' = [ans EXCEPT ![cur] = @ + 1]
  /\ pc' = IF pc = "replace by agent" THEN "answer by agent" ELSE "answer by user"
  /\ UNCHANGED <<st, last, mode, batch, cur, todo, shown, faults>>

ReplaceSecond ==
  /\ pc \in {"answer by agent", "answer by user"}
  /\ st' = [st EXCEPT ![cur] = "REPLACED"]
  /\ Resume
  /\ UNCHANGED <<last, ans, mode, batch, shown, faults>>

WriteSwapped == RecordFirst \/ ReplaceSecond

Write == Replace \/ Record

-----------------------------------------------------------------------------
(* Interruptions.                                                           *)

Forget == batch' = NoBatch /\ cur' = NoCur /\ todo' = {} /\ shown' = {}

(* The process is killed, or a write of answer_pending_question raises      *)
(* through chat.                                                            *)
Kill ==
  /\ pc # "stopped" /\ faults < MaxFaults
  /\ pc' = "stopped"
  /\ Forget
  /\ faults' = faults + 1
  /\ UNCHANGED <<st, last, ans, mode>>

(* A write of ask_user raises: the agent sees an error of the tool and goes *)
(* on; the batch is left where it was.                                      *)
WriteFails ==
  /\ pc \in {"ask", "replace by agent", "answer by agent"} /\ faults < MaxFaults
  /\ pc' = "turn"
  /\ batch' = NoBatch /\ cur' = NoCur
  /\ faults' = faults + 1
  /\ UNCHANGED <<st, last, ans, mode, todo, shown>>

Ask == AskOpen \/ AskAnswered \/ Asking
Chat == Collect \/ Shown \/ (\E q \in Questions, typed \in Typed : Reply(q, typed))
Next ==
  \/ StartChat \/ EndTurn \/ FailTurn
  \/ \E answered, open \in 0..MaxBatch : AskUser(answered, open)
  \/ Ask \/ Chat \/ Write
  \/ Kill \/ WriteFails

(* The process runs when it can; the agent's turn ends; a person who is     *)
(* shown a question over and over answers it at last.                       *)
Fairness ==
  /\ WF_vars(Ask) /\ WF_vars(Chat) /\ WF_vars(Write) /\ WF_vars(EndTurn)
  /\ \A q \in Questions : SF_vars(\E typed \in Typed : Accepted(typed) /\ Reply(q, typed))

Spec == Init /\ [][Next]_vars

FairSpec == Spec /\ Fairness

-----------------------------------------------------------------------------
(* Properties.                                                             *)

Places == {"stopped", "turn", "ask", "replace by agent", "answer by agent", "suspended",
           "prompt", "replace by user", "answer by user"}

(* Every variable keeps its shape: ids within the bound, statuses of a      *)
(* question, a mode that the turn can be in.                                *)
TypeOK ==
  /\ last \in 0..MaxQuestions
  /\ st \in [Questions -> {"ABSENT", "PENDING", "REPLACED"}]
  /\ ans \in [Questions -> Nat]
  /\ mode \in {"INTAKE", "CLARIFY"}
  /\ pc \in Places
  /\ batch \in [answered : 0..MaxBatch, open : 0..MaxBatch]
  /\ cur \in Questions \cup {NoCur}
  /\ todo \subseteq Questions /\ shown \subseteq Questions
  /\ faults \in 0..MaxFaults

(* A question gets at most one answer, though it is answered in two writes, *)
(* is shown again until it is answered, and any write may be the last.      *)
AnsweredOnce == \A q \in Questions : ans[q] <= 1

(* A question that was put away without an answer, and whose answer is not  *)
(* being written now, was put away by an interruption: refused answers do   *)
(* not lose a question.                                                     *)
Lost == {q \in Questions : st[q] = "REPLACED" /\ ans[q] = 0 /\ cur # q}
LossNeedsFault == Cardinality(Lost) <= faults

(* cli.py:93: chat collects "answers for every question a turn leaves       *)
(* PENDING": when it goes on to the next turn, each PENDING question was    *)
(* shown.                                                                   *)
EveryQuestionIsShown == [][
  (pc = "prompt" /\ pc' = "turn") => Pending \subseteq shown ]_vars

(* A question that waits is answered at last, unless the session stops.     *)
QuestionsAreSettled == \A q \in Questions :
  st[q] = "PENDING" ~> st[q] = "REPLACED" \/ pc = "stopped"

=============================================================================
