--------------------------- MODULE QuestionsProofs ---------------------------
(* Theorems about Questions, for any number of questions, any batch size    *)
(* and any number of interruptions.                                         *)
EXTENDS Questions, FiniteSetTheorems, TLAPS

AtReplace == {"replace by agent", "replace by user"}
AtAnswer == {"answer by agent", "answer by user"}

(* Ids are given in order, and the batch has room for its questions.        *)
IdInv == /\ \A q \in Questions : st[q] = "ABSENT" <=> q > last
         /\ last + batch.answered + batch.open <= MaxQuestions

(* Where the two writes of an answer are.                                   *)
CurInv == /\ pc \in AtReplace => cur \in Questions /\ st[cur] = "PENDING"
          /\ pc \in AtAnswer => cur \in Questions /\ st[cur] = "REPLACED" /\ ans[cur] = 0
          /\ pc \notin AtReplace \cup AtAnswer => cur = NoCur

(* Only a question that was put away has an answer.                         *)
AnsInv == \A q \in Questions : ans[q] <= 1 /\ (st[q] # "REPLACED" => ans[q] = 0)

(* While chat goes through its list, a PENDING question is on it or was     *)
(* shown.                                                                   *)
ShownInv == pc \in {"prompt", "replace by user", "answer by user"} => Pending \subseteq shown \cup todo

IInv == TypeOK /\ IdInv /\ CurInv /\ AnsInv /\ ShownInv

LEMMA InvInit == Init => IInv
BY QuestionAssumption DEF Init, IInv, TypeOK, IdInv, CurInv, AnsInv, ShownInv, Questions, NoBatch, NoCur,
   Places, AtReplace, AtAnswer, Pending

LEMMA InvNext == IInv /\ [Next]_vars => IInv'
<1> SUFFICES ASSUME IInv, [Next]_vars PROVE IInv' OBVIOUS
<1> USE QuestionAssumption DEF Questions, NoBatch, NoCur, AtReplace, AtAnswer
<1>1. TypeOK /\ IdInv /\ CurInv /\ AnsInv /\ ShownInv
  BY DEF IInv
<1>2. /\ last \in Nat /\ faults \in Nat
      /\ batch.answered \in 0..MaxBatch /\ batch.open \in 0..MaxBatch
      /\ batch = [answered |-> batch.answered, open |-> batch.open]
  BY <1>1 DEF TypeOK
<1>3. CASE \/ StartChat \/ EndTurn \/ FailTurn \/ Asking \/ Collect \/ Shown \/ UNCHANGED vars
           \/ \E answered, open \in 0..MaxBatch : AskUser(answered, open)
  <2> USE DEF StartChat, EndTurn, LeftByTurn, FailTurn, Asking, Collect, Shown, AskUser, vars
  <2>1. TypeOK'
    <3>1. CASE \E answered, open \in 0..MaxBatch : AskUser(answered, open)
      BY <1>1, <3>1 DEF TypeOK, Places
    <3>2. CASE StartChat \/ FailTurn \/ Asking \/ Shown \/ UNCHANGED vars
      BY <1>1, <3>2 DEF TypeOK, Places
    <3>3. CASE EndTurn \/ Collect
      BY <1>1, <3>3 DEF TypeOK, Places, Pending
    <3> QED BY <1>3, <3>1, <3>2, <3>3
  <2>2. IdInv'
    BY <1>1, <1>3 DEF IdInv
  <2>3. CurInv' /\ AnsInv'
    BY <1>1, <1>3 DEF CurInv, AnsInv
  <2>4. ShownInv'
    BY <1>1, <1>3 DEF ShownInv, Pending
  <2> QED BY <2>1, <2>2, <2>3, <2>4 DEF IInv
<1>4. CASE AskOpen \/ AskAnswered
  <2>1. /\ pc = "ask" /\ last + 1 \in Questions /\ last' = last + 1
        /\ st' = [st EXCEPT ![last + 1] = "PENDING"]
        /\ UNCHANGED <<ans, mode, todo, shown, faults>>
    <3>1. batch.answered > 0 \/ batch.open > 0
      BY <1>4 DEF AskOpen, AskAnswered
    <3>2. last + 1 \in Questions
      BY <1>1, <1>2, <3>1 DEF IdInv
    <3> QED BY <3>2, <1>4 DEF AskOpen, AskAnswered, CreateQuestion
  <2>2. /\ batch' \in [answered : 0..MaxBatch, open : 0..MaxBatch]
        /\ batch'.answered + batch'.open = batch.answered + batch.open - 1
    <3>1. CASE AskOpen
      <4>1. batch' = [answered |-> batch.answered, open |-> batch.open - 1]
        BY <3>1, <1>2 DEF AskOpen
      <4> QED BY <4>1, <1>2, <3>1 DEF AskOpen
    <3>2. CASE AskAnswered
      <4>1. batch' = [answered |-> batch.answered - 1, open |-> batch.open]
        BY <3>2, <1>2 DEF AskAnswered
      <4>2. batch.answered > 0
        BY <3>2 DEF AskAnswered
      <4>3. batch.answered - 1 \in 0..MaxBatch
        BY <4>2, <1>2
      <4> QED BY <4>1, <4>3, <1>2
    <3> QED BY <1>4, <3>1, <3>2
  <2>3. \/ pc' = pc /\ cur' = cur
        \/ pc' = "replace by agent" /\ cur' = last + 1
    BY <1>4 DEF AskOpen, AskAnswered
  <2>4. TypeOK'
    <3>1. /\ last' \in 0..MaxQuestions /\ cur' \in Questions \cup {0} /\ pc' \in Places
          /\ st' \in [Questions -> {"ABSENT", "PENDING", "REPLACED"}]
      <4>1. last' \in 0..MaxQuestions
        BY <1>2, <2>1
      <4>2. cur' \in Questions \cup {0} /\ pc' \in Places
        BY <1>1, <2>1, <2>3 DEF TypeOK, Places
      <4>3. st' \in [Questions -> {"ABSENT", "PENDING", "REPLACED"}]
        BY <1>1, <2>1 DEF TypeOK
      <4> QED BY <4>1, <4>2, <4>3
    <3> QED BY <1>1, <2>1, <2>2, <3>1 DEF TypeOK
  <2>5. IdInv'
    <3>1. \A q \in Questions : st'[q] = "ABSENT" <=> q > last'
      BY <1>1, <1>2, <2>1 DEF IdInv, TypeOK
    <3>2. last' + batch'.answered + batch'.open <= MaxQuestions
      BY <1>1, <1>2, <2>1, <2>2 DEF IdInv
    <3> QED BY <3>1, <3>2 DEF IdInv
  <2>6. st[last + 1] = "ABSENT"
    BY <1>1, <1>2, <2>1 DEF IdInv
  <2>7. CurInv'
    BY <1>1, <2>1, <2>3 DEF CurInv, TypeOK
  <2>8. AnsInv' /\ ShownInv'
    BY <1>1, <2>1, <2>3, <2>6 DEF AnsInv, ShownInv, TypeOK
  <2> QED BY <2>4, <2>5, <2>7, <2>8 DEF IInv
<1>5. CASE \E q \in Questions, typed \in Typed : Reply(q, typed)
  <2> USE <1>1, <1>5 DEF Reply
  <2>1. TypeOK'
    BY DEF TypeOK, Places
  <2>2. IdInv' /\ CurInv' /\ AnsInv'
    BY DEF IdInv, CurInv, AnsInv, TypeOK
  <2>3. ShownInv'
    BY DEF ShownInv, Pending
  <2> QED BY <2>1, <2>2, <2>3 DEF IInv
<1>6. CASE Replace
  <2>1. cur \in Questions /\ st[cur] = "PENDING" /\ ans[cur] = 0
    BY <1>1, <1>6 DEF Replace, CurInv, AnsInv
  <2>2. TypeOK' /\ IdInv'
    BY <1>1, <1>6, <2>1 DEF Replace, TypeOK, Places, IdInv
  <2>3. CurInv' /\ AnsInv'
    BY <1>1, <1>6, <2>1 DEF Replace, TypeOK, CurInv, AnsInv
  <2>4. ShownInv'
    BY <1>1, <1>6, <2>1 DEF Replace, TypeOK, ShownInv, Pending
  <2> QED BY <2>2, <2>3, <2>4 DEF IInv
<1>7. CASE Record
  <2>1. cur \in Questions /\ st[cur] = "REPLACED" /\ ans[cur] = 0
    BY <1>1, <1>7 DEF Record, CurInv
  <2>2. ans' = [ans EXCEPT ![cur] = 1] /\ UNCHANGED <<st, last, mode, batch, shown, faults>>
    <3>1. ans[cur] + 1 = 1
      BY <2>1
    <3>2. ans' = [ans EXCEPT ![cur] = ans[cur] + 1]
      BY <1>7 DEF Record
    <3> QED BY <3>1, <3>2, <1>7 DEF Record
  <2>3. /\ pc \in AtAnswer /\ todo' = todo \ {cur} /\ cur' = 0
        /\ pc' = IF pc = "answer by agent" THEN "ask" ELSE "prompt"
    BY <1>7 DEF Record, Resume
  <2>4. TypeOK' /\ IdInv'
    BY <1>1, <2>1, <2>2, <2>3 DEF TypeOK, Places, IdInv
  <2>5. CurInv'
    BY <2>3 DEF CurInv
  <2>7. AnsInv'
    BY <1>1, <2>1, <2>2 DEF AnsInv, TypeOK
  <2>6. ShownInv'
    BY <1>1, <2>1, <2>2, <2>3 DEF ShownInv, Pending
  <2> QED BY <2>4, <2>5, <2>6, <2>7 DEF IInv
<1>8. CASE Kill \/ WriteFails
  <2>1. /\ faults' = faults + 1 /\ faults < MaxFaults
        /\ batch' = [answered |-> 0, open |-> 0] /\ cur' = 0 /\ pc' \in {"stopped", "turn"}
        /\ todo' \in {{}, todo} /\ shown' \in {{}, shown} /\ UNCHANGED <<st, last, ans, mode>>
    BY <1>8 DEF Kill, Forget, WriteFails
  <2>2. TypeOK'
    <3>1. faults' \in 0..MaxFaults /\ 0 \in 0..MaxBatch
      BY <1>2, <2>1
    <3>2. batch' \in [answered : 0..MaxBatch, open : 0..MaxBatch]
      BY <2>1, <3>1
    <3> QED BY <1>1, <2>1, <3>1, <3>2 DEF TypeOK, Places
  <2>3. IdInv'
    BY <1>1, <1>2, <2>1 DEF IdInv
  <2>4. CurInv' /\ AnsInv' /\ ShownInv'
    BY <1>1, <2>1 DEF CurInv, AnsInv, ShownInv
  <2> QED BY <2>2, <2>3, <2>4 DEF IInv
<1> QED
  BY <1>3, <1>4, <1>5, <1>6, <1>7, <1>8 DEF Next, Ask, Chat, Write

LEMMA Invariant == Spec => []IInv
<1>1. Init => IInv
  BY InvInit
<1>2. IInv /\ [Next]_vars => IInv'
  BY InvNext
<1> QED BY <1>1, <1>2, PTL DEF Spec

(* Every variable keeps its shape.                                          *)
THEOREM QuestionTypeCorrect == Spec => []TypeOK
<1>1. IInv => TypeOK
  BY DEF IInv
<1> QED BY <1>1, Invariant, PTL

(* No question gets two answers.                                            *)
THEOREM OneAnswerEach == Spec => []AnsweredOnce
<1>1. IInv => AnsweredOnce
  BY DEF IInv, AnsInv, AnsweredOnce
<1> QED BY <1>1, Invariant, PTL

(* chat goes on only after it showed every PENDING question.                *)
THEOREM AllAreShown == Spec => EveryQuestionIsShown
<1>1. IInv /\ [Next]_vars =>
        [ (pc = "prompt" /\ pc' = "turn") => Pending \subseteq shown ]_vars
  <2> SUFFICES ASSUME IInv, Next, pc = "prompt", pc' = "turn" PROVE Pending \subseteq shown
    OBVIOUS
  <2>1. todo = {}
    BY DEF Next, Ask, Chat, Write, StartChat, EndTurn, FailTurn, AskUser, AskOpen, AskAnswered, Asking,
       Collect, Shown, Reply, Replace, Record, Kill, WriteFails
  <2> QED BY <2>1 DEF IInv, ShownInv
<1> QED BY <1>1, Invariant, PTL DEF Spec, EveryQuestionIsShown

LossInv == IInv /\ LossNeedsFault

LEMMA LostFinite == \A S \in SUBSET Questions : IsFiniteSet(S) /\ Cardinality(S) \in Nat
<1>1. IsFiniteSet(Questions)
  BY QuestionAssumption, FS_Interval DEF Questions
<1> QED BY <1>1, FS_Subset, FS_CardinalityType

LEMMA LossNext == LossInv /\ [Next]_vars => LossInv'
<1> SUFFICES ASSUME LossInv, [Next]_vars PROVE LossNeedsFault'
  BY InvNext DEF LossInv
<1>0. LossNeedsFault /\ TypeOK /\ CurInv
  BY DEF LossInv, IInv
<1>1. Lost \in SUBSET Questions /\ Lost' \in SUBSET Questions
  BY DEF Lost
<1>2. ASSUME Lost' \subseteq Lost, faults' >= faults, faults' \in Nat, faults \in Nat PROVE LossNeedsFault'
  <2>1. Cardinality(Lost') <= Cardinality(Lost)
    BY <1>1, <1>2, LostFinite, FS_Subset
  <2>2. Cardinality(Lost) \in Nat /\ Cardinality(Lost') \in Nat /\ Cardinality(Lost) <= faults
    BY <1>0, <1>1, LostFinite DEF LossNeedsFault
  <2>3. Cardinality(Lost') <= faults'
    BY <1>2, <2>1, <2>2
  <2> QED BY <2>3 DEF LossNeedsFault
<1>3. faults \in Nat /\ faults' \in Nat
  <2>1. TypeOK'
    BY InvNext DEF LossInv, IInv
  <2> QED BY <1>0, <2>1, QuestionAssumption DEF TypeOK
<1>4. CASE Kill \/ WriteFails
  <2>1. Lost' \subseteq Lost \cup {cur} /\ faults' = faults + 1
    BY <1>4 DEF Kill, WriteFails, Lost
  <2>2. Cardinality(Lost \cup {cur}) <= Cardinality(Lost) + 1 /\ IsFiniteSet(Lost \cup {cur})
    <3>1. IsFiniteSet(Lost) /\ Cardinality(Lost) \in Nat
      BY <1>1, LostFinite
    <3> QED BY <3>1, FS_AddElement
  <2>3. Cardinality(Lost') <= Cardinality(Lost \cup {cur}) /\ Cardinality(Lost \cup {cur}) \in Nat
    BY <2>1, <2>2, FS_Subset, FS_CardinalityType
  <2>4. Cardinality(Lost) \in Nat /\ Cardinality(Lost') \in Nat /\ Cardinality(Lost) <= faults
    BY <1>0, <1>1, LostFinite DEF LossNeedsFault
  <2>5. Cardinality(Lost') <= faults'
    BY <1>3, <2>1, <2>2, <2>3, <2>4
  <2> QED BY <2>5 DEF LossNeedsFault
<1>5. CASE Replace \/ Record
  <2>1. Lost' \subseteq Lost
    <3>1. CASE Replace
      BY <1>0, <3>1 DEF Replace, Lost, CurInv, AtReplace, TypeOK
    <3>2. CASE Record
      <4>1. cur \in Questions /\ ans[cur] = 0 /\ st' = st
        BY <1>0, <3>2 DEF Record, CurInv, AtAnswer
      <4>2. ans' = [ans EXCEPT ![cur] = ans[cur] + 1]
        BY <3>2 DEF Record
      <4>3. ans[cur] + 1 = 1
        BY <4>1
      <4> QED BY <1>0, <4>1, <4>2, <4>3 DEF Lost, TypeOK
    <3> QED BY <1>5, <3>1, <3>2
  <2>2. faults' = faults
    BY <1>5 DEF Replace, Record
  <2> QED BY <2>1, <2>2, <1>3, <1>2
<1>6. CASE AskOpen \/ AskAnswered
  <2>1. Lost' \subseteq Lost
    <3>1. st' = [st EXCEPT ![last + 1] = "PENDING"] /\ ans' = ans /\ pc = "ask"
      BY <1>6 DEF AskOpen, AskAnswered, CreateQuestion
    <3>2. \A q \in Questions : st'[q] = "REPLACED" => st[q] = "REPLACED"
      BY <1>0, <3>1 DEF TypeOK
    <3>3. cur \notin Questions
      BY <1>0, <3>1 DEF CurInv, AtReplace, AtAnswer, Questions, NoCur
    <3> QED BY <3>1, <3>2, <3>3 DEF Lost
  <2>2. faults' = faults
    BY <1>6 DEF AskOpen, AskAnswered
  <2> QED BY <2>1, <2>2, <1>3, <1>2
<1>7. CASE \E q \in Questions, typed \in Typed : Reply(q, typed)
  <2>1. Lost' \subseteq Lost /\ faults' = faults
    <3>1. UNCHANGED <<st, ans, faults>> /\ pc = "prompt"
      BY <1>7 DEF Reply
    <3>2. cur \notin Questions
      BY <1>0, <3>1 DEF CurInv, AtReplace, AtAnswer, Questions, NoCur
    <3> QED BY <3>1, <3>2 DEF Lost
  <2> QED BY <2>1, <1>3, <1>2
<1>8. CASE \/ StartChat \/ EndTurn \/ FailTurn \/ Asking \/ Collect \/ Shown \/ UNCHANGED vars
           \/ \E answered, open \in 0..MaxBatch : AskUser(answered, open)
  <2>1. Lost' = Lost /\ faults' = faults
    BY <1>8 DEF StartChat, EndTurn, FailTurn, Asking, Collect, Shown, AskUser, Lost, vars
  <2> QED BY <2>1, <1>3, <1>2
<1> QED BY <1>4, <1>5, <1>6, <1>7, <1>8 DEF Next, Ask, Chat, Write

(* Only an interruption loses an answer: each one loses at most one.        *)
THEOREM LossIsBounded == Spec => []LossNeedsFault
<1>1. Init => LossInv
  <2> SUFFICES ASSUME Init PROVE LossNeedsFault
    BY InvInit DEF LossInv
  <2>1. Lost = {} /\ faults = 0
    BY DEF Init, Lost
  <2> QED BY <2>1, FS_EmptySet DEF LossNeedsFault
<1>2. LossInv => LossNeedsFault
  BY DEF LossInv
<1> QED BY <1>1, <1>2, LossNext, PTL DEF Spec

=============================================================================
