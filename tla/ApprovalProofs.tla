---------------------------- MODULE ApprovalProofs ----------------------------
(* Theorems about Approval, for any stories, batches, calls and bounds.     *)
EXTENDS Approval, FiniteSetTheorems, TLAPS

(* What the first k events of the ledger say.                               *)
Word(k) == IF k = 0 \/ log[k].type = "revoked" THEN NoApproval ELSE log[k]

(* A call that is under way holds the clock of its beginning and the word   *)
(* of a prefix of the ledger.                                               *)
ReadInv == \A c \in Calls :
  /\ call[c].pc # "done" => call[c].result = "none"
  /\ call[c].pc \in {"log", "decide"} =>
       /\ call[c].began = call[c].now /\ call[c].now <= clock /\ call[c].since <= Len(log)
  /\ call[c].pc = "decide" =>
       /\ call[c].since <= call[c].upto /\ call[c].upto <= Len(log)
       /\ call[c].approval = Word(call[c].upto)

(* What a call has read, or will be judged by, is a prefix of the ledger.   *)
PrefixInv == \A c \in Calls : call[c].upto <= Len(log)

IInv == TypeOK /\ ReadInv /\ PrefixInv /\ CreatedWasCovered /\ CoveredIsNotRefused

LEMMA ScopeType == ASSUME NEW batch \in Batches PROVE ScopeHash(batch) \in Scopes
<1>1. batch \in Seq(Stories)
  BY ApprovalAssumption
<1> SUFFICES ASSUME NEW s \in Stories
             PROVE Cardinality({i \in DOMAIN batch : batch[i] = s}) \in Nat
  BY DEF ScopeHash, Scopes
<1>2. DOMAIN batch = 1..Len(batch) /\ Len(batch) \in Nat
  BY <1>1
<1>3. IsFiniteSet(DOMAIN batch)
  BY <1>2, FS_Interval
<1>4. {i \in DOMAIN batch : batch[i] = s} \subseteq DOMAIN batch
  OBVIOUS
<1>5. IsFiniteSet({i \in DOMAIN batch : batch[i] = s})
  BY <1>3, <1>4, FS_Subset
<1> QED BY <1>5, FS_CardinalityType

(* A scope that names the batch is its hash, and the other way round.       *)
LEMMA SameScope == ASSUME NEW scope \in Scopes, NEW batch \in Batches
                   PROVE SameBatch(scope, batch) <=> scope = ScopeHash(batch)
BY DEF Scopes, SameBatch, ScopeHash

LEMMA InvInit == Init => IInv
<1> SUFFICES ASSUME Init PROVE IInv OBVIOUS
<1>1. TypeOK
  BY DEF Init, TypeOK, CallRecords, Results, NoApproval
<1>2. ReadInv /\ PrefixInv /\ CreatedWasCovered /\ CoveredIsNotRefused
  BY DEF Init, ReadInv, PrefixInv, CreatedWasCovered, CoveredIsNotRefused
<1> QED BY <1>1, <1>2 DEF IInv

(* Steps of the user and the clock: the ledger grows, the clock does not go *)
(* back, no call moves.                                                     *)
LEMMA OutsideStep ==
  ASSUME IInv, TypeOK', UNCHANGED call, clock <= clock',
         log' = log \/ \E e : e \in Granted \cup Revoked /\ log' = Append(log, e)
  PROVE IInv'
<1>1. TypeOK /\ ReadInv /\ PrefixInv /\ CreatedWasCovered /\ CoveredIsNotRefused
  BY DEF IInv
<1>2. log \in Seq(Granted \cup Revoked) /\ clock \in Nat /\ clock' \in Nat
  BY <1>1 DEF TypeOK, CallRecords
<1>3. Len(log) \in Nat /\ Len(log') \in Nat /\ Len(log) <= Len(log')
  BY <1>2
<1>4. \A k \in 1..Len(log) : log'[k] = log[k]
  BY <1>2
<1>5. ASSUME NEW c \in Calls
      PROVE call[c].now \in Nat /\ call[c].since \in Nat /\ call[c].upto \in Nat /\ call[c].ended \in Nat
  BY <1>1 DEF TypeOK, CallRecords
<1>6. \A k \in 0..Len(log) : Word(k)' = Word(k)
  BY <1>4 DEF Word
<1>7. ASSUME NEW batch, NEW t, NEW k \in 0..Len(log) PROVE CoveredAt(batch, k, t)' <=> CoveredAt(batch, k, t)
  BY <1>4 DEF CoveredAt, SameBatch
<1>8. ReadInv'
  <2> SUFFICES ASSUME NEW c \in Calls, call[c].pc \in {"log", "decide"}
               PROVE /\ call[c].now <= clock' /\ call[c].since <= Len(log')
                     /\ call[c].pc = "decide" => /\ call[c].upto <= Len(log')
                                                 /\ call[c].approval = Word(call[c].upto)'
    BY <1>1 DEF ReadInv
  <2>1. call[c].now <= clock' /\ call[c].since <= Len(log')
    BY <1>1, <1>2, <1>3, <1>5 DEF ReadInv
  <2>2. CASE call[c].pc = "decide"
    BY <1>1, <1>3, <1>5, <1>6, <2>1, <2>2 DEF ReadInv
  <2> QED BY <2>1, <2>2
<1>9. PrefixInv'
  BY <1>1, <1>3, <1>5 DEF PrefixInv
<1>10. CreatedWasCovered'
  <2> SUFFICES ASSUME NEW c \in Calls, call[c].result = "created"
               PROVE \E k \in call[c].since..call[c].upto, t \in call[c].began..call[c].ended :
                       CoveredAt(call[c].batch, k, t)'
    BY <1>1 DEF CreatedWasCovered
  <2>1. call[c].pc = "done"
    BY <1>1 DEF ReadInv
  <2>2. call[c].upto <= Len(log)
    BY <1>1, <2>1 DEF PrefixInv
  <2>3. PICK k \in call[c].since..call[c].upto, t \in call[c].began..call[c].ended :
          CoveredAt(call[c].batch, k, t)
    BY <1>1 DEF CreatedWasCovered
  <2>4. k \in 0..Len(log)
    BY <1>3, <1>5, <2>2, <2>3
  <2>5. CoveredAt(call[c].batch, k, t)'
    BY <1>7, <2>3, <2>4
  <2> QED BY <2>5
<1>11. CoveredIsNotRefused'
  <2> SUFFICES ASSUME NEW c \in Calls, call[c].pc = "done", Gated(c),
                      \A k \in call[c].since..call[c].upto :
                        CoveredAt(call[c].batch, k, call[c].ended)'
               PROVE call[c].result \in {"created", "PLAN_NOT_APPROVED", "MISSING_STORY_IDS"}
    BY DEF CoveredIsNotRefused, Gated
  <2>1. \A k \in call[c].since..call[c].upto : k \in 0..Len(log)
    BY <1>1, <1>3, <1>5 DEF PrefixInv
  <2>2. \A k \in call[c].since..call[c].upto : CoveredAt(call[c].batch, k, call[c].ended)
    BY <1>7, <2>1
  <2> QED BY <1>1, <2>2 DEF CoveredIsNotRefused
<1> QED BY <1>8, <1>9, <1>10, <1>11 DEF IInv

(* Where one step of a call leads: the record of c after each of them.      *)
LEMMA CallStep ==
  ASSUME IInv, NEW c \in Calls, NEW r, call' = [call EXCEPT ![c] = r], UNCHANGED <<log, clock>>,
         TypeOK',
         r.pc # "done" => r.result = "none",
         r.pc \in {"log", "decide"} => r.began = r.now /\ r.now <= clock /\ r.since <= Len(log),
         r.pc = "decide" => r.since <= r.upto /\ r.upto <= Len(log) /\ r.approval = Word(r.upto),
         r.upto <= Len(log),
         r.result = "created" =>
           /\ r.plan = "APPROVED" /\ r.batch # <<>>
           /\ \E k \in r.since..r.upto, t \in r.began..r.ended : CoveredAt(r.batch, k, t),
         /\ r.pc = "done" /\ r.operation = "create"
         /\ \A k \in r.since..r.upto : CoveredAt(r.batch, k, r.ended)
         => r.result \in {"created", "PLAN_NOT_APPROVED", "MISSING_STORY_IDS"}
  PROVE IInv'
<1>1. TypeOK /\ ReadInv /\ PrefixInv /\ CreatedWasCovered /\ CoveredIsNotRefused
  BY DEF IInv
<1>2. \A d \in Calls : call'[d] = IF d = c THEN r ELSE call[d]
  BY <1>1 DEF TypeOK, CallRecords
<1>3. ReadInv'
  BY <1>1, <1>2 DEF ReadInv, Word
<1>4. PrefixInv'
  BY <1>1, <1>2 DEF PrefixInv
<1>5. \A batch, k, t : CoveredAt(batch, k, t)' <=> CoveredAt(batch, k, t)
  BY DEF CoveredAt, SameBatch
<1>6. CreatedWasCovered'
  BY <1>1, <1>2, <1>5 DEF CreatedWasCovered
<1>7. CoveredIsNotRefused'
  BY <1>1, <1>2, <1>5 DEF CoveredIsNotRefused, Gated
<1> QED BY <1>3, <1>4, <1>6, <1>7 DEF IInv

LEMMA InvNext == IInv /\ [Next]_vars => IInv'
<1> SUFFICES ASSUME IInv, [Next]_vars PROVE IInv' OBVIOUS
<1>1. TypeOK /\ ReadInv /\ PrefixInv /\ CreatedWasCovered /\ CoveredIsNotRefused
  BY DEF IInv
<1>2. log \in Seq(Granted \cup Revoked) /\ clock \in Nat /\ Len(log) \in Nat
  BY <1>1 DEF TypeOK, CallRecords
<1>3. CASE UNCHANGED vars
  <2>1. TypeOK'
    BY <1>1, <1>3 DEF TypeOK, CallRecords, vars
  <2> QED BY <2>1, <1>2, <1>3, OutsideStep DEF vars
<1>4. ASSUME NEW batch \in Batches, Grant(batch) PROVE IInv'
  <2> DEFINE e == [type |-> "granted", scope |-> ScopeHash(batch), expires |-> clock + Ttl]
  <2>1. e \in Granted
    BY <1>1, ScopeType, ApprovalAssumption DEF Granted, TypeOK, CallRecords
  <2>2. log' = Append(log, e) /\ UNCHANGED <<clock, call>>
    BY <1>4 DEF Grant
  <2>3. TypeOK'
    BY <1>1, <2>1, <2>2 DEF TypeOK, CallRecords
  <2> QED BY <1>2, <2>1, <2>2, <2>3, OutsideStep
<1>5. CASE Revoke
  <2> DEFINE e == [type |-> "revoked"]
  <2>1. e \in Revoked
    BY DEF Revoked
  <2>2. log' = Append(log, e) /\ UNCHANGED <<clock, call>>
    BY <1>5 DEF Revoke
  <2>3. TypeOK'
    BY <1>1, <2>1, <2>2 DEF TypeOK, CallRecords
  <2> QED BY <1>2, <2>1, <2>2, <2>3, OutsideStep
<1>6. CASE Tick
  <2>1. clock' = clock + 1 /\ UNCHANGED <<log, call>>
    BY <1>6 DEF Tick
  <2>2. TypeOK'
    BY <1>1, <2>1 DEF TypeOK, CallRecords
  <2> QED BY <1>2, <2>1, <2>2, OutsideStep
<1>7. ASSUME NEW c \in Calls, Call(c) PROVE IInv'
  <2>1. /\ call[c].now \in Nat /\ call[c].since \in Nat /\ call[c].upto \in Nat
        /\ call[c].batch \in Batches /\ call[c].began \in Nat
    BY <1>1 DEF TypeOK, CallRecords
  <2>2. CASE ReadClock(c)
    <3> DEFINE r == [call[c] EXCEPT !.pc = "log", !.now = clock, !.since = Len(log), !.began = clock]
    <3>1. call' = [call EXCEPT ![c] = r] /\ UNCHANGED <<log, clock>> /\ call[c].pc = "start"
      BY <1>1, <2>2 DEF ReadClock, TypeOK, CallRecords
    <3>2. TypeOK'
      BY <1>1, <1>2, <3>1 DEF TypeOK, CallRecords
    <3>3. /\ r.pc = "log" /\ r.now = clock /\ r.began = clock /\ r.since = Len(log)
          /\ r.result = "none"
      BY <1>1, <3>1 DEF ReadInv, TypeOK, CallRecords
    <3>4. r.upto <= Len(log)
      BY <1>1, <3>1 DEF PrefixInv, CallRecords, TypeOK
    <3> HIDE DEF r
    <3>5. /\ r.result # "created" /\ r.pc # "done" /\ r.pc # "decide"
          /\ r.began = r.now /\ r.now <= clock /\ r.since <= Len(log)
      BY <1>2, <3>3
    <3> QED BY <3>1, <3>2, <3>3, <3>4, <3>5, CallStep
  <2>3. CASE ReadLog(c)
    <3> DEFINE r == [call[c] EXCEPT !.pc = "decide", !.approval = Active(log), !.upto = Len(log)]
    <3>1. call' = [call EXCEPT ![c] = r] /\ UNCHANGED <<log, clock>> /\ call[c].pc = "log"
      BY <1>1, <2>3 DEF ReadLog, TypeOK, CallRecords
    <3>2. Active(log) = Word(Len(log))
      BY <1>2 DEF Active, Word
    <3>3. Active(log) \in Granted \cup {NoApproval}
      BY <1>2 DEF Active, Revoked
    <3>4. TypeOK'
      BY <1>1, <1>2, <3>1, <3>3 DEF TypeOK, CallRecords
    <3>5. /\ r.pc = "decide" /\ r.upto = Len(log) /\ r.approval = Active(log)
          /\ r.now = call[c].now /\ r.began = call[c].began /\ r.since = call[c].since
          /\ r.result = "none"
      BY <1>1, <3>1 DEF ReadInv, TypeOK, CallRecords
    <3>6. r.began = r.now /\ r.now <= clock /\ r.since <= Len(log)
      BY <1>1, <3>1, <3>5 DEF ReadInv
    <3> HIDE DEF r
    <3>7. /\ r.result # "created" /\ r.pc # "done"
          /\ r.since <= r.upto /\ r.upto <= Len(log) /\ r.approval = Word(r.upto)
      BY <1>2, <3>2, <3>5, <3>6
    <3> QED BY <3>1, <3>4, <3>5, <3>6, <3>7, CallStep
  <2>4. CASE Decide(c)
    <3> DEFINE res == IF Gate(c) = "passed" THEN Body(c) ELSE Gate(c)
               r == [call[c] EXCEPT !.pc = "done", !.result = res, !.ended = clock]
    <3>1. call' = [call EXCEPT ![c] = r] /\ UNCHANGED <<log, clock>> /\ call[c].pc = "decide"
      BY <1>1, <2>4 DEF Decide, Finish, TypeOK, CallRecords
    <3>2. res \in Results
      BY DEF Results, Gate, Body
    <3>3. TypeOK'
      <4>1. r \in CallRecords
        BY <1>1, <1>2, <3>2 DEF TypeOK, CallRecords
      <4> HIDE DEF r
      <4> QED BY <1>1, <3>1, <4>1 DEF TypeOK, CallRecords
    <3>4. /\ r.pc = "done" /\ r.result = res /\ r.ended = clock
          /\ r.upto = call[c].upto /\ r.since = call[c].since /\ r.began = call[c].began
          /\ r.batch = call[c].batch /\ r.plan = call[c].plan
      BY <1>1 DEF TypeOK, CallRecords
    <3>5. /\ call[c].began = call[c].now /\ call[c].now <= clock
          /\ call[c].since <= call[c].upto /\ call[c].upto <= Len(log)
          /\ call[c].approval = Word(call[c].upto)
      BY <1>1, <3>1 DEF ReadInv
    <3> DEFINE k == call[c].upto
    <3>6. k \in call[c].since..call[c].upto /\ call[c].now \in call[c].began..clock
      BY <1>2, <2>1, <3>5
    <3>7. k > 0 => log[k] \in Granted \cup Revoked
      BY <1>2, <2>1, <3>5
    <3>8. Gate(c) = "passed" => CoveredAt(call[c].batch, k, call[c].now)
      <4> SUFFICES ASSUME Gate(c) = "passed" PROVE CoveredAt(call[c].batch, k, call[c].now)
        OBVIOUS
      <4>1. /\ call[c].approval # NoApproval /\ ~(call[c].now > call[c].approval.expires)
            /\ call[c].approval.scope = ScopeHash(call[c].batch)
        BY DEF Gate
      <4>2. k > 0 /\ log[k].type # "revoked" /\ call[c].approval = log[k]
        BY <2>1, <3>5, <4>1 DEF Word
      <4>3. log[k] \in Granted
        BY <3>7, <4>2 DEF Revoked
      <4>4. log[k].type = "granted" /\ log[k].expires \in Nat /\ log[k].scope \in Scopes
        BY <4>3 DEF Granted
      <4>5. call[c].now <= log[k].expires
        BY <2>1, <4>1, <4>2, <4>4
      <4> QED BY <2>1, <4>1, <4>2, <4>4, <4>5, SameScope DEF CoveredAt
    <3>9. CoveredAt(call[c].batch, k, clock) => Gate(c) = "passed"
      <4> SUFFICES ASSUME CoveredAt(call[c].batch, k, clock) PROVE Gate(c) = "passed"
        OBVIOUS
      <4>1. k > 0 /\ log[k].type = "granted" /\ SameBatch(log[k].scope, call[c].batch) /\ clock <= log[k].expires
        BY DEF CoveredAt
      <4>2. log[k] \in Granted
        BY <3>7, <4>1 DEF Revoked
      <4>3. log[k].expires \in Nat /\ log[k].scope \in Scopes
        BY <4>2 DEF Granted
      <4>4. log[k].scope = ScopeHash(call[c].batch)
        BY <2>1, <4>1, <4>3, SameScope
      <4>5. call[c].approval = log[k]
        BY <3>5, <4>1 DEF Word
      <4>6. log[k] # NoApproval
        BY <4>1 DEF NoApproval
      <4>7. ~(call[c].now > log[k].expires)
        BY <1>2, <2>1, <3>5, <4>1, <4>3
      <4> QED BY <4>4, <4>5, <4>6, <4>7 DEF Gate
    <3>10. res = "created" => /\ Gate(c) = "passed"
                              /\ call[c].plan = "APPROVED" /\ call[c].batch # <<>>
      BY DEF Gate, Body
    <3>11. Gate(c) = "passed" => res \in {"created", "PLAN_NOT_APPROVED", "MISSING_STORY_IDS"}
      BY DEF Body
    <3> HIDE DEF r, res
    <3>12. r.result = "created" =>
             /\ r.plan = "APPROVED" /\ r.batch # <<>>
             /\ \E j \in r.since..r.upto, t \in r.began..r.ended : CoveredAt(r.batch, j, t)
      BY <3>4, <3>6, <3>8, <3>10
    <3>13. (\A j \in r.since..r.upto : CoveredAt(r.batch, j, r.ended))
           => r.result \in {"created", "PLAN_NOT_APPROVED", "MISSING_STORY_IDS"}
      BY <3>4, <3>6, <3>9, <3>11
    <3> QED BY <3>1, <3>3, <3>4, <3>5, <3>12, <3>13, CallStep
  <2>5. CASE Ungated(c)
    <3> DEFINE r == [call[c] EXCEPT !.pc = "done", !.result = "UNKNOWN_OPERATION", !.ended = clock]
    <3>1. call' = [call EXCEPT ![c] = r] /\ UNCHANGED <<log, clock>>
      BY <1>1, <2>5 DEF Ungated, Finish, TypeOK, CallRecords
    <3>2. TypeOK'
      <4>1. r \in CallRecords
        BY <1>1, <1>2 DEF TypeOK, CallRecords, Results
      <4> HIDE DEF r
      <4> QED BY <1>1, <3>1, <4>1 DEF TypeOK, CallRecords
    <3>3. r.pc = "done" /\ r.result = "UNKNOWN_OPERATION" /\ r.operation # "create" /\ r.upto = call[c].upto
      BY <1>1, <2>5 DEF TypeOK, CallRecords, Ungated, Gated
    <3>4. call[c].upto <= Len(log)
      BY <1>1 DEF PrefixInv
    <3> HIDE DEF r
    <3> QED BY <3>1, <3>2, <3>3, <3>4, CallStep
  <2> QED BY <1>7, <2>2, <2>3, <2>4, <2>5 DEF Call
<1> QED BY <1>3, <1>4, <1>5, <1>6, <1>7 DEF Next, User

LEMMA Invariant == Spec => []IInv
BY InvInit, InvNext, PTL DEF Spec

(* Every variable keeps its shape.                                          *)
THEOREM ApprovalTypeCorrect == Spec => []TypeOK
<1>1. IInv => TypeOK
  BY DEF IInv
<1> QED BY <1>1, Invariant, PTL

(* No issue is created without an approval of the user for that very batch  *)
(* at a moment of the call.                                                 *)
THEOREM CreationIsApproved == Spec => []CreatedWasCovered
<1>1. IInv => CreatedWasCovered
  BY DEF IInv
<1> QED BY <1>1, Invariant, PTL

(* The gate lets through what is approved all the while.                    *)
THEOREM ApprovedPasses == Spec => []CoveredIsNotRefused
<1>1. IInv => CoveredIsNotRefused
  BY DEF IInv
<1> QED BY <1>1, Invariant, PTL
=============================================================================
