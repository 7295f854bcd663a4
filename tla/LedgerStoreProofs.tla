-------------------------- MODULE LedgerStoreProofs --------------------------
(***************************************************************************)
(* LedgerStore for any number of threads, prefixes, keys, calls and faults: *)
(* its types, the order of event ids, and what project.json never loses.    *)
(***************************************************************************)
EXTENDS LedgerStore, FiniteSetTheorems, SequenceTheorems, TLAPS

(* A call that is running is one of Calls, so it has the fields its op has. *)
LEMMA CallShape ==
  ASSUME NEW c \in Calls
  PROVE  /\ c.op \in {"append", "alloc", "field"}
         /\ c.op = "append" => c \in AppendCalls
         /\ c.op = "alloc" => c \in AllocCalls
         /\ c.op = "field" => c \in FieldCalls
         /\ HasPrefix(c) => c.prefix \in Prefixes
         /\ c.op = "append" /\ HasPrefix(c) => c.prefix \in EntityPrefixes
         /\ HasKey(c) => c.key \in Keys
  BY StoreAssumption DEF Calls, AppendCalls, AllocCalls, FieldCalls, HasPrefix,
     HasKey, Prefixes

(* A thread without a call is not in one.                                   *)
LEMMA NoCallShape == NoCall \notin Calls
  BY DEF NoCall, Calls, AppendCalls, AllocCalls, FieldCalls

(* The project.json of a new project is well formed.                        *)
LEMMA EmptyMetaType == EmptyMeta \in Meta /\ InitField \in Fields
  BY StoreAssumption DEF EmptyMeta, Meta, Recorded, NotRecorded, InitField

(* The store of a new project has its types.                                *)
LEMMA InitTypeOK == Init => TypeOK
  <1> SUFFICES ASSUME Init PROVE TypeOK
    OBVIOUS
  <1>1. handed \in [Prefixes -> Seq(Nat)] /\ log \in Seq(Event)
    BY DEF Init
  <1>2. calls \in 0..MaxCalls /\ faults \in 0..MaxFaults
    BY StoreAssumption DEF Init
  <1> QED
    BY <1>1, <1>2, EmptyMetaType DEF Init, TypeOK

(* Leaving the lock block resets the thread's locals and frees the lock.    *)
LEMMA LeaveTypeOK ==
  ASSUME TypeOK, NEW t \in Threads, Leave(t)
  PROVE  /\ lock' \in Threads \cup {None}
         /\ pc' \in [Threads -> {"idle", "acquire", "check", "number", "write",
                                 "save", "return"}]
         /\ call' \in [Threads -> Calls \cup {NoCall}]
         /\ snap' \in [Threads -> Meta]
         /\ ent' \in [Threads -> Nat] /\ evt' \in [Threads -> Nat]
  BY EmptyMetaType DEF TypeOK, Leave

(* The number an append counts on from is a number, cache cold or warm.     *)
LEMMA LastNumberType == TypeOK => CacheBase \in Nat
  <1> SUFFICES ASSUME TypeOK PROVE CacheBase \in Nat
    OBVIOUS
  <1>1. ASSUME log # <<>> PROVE log[Len(log)] \in Event
    <2>1. log \in Seq(Event)
      BY DEF TypeOK
    <2>2. Len(log) \in DOMAIN log
      BY <1>1, <2>1
    <2> QED
      BY <2>1, <2>2
  <1>2. LastEventNumber \in Nat
    BY <1>1 DEF LastEventNumber, Event
  <1> QED
    BY <1>2 DEF CacheBase, TypeOK, Cold

(* Only a running thread takes the steps below, so its call has a shape.    *)
LEMMA RunningCall ==
  ASSUME TypeOK, CallInv, NEW t \in Threads, pc[t] # "idle"
  PROVE  call[t] \in Calls
  BY DEF TypeOK, CallInv

(* Every step keeps the types.                                              *)
LEMMA StepTypeOK ==
  ASSUME TypeOK, CallInv, NumberInv, [Next]_vars
  PROVE  TypeOK'
  <1> USE StoreAssumption
  <1>1. ASSUME NEW t \in Threads, Start(t) PROVE TypeOK'
    BY <1>1 DEF Start, TypeOK, disk
  <1>2. ASSUME NEW t \in Threads, Acquire(t) PROVE TypeOK'
    BY <1>2 DEF Acquire, TypeOK, disk
  <1>3. ASSUME NEW t \in Threads, Replay(t) PROVE TypeOK'
    BY <1>3, LeaveTypeOK DEF Replay, TypeOK, disk
  <1>4. ASSUME NEW t \in Threads, TakeId(t) PROVE TypeOK'
    <2>1. call[t] \in Calls
      BY <1>4, RunningCall DEF TakeId
    <2>2. CASE HasPrefix(call[t])
      <3>1. call[t].prefix \in Prefixes
        BY <2>1, <2>2, CallShape
      <3>2. snap[t].ctr[call[t].prefix] + 1 \in Nat
        BY <3>1 DEF TypeOK, Meta
      <3>3. snap' = [snap EXCEPT ![t].ctr[call[t].prefix] = @ + 1]
        BY <1>4, <2>2 DEF TakeId, Bump
      <3>4. snap' \in [Threads -> Meta]
        BY <3>1, <3>2, <3>3 DEF TypeOK, Meta
      <3>5. ent' \in [Threads -> Nat]
        BY <1>4, <2>2, <3>2 DEF TakeId, Bump, TypeOK
      <3> QED
        BY <1>4, <3>4, <3>5 DEF TakeId, TypeOK, disk
    <2>3. CASE ~HasPrefix(call[t])
      BY <1>4, <2>3 DEF TakeId, Bump, TypeOK, disk
    <2> QED
      BY <2>2, <2>3
  <1>5. ASSUME NEW t \in Threads, SetField(t) PROVE TypeOK'
    <2>1. call[t] \in Calls
      BY <1>5, RunningCall DEF SetField
    <2>2. call[t].value \in Fields
      BY <1>5, <2>1, CallShape DEF SetField, FieldCalls
    <2>3. snap' \in [Threads -> Meta]
      BY <1>5, <2>2 DEF SetField, TypeOK, Meta
    <2> QED
      BY <1>5, <2>3 DEF SetField, TypeOK, disk
  <1>6. ASSUME NEW t \in Threads, NextEventId(t) PROVE TypeOK'
    BY <1>6, LastNumberType DEF NextEventId, TypeOK, disk
  <1>7. ASSUME NEW t \in Threads, Reject(t) PROVE TypeOK'
    <2>1. cache' \in Nat
      BY <1>7, LastNumberType DEF Reject
    <2> QED
      BY <1>7, <2>1, LeaveTypeOK DEF Reject, TypeOK, disk
  <1>8. ASSUME NEW t \in Threads, Unreadable(t) PROVE TypeOK'
    BY <1>8, LeaveTypeOK DEF Unreadable, TypeOK, disk
  <1>9. ASSUME NEW t \in Threads, WriteLine(t) PROVE TypeOK'
    <2>1. call[t] \in AppendCalls
      BY <1>9, RunningCall, CallShape DEF WriteLine, CallInv
    <2>2. NewEvent(t) \in Event
      BY <1>9, <2>1 DEF WriteLine, NumberInv, NewEvent, TypeOK, AppendCalls, Event
    <2>3. snap' \in [Threads -> Meta]
      <3>1. CASE HasKey(call[t])
        <4>1. call[t].key \in Keys
          BY <1>9, <3>1, RunningCall, CallShape DEF WriteLine
        <4>2. [evt |-> evt[t], n |-> ent[t]] \in Recorded
          BY DEF TypeOK, Recorded
        <4>3. snap' = [snap EXCEPT ![t].idem[call[t].key] =
                                     [evt |-> evt[t], n |-> ent[t]]]
          BY <1>9, <3>1 DEF WriteLine
        <4> QED
          BY <4>1, <4>2, <4>3 DEF TypeOK, Meta
      <3> QED
        BY <1>9, <3>1 DEF WriteLine, TypeOK
    <2>4. log' \in Seq(Event)
      BY <1>9, <2>2 DEF WriteLine, TypeOK
    <2> QED
      BY <1>9, <2>3, <2>4 DEF WriteLine, TypeOK, disk
  <1>10. ASSUME NEW t \in Threads, SaveMeta(t) PROVE TypeOK'
    BY <1>10 DEF SaveMeta, TypeOK, locals
  <1>11. ASSUME NEW t \in Threads, Return(t) PROVE TypeOK'
    <2>1. call[t] \in Calls
      BY <1>11, RunningCall DEF Return
    <2>2. handed' \in [Prefixes -> Seq(Nat)]
      BY <1>11, <2>1, CallShape DEF Return, TypeOK
    <2> QED
      BY <1>11, <2>2, LeaveTypeOK DEF Return, TypeOK, disk
  <1>12. ASSUME NEW t \in Threads, IOError(t) PROVE TypeOK'
    <2>1. faults' \in 0..MaxFaults
      BY <1>12 DEF IOError, TypeOK
    <2> QED
      BY <1>12, <2>1, LeaveTypeOK DEF IOError, TypeOK, disk
  <1>13. ASSUME Crash PROVE TypeOK'
    <2>1. faults' \in 0..MaxFaults /\ torn' \in BOOLEAN
      BY <1>13 DEF Crash, TypeOK
    <2> QED
      BY <1>13, <2>1, EmptyMetaType DEF Crash, TypeOK
  <1>14. CASE UNCHANGED vars
    BY <1>14 DEF vars, TypeOK
  <1> QED
    BY <1>1, <1>2, <1>3, <1>4, <1>5, <1>6, <1>7, <1>8, <1>9, <1>10, <1>11,
       <1>12, <1>13, <1>14 DEF Next, Step

(* The lock is held by exactly the thread inside the block, and a thread    *)
(* that is idle has no call.                                                *)
LEMMA StepLockInv ==
  ASSUME TypeOK, LockInv, CallInv, [Next]_vars
  PROVE  LockInv' /\ CallInv'
  <1> USE StoreAssumption, NoCallShape DEF LockInv, CallInv, InBlock, TypeOK
  <1>1. ASSUME NEW t \in Threads, Start(t) PROVE LockInv' /\ CallInv'
    BY <1>1 DEF Start
  <1>2. ASSUME NEW t \in Threads, Acquire(t) PROVE LockInv' /\ CallInv'
    BY <1>2 DEF Acquire
  <1>3. ASSUME NEW t \in Threads, Replay(t) PROVE LockInv' /\ CallInv'
    BY <1>3 DEF Replay, Leave
  <1>4. ASSUME NEW t \in Threads, TakeId(t) PROVE LockInv' /\ CallInv'
    BY <1>4 DEF TakeId
  <1>5. ASSUME NEW t \in Threads, SetField(t) PROVE LockInv' /\ CallInv'
    BY <1>5 DEF SetField
  <1>6. ASSUME NEW t \in Threads, NextEventId(t) PROVE LockInv' /\ CallInv'
    BY <1>6 DEF NextEventId
  <1>7. ASSUME NEW t \in Threads, Reject(t) PROVE LockInv' /\ CallInv'
    BY <1>7 DEF Reject, Leave
  <1>8. ASSUME NEW t \in Threads, Unreadable(t) PROVE LockInv' /\ CallInv'
    BY <1>8 DEF Unreadable, Leave
  <1>9. ASSUME NEW t \in Threads, WriteLine(t) PROVE LockInv' /\ CallInv'
    BY <1>9 DEF WriteLine
  <1>10. ASSUME NEW t \in Threads, SaveMeta(t) PROVE LockInv' /\ CallInv'
    BY <1>10 DEF SaveMeta, locals
  <1>11. ASSUME NEW t \in Threads, Return(t) PROVE LockInv' /\ CallInv'
    BY <1>11 DEF Return, Leave
  <1>12. ASSUME NEW t \in Threads, IOError(t) PROVE LockInv' /\ CallInv'
    BY <1>12 DEF IOError, Leave
  <1>13. ASSUME Crash PROVE LockInv' /\ CallInv'
    BY <1>13 DEF Crash
  <1>14. CASE UNCHANGED vars
    BY <1>14 DEF vars
  <1> QED
    BY <1>1, <1>2, <1>3, <1>4, <1>5, <1>6, <1>7, <1>8, <1>9, <1>10, <1>11,
       <1>12, <1>13, <1>14 DEF Next, Step

(* Every line of the log is an event with its numbers.                      *)
LEMMA LogEntries ==
  ASSUME TypeOK
  PROVE  \A i \in DOMAIN log :
           log[i] \in Event /\ log[i].num \in Nat /\ log[i].n \in Nat
  <1>1. log \in Seq(Event)
    BY DEF TypeOK
  <1>2. \A i \in DOMAIN log : log[i] \in Event
    BY <1>1
  <1> QED
    BY <1>2 DEF Event

(* The number _next_event_id counts on from is below no number of the log.  *)
LEMMA BaseCoversLog ==
  ASSUME TypeOK, NumberInv, EventIdsIncrease
  PROVE  \A i \in DOMAIN log : log[i].num <= CacheBase
  <1> SUFFICES ASSUME NEW i \in DOMAIN log PROVE log[i].num <= CacheBase
    OBVIOUS
  <1>1. CASE cache # Cold
    BY <1>1 DEF NumberInv, CacheBase
  <1>2. CASE cache = Cold
    <2>1. log \in Seq(Event) /\ log # <<>> /\ Len(log) \in DOMAIN log
      BY DEF TypeOK
    <2>2. log[i].num \in Nat /\ log[Len(log)].num \in Nat
      BY <2>1, LogEntries
    <2>3. i = Len(log) \/ i < Len(log)
      BY <2>1
    <2> QED
      BY <1>2, <2>1, <2>2, <2>3 DEF EventIdsIncrease, CacheBase, LastEventNumber
  <1> QED
    BY <1>1, <1>2

(* Event numbers: the cache, the number in hand and the log stay in order.  *)
LEMMA StepNumberInv ==
  ASSUME TypeOK, LockInv, NumberInv, EventIdsIncrease, [Next]_vars
  PROVE  NumberInv' /\ EventIdsIncrease'
  <1> DEFINE Goal == NumberInv' /\ EventIdsIncrease'
  <1> USE DEF NumberInv, EventIdsIncrease, TypeOK
  <1>1. ASSUME NEW t \in Threads, Start(t) PROVE Goal
    BY <1>1 DEF Start, disk
  <1>2. ASSUME NEW t \in Threads, Acquire(t) PROVE Goal
    BY <1>2 DEF Acquire, disk
  <1>3. ASSUME NEW t \in Threads, Replay(t) PROVE Goal
    BY <1>3 DEF Replay, Leave, disk
  <1>4. ASSUME NEW t \in Threads, TakeId(t) PROVE Goal
    BY <1>4 DEF TakeId, disk
  <1>5. ASSUME NEW t \in Threads, SetField(t) PROVE Goal
    BY <1>5 DEF SetField, disk
  <1>6. ASSUME NEW t \in Threads, NextEventId(t) PROVE Goal
    <2>1. CacheBase \in Nat /\ \A i \in DOMAIN log : log[i].num <= CacheBase
      BY LastNumberType, BaseCoversLog
    <2>2. \A i \in DOMAIN log : log[i].num \in Nat
      BY LogEntries
    <2>3. \A u \in Threads : u # t => pc[u] # "write"
      BY <1>6 DEF NextEventId, LockInv, InBlock
    <2> QED
      BY <1>6, <2>1, <2>2, <2>3 DEF NextEventId, disk, Cold
  <1>7. ASSUME NEW t \in Threads, Reject(t) PROVE Goal
    <2>1. CacheBase \in Nat /\ \A i \in DOMAIN log : log[i].num <= CacheBase
      BY LastNumberType, BaseCoversLog
    <2>2. \A i \in DOMAIN log : log[i].num \in Nat
      BY LogEntries
    <2>3. \A u \in Threads : pc'[u] # "write"
      BY <1>7 DEF Reject, Leave, LockInv, InBlock
    <2> QED
      BY <1>7, <2>1, <2>2, <2>3 DEF Reject, disk, Cold
  <1>8. ASSUME NEW t \in Threads, Unreadable(t) PROVE Goal
    BY <1>8 DEF Unreadable, Leave, disk
  <1>9. ASSUME NEW t \in Threads, WriteLine(t) PROVE Goal
    <2>1. /\ log' = Append(log, NewEvent(t)) /\ NewEvent(t).num = evt[t]
          /\ cache' = cache /\ cache = evt[t] /\ evt[t] \in Nat
      BY <1>9 DEF WriteLine, NewEvent
    <2>2. \A i \in DOMAIN log : log[i].num \in Nat /\ log[i].num < evt[t]
      BY <1>9, LogEntries DEF WriteLine
    <2>3. /\ DOMAIN log' = DOMAIN log \cup {Len(log) + 1}
          /\ \A i \in DOMAIN log : log'[i] = log[i] /\ i < Len(log) + 1 /\ i \in Nat
          /\ log'[Len(log) + 1] = NewEvent(t) /\ Len(log) \in Nat
      BY <2>1
    <2>4. EventIdsIncrease'
      BY <2>1, <2>2, <2>3
    <2>5. \A u \in Threads : pc'[u] # "write"
      BY <1>9 DEF WriteLine, LockInv, InBlock
    <2> QED
      BY <2>1, <2>2, <2>3, <2>4, <2>5
  <1>10. ASSUME NEW t \in Threads, SaveMeta(t) PROVE Goal
    BY <1>10 DEF SaveMeta, locals
  <1>11. ASSUME NEW t \in Threads, Return(t) PROVE Goal
    BY <1>11 DEF Return, Leave, disk
  <1>12. ASSUME NEW t \in Threads, IOError(t) PROVE Goal
    BY <1>12 DEF IOError, Leave, disk
  <1>13. ASSUME Crash PROVE Goal
    BY <1>13 DEF Crash
  <1>14. CASE UNCHANGED vars
    BY <1>14 DEF vars
  <1> QED
    BY <1>1, <1>2, <1>3, <1>4, <1>5, <1>6, <1>7, <1>8, <1>9, <1>10, <1>11,
       <1>12, <1>13, <1>14 DEF Next, Step

(* Two threads are never inside the lock block together.                    *)
LEMMA OthersOutside ==
  ASSUME LockInv, NEW t \in Threads, NEW u \in Threads, u # t,
         pc[t] \in InBlock
  PROVE  pc[u] \notin InBlock
  BY DEF LockInv

(* What project.json holds for each prefix and key.                         *)
LEMMA MetaType == TypeOK => /\ \A p \in Prefixes : meta.ctr[p] \in Nat
                            /\ \A t \in Threads, p \in Prefixes : snap[t].ctr[p] \in Nat
  BY DEF TypeOK, Meta

(* Saving project.json moves no counter back, keeps every recorded key, and *)
(* changes another field only for a setter.                                 *)
LEMMA MetaStep ==
  ASSUME TypeOK, CallInv, SnapInv, [Next]_vars
  PROVE  MetaGrows
  <1>1. ASSUME NEW t \in Threads, SaveMeta(t) PROVE MetaGrows
    <2>1. pc[t] = "save" /\ meta' = snap[t]
      BY <1>1 DEF SaveMeta
    <2>2. \A p \in Prefixes : snap[t].ctr[p] >= meta.ctr[p]
      BY <2>1, MetaType DEF SnapInv
    <2> QED
      BY <2>1, <2>2 DEF MetaGrows, SnapInv
  <1>2. CASE meta' = meta
    BY <1>2, MetaType DEF MetaGrows
  <1>3. (\E t \in Threads : SaveMeta(t)) \/ meta' = meta
    BY DEF Next, Step, Start, Acquire, Replay, TakeId, SetField, NextEventId,
       Reject, Unreadable, WriteLine, Return, IOError, Crash, vars, disk
  <1> QED
    BY <1>1, <1>2, <1>3

(* The working copies of project.json.                                      *)
LEMMA StepSnapInv ==
  ASSUME TypeOK, LockInv, CallInv, SnapInv, [Next]_vars
  PROVE  SnapInv'
  <1> USE DEF SnapInv, Owns, Replays
  <1>1. ASSUME NEW t \in Threads, Start(t) PROVE SnapInv'
    BY <1>1 DEF Start, disk, TypeOK
  <1>2. ASSUME NEW t \in Threads, Acquire(t) PROVE SnapInv'
    BY <1>2 DEF Acquire, disk, TypeOK
  <1>3. ASSUME NEW t \in Threads, Leave(t), UNCHANGED meta PROVE SnapInv'
    BY <1>3 DEF Leave, TypeOK
  <1>4. ASSUME NEW t \in Threads, TakeId(t) PROVE SnapInv'
    <2>1. call[t] \in Calls /\ pc[t] = "check" /\ snap[t] = meta
      BY <1>4, RunningCall DEF TakeId
    <2>2. \A u \in Threads : u # t => pc'[u] = pc[u] /\ pc[u] \notin InBlock
      BY <1>4, <2>1, OthersOutside DEF TakeId, InBlock, TypeOK
    <2>3. CASE HasPrefix(call[t])
      <3>1. call[t].prefix \in Prefixes
        BY <2>1, <2>3, CallShape
      <3>2. snap' = [snap EXCEPT ![t].ctr[call[t].prefix] = @ + 1]
        BY <1>4, <2>3 DEF TakeId, Bump
      <3>3. /\ snap'[t].idem = snap[t].idem /\ snap'[t].field = snap[t].field
            /\ \A p \in Prefixes : snap'[t].ctr[p] =
                 IF p = call[t].prefix THEN snap[t].ctr[p] + 1 ELSE snap[t].ctr[p]
        BY <3>1, <3>2 DEF TypeOK, Meta
      <3>4. ent'[t] = meta.ctr[call[t].prefix] + 1
        BY <1>4, <2>1, <2>3 DEF TakeId, Bump, TypeOK
      <3>5. UNCHANGED <<meta, call>> /\ pc'[t] \in {"number", "save"}
        BY <1>4 DEF TakeId, disk, TypeOK
      <3>6. ~Replays(t)
        BY <1>4 DEF TakeId
      <3> QED
        BY <2>1, <2>2, <2>3, <3>1, <3>3, <3>4, <3>5, <3>6 DEF InBlock
    <2>4. CASE ~HasPrefix(call[t])
      BY <1>4, <2>1, <2>2, <2>4 DEF TakeId, Bump, InBlock, disk, TypeOK
    <2> QED
      BY <2>3, <2>4
  <1>5. ASSUME NEW t \in Threads, SetField(t) PROVE SnapInv'
    <2>1. pc[t] = "check" /\ snap[t] = meta /\ call[t].op = "field"
      BY <1>5 DEF SetField
    <2>2. \A u \in Threads : u # t => pc'[u] = pc[u] /\ pc[u] \notin InBlock
      BY <1>5, <2>1, OthersOutside DEF SetField, InBlock, TypeOK
    <2>3. snap'[t].ctr = meta.ctr /\ snap'[t].idem = meta.idem
      BY <1>5, <2>1 DEF SetField, TypeOK, Meta
    <2>4. ~HasPrefix(call[t]) /\ UNCHANGED <<meta, call>> /\ pc'[t] = "save"
      BY <1>5, <2>1 DEF SetField, HasPrefix, disk, TypeOK
    <2> QED
      BY <2>1, <2>2, <2>3, <2>4 DEF InBlock
  <1>6. ASSUME NEW t \in Threads, NextEventId(t) PROVE SnapInv'
    BY <1>6 DEF NextEventId, disk, TypeOK
  <1>7. ASSUME NEW t \in Threads, WriteLine(t) PROVE SnapInv'
    <2>1. call[t] \in Calls /\ pc[t] = "write" /\ UNCHANGED <<meta, call, ent>>
      BY <1>7, RunningCall DEF WriteLine
    <2>2. \A u \in Threads : u # t => pc'[u] = pc[u] /\ pc[u] \notin InBlock
      BY <1>7, <2>1, OthersOutside DEF WriteLine, InBlock, TypeOK
    <2>3. snap'[t].ctr = snap[t].ctr /\ snap'[t].field = snap[t].field
      BY <1>7 DEF WriteLine, TypeOK, Meta
    <2>4. \A k \in Keys : meta.idem[k] # NotRecorded => snap'[t].idem[k] = meta.idem[k]
      <3>1. CASE HasKey(call[t])
        <4>1. call[t].key \in Keys /\ meta.idem[call[t].key] = NotRecorded
          BY <2>1, <3>1, CallShape
        <4>2. snap' = [snap EXCEPT ![t].idem[call[t].key] =
                                     [evt |-> evt[t], n |-> ent[t]]]
          BY <1>7, <3>1 DEF WriteLine
        <4>3. \A k \in Keys : k # call[t].key => snap'[t].idem[k] = snap[t].idem[k]
          BY <4>1, <4>2 DEF TypeOK, Meta
        <4> QED
          BY <2>1, <4>1, <4>3
      <3> QED
        BY <1>7, <2>1, <3>1 DEF WriteLine
    <2>5. pc'[t] \in {"save", "return"}
      BY <1>7 DEF WriteLine, TypeOK
    <2> QED
      BY <2>1, <2>2, <2>3, <2>4, <2>5 DEF InBlock
  <1>8. ASSUME NEW t \in Threads, SaveMeta(t) PROVE SnapInv'
    <2>1. \A u \in Threads : u # t => pc'[u] = pc[u] /\ pc[u] \notin InBlock
      BY <1>8, OthersOutside DEF SaveMeta, InBlock, TypeOK
    <2>2. pc'[t] = "return"
      BY <1>8 DEF SaveMeta, TypeOK
    <2> QED
      BY <2>1, <2>2 DEF InBlock
  <1>9. ASSUME Crash PROVE SnapInv'
    BY <1>9 DEF Crash
  <1>10. CASE UNCHANGED vars
    BY <1>10 DEF vars
  <1>11. ASSUME NEW t \in Threads,
                Replay(t) \/ Reject(t) \/ Unreadable(t) \/ Return(t) \/ IOError(t)
         PROVE  SnapInv'
    BY <1>3, <1>11 DEF Replay, Reject, Unreadable, Return, IOError, disk
  <1> QED
    BY <1>1, <1>2, <1>4, <1>5, <1>6, <1>7, <1>8, <1>9, <1>10, <1>11 DEF Next, Step

(* A thread at "return" holds the id that project.json now counts.          *)
LEMMA StepReturnInv ==
  ASSUME TypeOK, LockInv, CallInv, SnapInv, ReturnInv, [Next]_vars
  PROVE  ReturnInv'
  <1> USE DEF ReturnInv, Owns
  <1>1. ASSUME NEW t \in Threads, SaveMeta(t) PROVE ReturnInv'
    <2>1. \A u \in Threads : u # t => pc'[u] = pc[u] /\ pc[u] \notin InBlock
      BY <1>1, OthersOutside DEF SaveMeta, InBlock, TypeOK
    <2>2. \A p \in Prefixes : Owns(t, p) => ent[t] = snap[t].ctr[p]
      BY <1>1 DEF SaveMeta, SnapInv
    <2> QED
      BY <1>1, <2>1, <2>2 DEF SaveMeta, InBlock, locals
  <1>2. ASSUME NEW t \in Threads, WriteLine(t) PROVE ReturnInv'
    BY <1>2 DEF WriteLine, TypeOK, disk
  <1>3. ASSUME NEW t \in Threads, TakeId(t) PROVE ReturnInv'
    <2>1. \A u \in Threads : pc'[u] # "return"
      BY <1>3, OthersOutside DEF TakeId, InBlock, TypeOK
    <2> QED
      BY <2>1
  <1>4. ASSUME NEW t \in Threads,
               Start(t) \/ Acquire(t) \/ SetField(t) \/ NextEventId(t)
        PROVE  ReturnInv'
    <2>1. /\ UNCHANGED <<meta, ent>> /\ pc'[t] # "return"
          /\ \A u \in Threads : u # t => pc'[u] = pc[u] /\ call'[u] = call[u]
      <3>1. CASE Start(t)
        BY <3>1 DEF Start, TypeOK, disk
      <3>2. CASE Acquire(t)
        BY <3>2 DEF Acquire, TypeOK, disk
      <3>3. CASE SetField(t)
        BY <3>3 DEF SetField, TypeOK, disk
      <3>4. CASE NextEventId(t)
        BY <3>4 DEF NextEventId, TypeOK, disk
      <3> QED
        BY <1>4, <3>1, <3>2, <3>3, <3>4
    <2> QED
      BY <2>1
  <1>5. ASSUME NEW t \in Threads,
               Replay(t) \/ Reject(t) \/ Unreadable(t) \/ Return(t) \/ IOError(t)
        PROVE  ReturnInv'
    BY <1>5 DEF Replay, Reject, Unreadable, Return, IOError, Leave, TypeOK, disk
  <1>6. ASSUME Crash PROVE ReturnInv'
    BY <1>6 DEF Crash
  <1>7. CASE UNCHANGED vars
    BY <1>7 DEF vars
  <1> QED
    BY <1>1, <1>2, <1>3, <1>4, <1>5, <1>6, <1>7 DEF Next, Step

(* Ids returned are counted, hence below the next one.                      *)
LEMMA StepHandedInv ==
  ASSUME TypeOK, LockInv, CallInv, NumberInv, SnapInv, ReturnInv, HandedInv,
         HandedOnce, [Next]_vars
  PROVE  HandedInv' /\ HandedOnce'
  <1>1. \A p \in Prefixes : handed[p] \in Seq(Nat)
    BY DEF TypeOK
  <1>2. \A p \in Prefixes : meta'.ctr[p] >= meta.ctr[p] /\ meta.ctr[p] \in Nat
    BY MetaStep, MetaType DEF MetaGrows
  <1>3. meta' \in Meta /\ handed' \in [Prefixes -> Seq(Nat)]
    BY StepTypeOK DEF TypeOK
  <1>4. \A p \in Prefixes : meta'.ctr[p] \in Nat
    BY <1>3 DEF Meta
  <1>5. ASSUME NEW t \in Threads, Return(t) PROVE HandedInv' /\ HandedOnce'
    <2>1. UNCHANGED meta /\ \A u \in Threads : pc'[u] # "return"
      BY <1>5, OthersOutside DEF Return, Leave, InBlock, TypeOK, disk
    <2>2. CASE ~HasPrefix(call[t])
      BY <1>5, <2>1, <2>2 DEF Return, HandedInv, HandedOnce
    <2>3. CASE HasPrefix(call[t])
      <3> DEFINE p == call[t].prefix
      <3>1. p \in Prefixes /\ Owns(t, p)
        BY <1>5, <2>3, RunningCall, CallShape DEF Return, Owns
      <3>2. /\ handed' = [handed EXCEPT ![p] = Append(@, ent[t])]
            /\ ent[t] \in Nat /\ ent[t] = meta.ctr[p]
            /\ \A j \in DOMAIN handed[p] : handed[p][j] < ent[t]
        BY <1>5, <2>3, <3>1 DEF Return, HandedInv, ReturnInv, TypeOK
      <3>3. /\ \A q \in Prefixes : q # p => handed'[q] = handed[q]
            /\ handed'[p] = Append(handed[p], ent[t])
        BY <3>1, <3>2 DEF TypeOK
      <3>4. /\ DOMAIN handed'[p] = DOMAIN handed[p] \cup {Len(handed[p]) + 1}
            /\ \A j \in DOMAIN handed[p] :
                 handed'[p][j] = handed[p][j] /\ j < Len(handed[p]) + 1
                 /\ j \in Nat /\ handed[p][j] \in Nat
            /\ handed'[p][Len(handed[p]) + 1] = ent[t] /\ Len(handed[p]) \in Nat
        BY <1>1, <3>1, <3>2, <3>3
      <3>5. \A j \in DOMAIN handed'[p] : handed'[p][j] <= meta.ctr[p]
        BY <3>2, <3>4
      <3>6. \A i, j \in DOMAIN handed'[p] : i < j => handed'[p][i] < handed'[p][j]
        BY <3>1, <3>2, <3>4 DEF HandedOnce
      <3>7. HandedInv'
        BY <2>1, <3>3, <3>5 DEF HandedInv
      <3>8. HandedOnce'
        BY <3>3, <3>6 DEF HandedOnce
      <3> QED
        BY <3>7, <3>8
    <2> QED
      BY <2>2, <2>3
  <1>6. ASSUME UNCHANGED handed,
               \A t \in Threads, p \in Prefixes :
                 pc'[t] = "return" /\ Owns(t, p)' =>
                   \/ pc[t] = "return" /\ Owns(t, p) /\ ent'[t] = ent[t]
                   \/ ent'[t] = meta.ctr[p] + 1
        PROVE  HandedInv' /\ HandedOnce'
    <2>1. HandedOnce'
      BY <1>6 DEF HandedOnce
    <2>2. ASSUME NEW p \in Prefixes, NEW j \in DOMAIN handed[p]
          PROVE  /\ handed[p][j] <= meta'.ctr[p]
                 /\ \A t \in Threads : (pc[t] = "return" /\ Owns(t, p))' =>
                      handed[p][j] < ent'[t]
      <3>1. handed[p][j] \in Nat /\ handed[p][j] <= meta.ctr[p]
        BY <1>1, <2>2 DEF HandedInv
      <3> QED
        BY <1>2, <1>4, <1>6, <2>2, <3>1 DEF HandedInv
    <2> QED
      BY <1>6, <2>1, <2>2 DEF HandedInv
  <1>7. ASSUME NEW t \in Threads, SaveMeta(t) PROVE HandedInv' /\ HandedOnce'
    BY <1>6, <1>7 DEF SaveMeta, SnapInv, Owns, locals, TypeOK
  <1>8. ASSUME NEW t \in Threads, WriteLine(t) PROVE HandedInv' /\ HandedOnce'
    <2>1. /\ UNCHANGED <<handed, call, ent>> /\ pc[t] = "write"
          /\ \A u \in Threads : u # t => pc'[u] = pc[u]
      BY <1>8 DEF WriteLine, TypeOK
    <2> QED
      BY <1>6, <2>1 DEF SnapInv, Owns
  <1>9. ASSUME NEW t \in Threads,
               \/ Start(t) \/ Acquire(t) \/ SetField(t) \/ NextEventId(t) \/ TakeId(t)
               \/ Replay(t) \/ Reject(t) \/ Unreadable(t) \/ IOError(t)
        PROVE  HandedInv' /\ HandedOnce'
    <2> DEFINE Aside == /\ UNCHANGED handed /\ pc'[t] # "return"
                        /\ \A u \in Threads : u # t =>
                             pc'[u] = pc[u] /\ call'[u] = call[u] /\ ent'[u] = ent[u]
    <2>1. Aside
      <3>1. CASE Start(t)
        BY <3>1 DEF Start, TypeOK
      <3>2. CASE Acquire(t)
        BY <3>2 DEF Acquire, TypeOK
      <3>3. CASE SetField(t)
        BY <3>3 DEF SetField, TypeOK
      <3>4. CASE NextEventId(t)
        BY <3>4 DEF NextEventId, TypeOK
      <3>5. CASE TakeId(t)
        BY <3>5 DEF TakeId, Bump, TypeOK
      <3>6. CASE Replay(t) \/ Reject(t) \/ Unreadable(t) \/ IOError(t)
        BY <3>6 DEF Replay, Reject, Unreadable, IOError, Leave, TypeOK
      <3> HIDE DEF Aside
      <3> QED
        BY <1>9, <3>1, <3>2, <3>3, <3>4, <3>5, <3>6
    <2> QED
      BY <1>6, <2>1 DEF Owns
  <1>10. ASSUME Crash \/ UNCHANGED vars PROVE HandedInv' /\ HandedOnce'
    BY <1>6, <1>10 DEF Crash, vars, Owns
  <1> QED
    BY <1>5, <1>7, <1>8, <1>9, <1>10 DEF Next, Step

(* An id in the log is at most one ahead of its counter.                    *)
LEMMA StepCounterLag ==
  ASSUME TypeOK, CallInv, NumberInv, SnapInv, CounterLag, [Next]_vars
  PROVE  CounterLag'
  <1>1. \A p \in Prefixes :
          meta'.ctr[p] >= meta.ctr[p] /\ meta.ctr[p] \in Nat
    BY MetaStep, MetaType DEF MetaGrows
  <1>2. \A i \in DOMAIN log : log[i].n \in Nat /\ log[i].prefix \in Prefixes \cup {None}
    BY LogEntries DEF Event, Prefixes
  <1>3. ASSUME NEW t \in Threads, WriteLine(t) PROVE CounterLag'
    <2>1. call[t] \in Calls /\ call[t].op = "append" /\ UNCHANGED meta
      BY <1>3, RunningCall DEF WriteLine, CallInv
    <2>2. call[t].prefix # None => ent[t] = meta.ctr[call[t].prefix] + 1
      BY <1>3, <2>1, CallShape DEF WriteLine, SnapInv, Owns, HasPrefix
    <2>3. log \in Seq(Event) /\ log' = Append(log, NewEvent(t))
      BY <1>3 DEF WriteLine, TypeOK
    <2>4. /\ DOMAIN log' = DOMAIN log \cup {Len(log) + 1}
          /\ \A i \in DOMAIN log : log'[i] = log[i]
          /\ log'[Len(log) + 1] = NewEvent(t)
      BY <2>3
    <2>5. call[t].prefix # None => meta.ctr[call[t].prefix] \in Nat
      BY <2>1, CallShape, MetaType DEF HasPrefix
    <2>6. NewEvent(t).prefix = call[t].prefix /\ NewEvent(t).n = ent[t]
      BY DEF NewEvent
    <2> QED
      BY <2>1, <2>2, <2>4, <2>5, <2>6 DEF CounterLag
  <1>4. CASE UNCHANGED log
    <2>1. \A p \in Prefixes : meta'.ctr[p] \in Nat
      BY StepTypeOK DEF TypeOK, Meta
    <2> QED
      BY <1>1, <1>2, <1>4, <2>1 DEF CounterLag
  <1>5. (\E t \in Threads : WriteLine(t)) \/ UNCHANGED log
    BY DEF Next, Step, Start, Acquire, Replay, TakeId, SetField, NextEventId,
       Reject, Unreadable, SaveMeta, Return, IOError, Crash, vars, disk
  <1> QED
    BY <1>3, <1>4, <1>5

(* A new project satisfies the inductive invariant.                         *)
LEMMA StoreInvInit == Init => StoreInv
  <1> SUFFICES ASSUME Init PROVE StoreInv
    OBVIOUS
  <1>1. TypeOK
    BY InitTypeOK
  <1>2. LockInv /\ CallInv
    BY StoreAssumption DEF Init, LockInv, CallInv, InBlock
  <1>3. NumberInv /\ SnapInv /\ HandedInv /\ ReturnInv
    BY DEF Init, NumberInv, SnapInv, HandedInv, ReturnInv
  <1>4. EventIdsIncrease /\ HandedOnce /\ CounterLag
    BY DEF Init, EventIdsIncrease, HandedOnce, CounterLag
  <1> QED
    BY <1>1, <1>2, <1>3, <1>4 DEF StoreInv

(* Every step of every thread, and a crash, keeps it.                       *)
LEMMA StoreInvStep == StoreInv /\ [Next]_vars => StoreInv'
  BY StepTypeOK, StepLockInv, StepNumberInv, StepSnapInv, StepReturnInv,
     StepHandedInv, StepCounterLag DEF StoreInv

(* The store's inductive invariant.                                         *)
THEOREM StoreInvariant == Spec => []StoreInv
  BY StoreInvInit, StoreInvStep, PTL DEF Spec

(* Every variable keeps its type: store.py's state is what its annotations  *)
(* and file formats say, in every interleaving and after every fault.       *)
THEOREM TypeCorrect == Spec => []TypeOK
  <1>1. StoreInv => TypeOK
    BY DEF StoreInv
  <1> QED
    BY <1>1, StoreInvariant, PTL

(* Event ids grow along events.ndjson: _next_event_id never repeats one,    *)
(* although the cache is lost in a crash and numbers are burned.            *)
THEOREM EventIdsAlwaysIncrease == Spec => []EventIdsIncrease
  <1>1. StoreInv => EventIdsIncrease
    BY DEF StoreInv
  <1> QED
    BY <1>1, StoreInvariant, PTL

(* No id returned by allocate_id or append_event_with_id is returned again. *)
THEOREM IdsAreHandedOnce == Spec => []HandedOnce
  <1>1. StoreInv => HandedOnce
    BY DEF StoreInv
  <1> QED
    BY <1>1, StoreInvariant, PTL

(* Whatever crashes between the event and project.json, the counters are    *)
(* behind the log by at most one id.                                        *)
THEOREM CountersFollowLog == Spec => []CounterLag
  <1>1. StoreInv => CounterLag
    BY DEF StoreInv
  <1> QED
    BY <1>1, StoreInvariant, PTL

(* No call undoes another call's update of project.json.                    *)
THEOREM MetaIsNeverUndone == Spec => MetaMonotone
  <1>1. StoreInv /\ [Next]_vars => MetaGrows
    BY MetaStep DEF StoreInv
  <1> QED
    BY <1>1, StoreInvariant, PTL DEF Spec, MetaMonotone

-----------------------------------------------------------------------------
(* A step of one thread leaves the calls of the others alone, and changes   *)
(* what is on disk only while they are outside the lock block.              *)
LEMMA OthersKeep ==
  ASSUME TypeOK, LockInv, NEW t \in Threads, NEW u \in Threads, u # t,
         Start(t) \/ Step(t) \/ IOError(t)
  PROVE  /\ pc'[u] = pc[u] /\ call'[u] = call[u] /\ snap'[u] = snap[u]
         /\ ent'[u] = ent[u] /\ evt'[u] = evt[u]
         /\ UNCHANGED <<log, meta>> \/ pc[u] \notin InBlock
  <1> USE DEF TypeOK
  <1>1. CASE Start(t)
    BY <1>1 DEF Start, disk
  <1>2. CASE Acquire(t)
    BY <1>2 DEF Acquire, disk
  <1>3. CASE Replay(t) \/ Reject(t) \/ Unreadable(t) \/ Return(t) \/ IOError(t)
    BY <1>3 DEF Replay, Reject, Unreadable, Return, IOError, Leave, disk
  <1>4. CASE TakeId(t)
    BY <1>4 DEF TakeId, Bump, disk
  <1>5. CASE SetField(t)
    BY <1>5 DEF SetField, disk
  <1>6. CASE NextEventId(t)
    BY <1>6 DEF NextEventId, disk
  <1>7. CASE WriteLine(t)
    <2>1. pc[u] \notin InBlock
      BY <1>7, OthersOutside DEF WriteLine, InBlock
    <2> QED
      BY <1>7, <2>1 DEF WriteLine
  <1>8. CASE SaveMeta(t)
    <2>1. pc[u] \notin InBlock
      BY <1>8, OthersOutside DEF SaveMeta, InBlock
    <2> QED
      BY <1>8, <2>1 DEF SaveMeta, locals
  <1> QED
    BY <1>1, <1>2, <1>3, <1>4, <1>5, <1>6, <1>7, <1>8 DEF Step

(* A thread that leaves the block is at rest.                               *)
LEMMA LeaveIsIdle ==
  ASSUME TypeOK, NEW t \in Threads, Leave(t)
  PROVE  pc'[t] = "idle" /\ ent'[t] = 0
  BY DEF TypeOK, Leave

(* What a thread is about to save, step by step of that thread.             *)
LEMMA OwnSaveOk ==
  ASSUME TypeOK, CallInv, NumberInv, SnapInv, SaveInv, NEW t \in Threads,
         Start(t) \/ Step(t) \/ IOError(t)
  PROVE  SaveOk(t)'
  <1>0. SaveOk(t)
    BY DEF SaveInv
  <1>1. CASE Start(t)
    BY <1>0, <1>1 DEF Start, SaveOk, Unsaved, TypeOK
  <1>2. CASE Acquire(t)
    BY <1>0, <1>2 DEF Acquire, SaveOk, Unsaved, TypeOK
  <1>3. CASE Replay(t) \/ Reject(t) \/ Unreadable(t) \/ Return(t) \/ IOError(t)
    <2>1. pc'[t] = "idle" /\ ent'[t] = 0
      BY <1>3, LeaveIsIdle DEF Replay, Reject, Unreadable, Return, IOError
    <2> QED
      BY <2>1 DEF SaveOk, Unsaved
  <1>4. CASE TakeId(t)
    <2>1. /\ pc[t] = "check" /\ snap[t] = meta /\ ent[t] = 0
          /\ meta' = meta /\ call' = call
          /\ pc'[t] = IF call[t].op = "append" THEN "number" ELSE "save"
          /\ call[t] \in Calls /\ call[t].op \in {"append", "alloc"}
      BY <1>0, <1>4, RunningCall DEF TakeId, SnapInv, SaveOk, TypeOK, disk
    <2>2. snap'[t].idem = meta.idem
      <3>1. CASE HasPrefix(call[t])
        BY <1>4, <2>1, <3>1, CallShape DEF TakeId, Bump, TypeOK, Meta
      <3> QED
        BY <1>4, <2>1, <3>1 DEF TakeId, Bump
    <2>3. ~HasPrefix(call[t]) => ent'[t] = 0
      BY <1>4, <2>1 DEF TakeId, Bump
    <2> QED
      BY <2>1, <2>2, <2>3 DEF SaveOk, Unsaved
  <1>5. CASE SetField(t)
    <2>1. /\ pc[t] = "check" /\ snap[t] = meta /\ ent[t] = 0 /\ call[t].op = "field"
          /\ meta' = meta /\ call' = call /\ ent' = ent /\ pc'[t] = "save"
          /\ snap'[t] = [snap[t] EXCEPT !.field = call[t].value]
      BY <1>0, <1>5 DEF SetField, SnapInv, SaveOk, TypeOK, disk
    <2>2. snap'[t].idem = meta.idem /\ snap'[t].field = call[t].value
      BY <2>1 DEF TypeOK, Meta
    <2> QED
      BY <2>1, <2>2 DEF SaveOk, Unsaved
  <1>6. CASE NextEventId(t)
    BY <1>0, <1>6 DEF NextEventId, SaveOk, Unsaved, TypeOK
  <1>7. CASE WriteLine(t)
    <2>1. /\ pc[t] = "write" /\ call[t].op = "append" /\ evt[t] > 0 /\ ~Replays(t)
          /\ snap[t].idem = meta.idem /\ call[t] \in Calls
          /\ UNCHANGED <<meta, call, ent, evt>>
      BY <1>7, RunningCall DEF WriteLine, CallInv, NumberInv, SnapInv
    <2>2. log' # <<>> /\ log'[Len(log')] = NewEvent(t)
      <3>1. log \in Seq(Event) /\ log' = Append(log, NewEvent(t)) /\ Len(log) \in Nat
        BY <1>7 DEF WriteLine, TypeOK
      <3>2. Len(log') = Len(log) + 1 /\ log'[Len(log) + 1] = NewEvent(t)
        BY <3>1
      <3>3. log' # <<>>
        BY <3>1, <3>2
      <3> QED
        BY <3>2, <3>3
    <2>3. NewEvent(t)' = NewEvent(t)
      BY <2>1 DEF NewEvent
    <2>4. CASE HasKey(call[t])
      <3>1. call[t].key \in Keys /\ meta.idem[call[t].key] = NotRecorded
        BY <2>1, <2>4, CallShape DEF Replays
      <3>2. snap' = [snap EXCEPT ![t].idem[call[t].key] =
                                   [evt |-> evt[t], n |-> ent[t]]]
        BY <1>7, <2>4 DEF WriteLine
      <3>3. snap'[t].idem = [meta.idem EXCEPT ![call[t].key] =
                                   [evt |-> evt[t], n |-> ent[t]]]
        BY <2>1, <3>2 DEF TypeOK, Meta
      <3> QED
        BY <1>0, <1>7, <2>1, <2>2, <2>3, <2>4, <3>1, <3>3
           DEF WriteLine, SaveOk, Unsaved, TypeOK
    <2>5. CASE ~HasKey(call[t])
      BY <1>0, <1>7, <2>1, <2>2, <2>3, <2>5 DEF WriteLine, SaveOk, Unsaved, TypeOK
    <2> QED
      BY <2>4, <2>5
  <1>8. CASE SaveMeta(t)
    BY <1>8 DEF SaveMeta, SaveOk, Unsaved, TypeOK
  <1> QED
    BY <1>1, <1>2, <1>3, <1>4, <1>5, <1>6, <1>7, <1>8 DEF Step

(* What every thread is about to save.                                      *)
LEMMA StepSaveInv ==
  ASSUME TypeOK, LockInv, CallInv, NumberInv, SnapInv, SaveInv, [Next]_vars
  PROVE  SaveInv'
  <1>1. ASSUME NEW t \in Threads, Start(t) \/ Step(t) \/ IOError(t), NEW u \in Threads
        PROVE  SaveOk(u)'
    <2>1. CASE u = t
      BY <1>1, <2>1, OwnSaveOk
    <2>2. CASE u # t
      <3>1. /\ pc'[u] = pc[u] /\ call'[u] = call[u] /\ snap'[u] = snap[u]
            /\ ent'[u] = ent[u] /\ evt'[u] = evt[u]
            /\ UNCHANGED <<log, meta>> \/ pc[u] \notin InBlock
        BY <1>1, <2>2, OthersKeep
      <3> QED
        BY <3>1 DEF SaveInv, SaveOk, Unsaved, NewEvent, InBlock
    <2> QED
      BY <2>1, <2>2
  <1>2. CASE Crash
    BY <1>2 DEF Crash, SaveInv, SaveOk, Unsaved
  <1>3. CASE UNCHANGED vars
    BY <1>3 DEF vars, SaveInv, SaveOk, Unsaved, NewEvent
  <1> QED
    BY <1>1, <1>2, <1>3 DEF Next, SaveInv

(* Lines of the log stay where they are.                                    *)
LEMMA LinesStay ==
  ASSUME TypeOK, [Next]_vars
  PROVE  /\ \A i \in DOMAIN log : i \in DOMAIN log' /\ log'[i] = log[i]
         /\ \A p, n : WithId(p, n) \subseteq WithId(p, n)'
         /\ \A k : WithKey(k) \subseteq WithKey(k)'
  <1>1. \A i \in DOMAIN log : i \in DOMAIN log' /\ log'[i] = log[i]
    <2>1. ASSUME NEW t \in Threads, WriteLine(t)
          PROVE  \A i \in DOMAIN log : i \in DOMAIN log' /\ log'[i] = log[i]
      <3>1. log \in Seq(Event) /\ log' = Append(log, NewEvent(t))
        BY <2>1 DEF WriteLine, TypeOK
      <3> QED
        BY <3>1
    <2>2. (\E t \in Threads : WriteLine(t)) \/ UNCHANGED log
      BY DEF Next, Step, Start, Acquire, Replay, TakeId, SetField, NextEventId,
         Reject, Unreadable, SaveMeta, Return, IOError, Crash, vars, disk
    <2> QED
      BY <2>1, <2>2
  <1> QED
    BY <1>1 DEF WithId, WithKey

(* An append about to save its id or key finds its event at the end of the  *)
(* log.                                                                     *)
LEMMA UnsavedIsLogged ==
  ASSUME TypeOK, SaveInv, NEW t \in Threads, Unsaved(t)
  PROVE  /\ Len(log) \in WithId(call[t].prefix, ent[t])
         /\ Len(log) \in WithKey(call[t].key)
         /\ log[Len(log)].num = evt[t] /\ log[Len(log)].n = ent[t]
  <1>1. log \in Seq(Event) /\ log # <<>> /\ log[Len(log)] = NewEvent(t)
    BY DEF TypeOK, SaveInv, SaveOk
  <1>2. Len(log) \in DOMAIN log
    BY <1>1
  <1> QED
    BY <1>1, <1>2 DEF NewEvent, WithId, WithKey

(* Only an append owns the prefix of an entity.                             *)
LEMMA EntityOwner ==
  ASSUME TypeOK, CallInv, NEW t \in Threads, pc[t] # "idle",
         NEW p \in EntityPrefixes, Owns(t, p)
  PROVE  call[t].op = "append" /\ call[t].prefix = p
  <1>1. call[t] \in Calls /\ call[t].prefix = p /\ HasPrefix(call[t])
    BY RunningCall DEF Owns
  <1> QED
    BY <1>1, CallShape, StoreAssumption DEF AllocCalls, HasPrefix

(* What project.json says of a key is in the log when it is saved.          *)
LEMMA SavedIsLogged ==
  ASSUME TypeOK, CallInv, SaveInv, RepliesAreLogged, NEW t \in Threads, SaveMeta(t),
         NEW k \in Keys, meta'.idem[k] # NotRecorded
  PROVE  \E i \in WithKey(k) : log[i].num = meta'.idem[k].evt /\ log[i].n = meta'.idem[k].n
  <1>1. SaveOk(t) /\ pc[t] = "save" /\ meta' = snap[t] /\ call[t] \in Calls
    BY RunningCall DEF SaveMeta, SaveInv
  <1>2. CASE meta'.idem[k] = meta.idem[k]
    BY <1>2 DEF RepliesAreLogged
  <1>3. CASE meta'.idem[k] # meta.idem[k]
    <2>1. Unsaved(t) /\ HasKey(call[t])
      BY <1>1, <1>3 DEF SaveOk, Unsaved
    <2>2. snap[t].idem = [meta.idem EXCEPT ![call[t].key] = [evt |-> evt[t], n |-> ent[t]]]
      BY <1>1, <2>1 DEF SaveOk
    <2>3. meta.idem \in [Keys -> Recorded]
      BY DEF TypeOK, Meta
    <2>4. k = call[t].key /\ meta'.idem[k] = [evt |-> evt[t], n |-> ent[t]]
      BY <1>1, <1>3, <2>2, <2>3
    <2> QED
      BY <2>1, <2>4, UnsavedIsLogged
  <1> QED
    BY <1>2, <1>3

(* What callers are told is in the log, at every step.                      *)
LEMMA StepLoggedInv ==
  ASSUME TypeOK, LockInv, CallInv, SaveInv, LoggedInv, [Next]_vars
  PROVE  LoggedInv'
  <1>0. /\ RepliesAreLogged
        /\ \A k : WithKey(k) \subseteq WithKey(k)'
    BY LinesStay DEF LoggedInv
  <1> DEFINE Has(p, n) == \E i \in DOMAIN log' : log'[i].prefix = p /\ log'[i].n = n
  <1>b. \A p, n : WithId(p, n) # {} => Has(p, n)
    BY LinesStay DEF WithId
  <1> HIDE DEF Has
  <1>a. \A i \in DOMAIN log : log'[i] = log[i]
    BY LinesStay
  <1>1. ASSUME NEW p \in EntityPrefixes, NEW j \in DOMAIN handed'[p]
        PROVE  Has(p, handed'[p][j])
    <2>1. p \in Prefixes
      BY DEF Prefixes
    <2>2. CASE handed' = handed
      BY <1>0, <1>b, <1>1, <2>2 DEF RepliesAreLogged
    <2>3. ASSUME NEW t \in Threads, Return(t), handed' # handed
          PROVE  Has(p, handed'[p][j])
      <3>1. /\ HasPrefix(call[t]) /\ pc[t] = "return"
            /\ handed' = [handed EXCEPT ![call[t].prefix] = Append(@, ent[t])]
        BY <2>3 DEF Return
      <3>2. handed[p] \in Seq(Nat) /\ ent[t] \in Nat
        BY <2>1 DEF TypeOK
      <3>3. CASE call[t].prefix = p
        <4>1. handed'[p] = Append(handed[p], ent[t])
          BY <2>1, <3>1, <3>3 DEF TypeOK
        <4>2. /\ j \in DOMAIN handed[p] \/ j = Len(handed[p]) + 1
              /\ \A i \in DOMAIN handed[p] : handed'[p][i] = handed[p][i]
              /\ handed'[p][Len(handed[p]) + 1] = ent[t]
          BY <1>1, <3>2, <4>1
        <4>3. WithId(p, ent[t]) # {}
          BY <3>1, <3>3 DEF LoggedInv, Owns
        <4> QED
          BY <1>0, <1>b, <4>2, <4>3 DEF RepliesAreLogged
      <3>4. CASE call[t].prefix # p
        <4>1. handed'[p] = handed[p]
          BY <2>1, <3>1, <3>4 DEF TypeOK
        <4> QED
          BY <1>0, <1>b, <1>1, <4>1 DEF RepliesAreLogged
      <3> QED
        BY <3>3, <3>4
    <2>4. handed' = handed \/ \E t \in Threads : Return(t)
      BY DEF Next, Step, Start, Acquire, Replay, TakeId, SetField, NextEventId,
         Reject, Unreadable, WriteLine, SaveMeta, IOError, Crash, vars
    <2> QED
      BY <2>2, <2>3, <2>4
  <1>2. ASSUME NEW k \in Keys, meta'.idem[k] # NotRecorded
        PROVE  \E i \in WithKey(k)' : log'[i].num = meta'.idem[k].evt /\ log'[i].n = meta'.idem[k].n
    <2>1. \E i \in WithKey(k) : log[i].num = meta'.idem[k].evt /\ log[i].n = meta'.idem[k].n
      <3>1. CASE meta' = meta
        BY <1>0, <1>2, <3>1 DEF RepliesAreLogged
      <3>2. ASSUME NEW t \in Threads, SaveMeta(t)
            PROVE  \E i \in WithKey(k) : log[i].num = meta'.idem[k].evt /\ log[i].n = meta'.idem[k].n
        BY <1>0, <1>2, <3>2, SavedIsLogged
      <3>3. meta' = meta \/ \E t \in Threads : SaveMeta(t)
        BY DEF Next, Step, Start, Acquire, Replay, TakeId, SetField, NextEventId,
           Reject, Unreadable, WriteLine, Return, IOError, Crash, vars, disk
      <3> QED
        BY <3>1, <3>2, <3>3
    <2> QED
      BY <1>0, <1>a, <2>1 DEF WithKey
  <1>3. ASSUME NEW t \in Threads, NEW p \in EntityPrefixes, pc'[t] = "return", Owns(t, p)'
        PROVE  Has(p, ent'[t])
    <2>1. ASSUME pc[t] = "return", call'[t] = call[t], ent'[t] = ent[t]
          PROVE  Has(p, ent'[t])
      BY <1>b, <1>3, <2>1 DEF LoggedInv, Owns
    <2>2. CASE Start(t) \/ Step(t) \/ IOError(t)
      <3>1. CASE SaveMeta(t)
        <4>1. pc[t] = "save" /\ UNCHANGED <<call, ent>>
          BY <3>1 DEF SaveMeta, locals
        <4>2. Unsaved(t) /\ call[t].prefix = p
          BY <1>3, <4>1, EntityOwner DEF Unsaved, Owns
        <4> QED
          BY <1>b, <4>1, <4>2, UnsavedIsLogged
      <3>2. CASE WriteLine(t)
        <4>1. ~HasPrefix(call[t]) /\ call' = call
          BY <1>3, <3>2 DEF WriteLine, TypeOK
        <4> QED
          BY <1>3, <4>1 DEF Owns
      <3>3. CASE Start(t) \/ Acquire(t) \/ TakeId(t) \/ SetField(t) \/ NextEventId(t)
        BY <1>3, <3>3 DEF Start, Acquire, TakeId, SetField, NextEventId, TypeOK
      <3>4. CASE Replay(t) \/ Reject(t) \/ Unreadable(t) \/ Return(t) \/ IOError(t)
        BY <1>3, <3>4, LeaveIsIdle DEF Replay, Reject, Unreadable, Return, IOError
      <3> QED
        BY <2>2, <3>1, <3>2, <3>3, <3>4 DEF Step
    <2>3. ASSUME NEW u \in Threads, u # t, Start(u) \/ Step(u) \/ IOError(u)
          PROVE  Has(p, ent'[t])
      <3>1. pc[t] = "return" /\ call'[t] = call[t] /\ ent'[t] = ent[t]
        BY <1>3, <2>3, OthersKeep
      <3> QED
        BY <2>1, <3>1
    <2>4. CASE Crash
      BY <1>3, <2>4 DEF Crash
    <2>5. CASE UNCHANGED vars
      BY <1>3, <2>1, <2>5 DEF vars
    <2> QED
      BY <2>2, <2>3, <2>4, <2>5 DEF Next
  <1>4. RepliesAreLogged'
    BY <1>1, <1>2 DEF RepliesAreLogged, WithId, Has
  <1> QED
    BY <1>3, <1>4 DEF LoggedInv, WithId, Has

(* The lines of a key and of an id are finitely many.                       *)
LEMMA LineSets ==
  ASSUME TypeOK
  PROVE  /\ \A k : IsFiniteSet(WithKey(k)) /\ Cardinality(WithKey(k)) \in Nat
         /\ \A p, n : IsFiniteSet(WithId(p, n)) /\ Cardinality(WithId(p, n)) \in Nat
  <1>1. log \in Seq(Event) /\ Len(log) \in Nat
    BY DEF TypeOK
  <1>2. IsFiniteSet(1..Len(log))
    BY <1>1, FS_Interval
  <1>3. \A S \in SUBSET (1..Len(log)) : IsFiniteSet(S) /\ Cardinality(S) \in Nat
    BY <1>2, FS_Subset, FS_CardinalityType
  <1>4. /\ \A k : WithKey(k) \in SUBSET (1..Len(log))
        /\ \A p, n : WithId(p, n) \in SUBSET (1..Len(log))
    BY <1>1 DEF WithKey, WithId
  <1> QED
    BY <1>3, <1>4

(* A new line belongs to its own key and id, and to no other.               *)
LEMMA LineAdded ==
  ASSUME TypeOK, NEW t \in Threads, WriteLine(t)
  PROVE  /\ \A k : WithKey(k)' = IF call[t].key = k THEN WithKey(k) \cup {Len(log) + 1}
                                 ELSE WithKey(k)
         /\ \A p, n : WithId(p, n)' = IF call[t].prefix = p /\ ent[t] = n
                                      THEN WithId(p, n) \cup {Len(log) + 1}
                                      ELSE WithId(p, n)
  <1>1. log \in Seq(Event) /\ log' = Append(log, NewEvent(t)) /\ Len(log) \in Nat
    BY DEF TypeOK, WriteLine
  <1>2. /\ DOMAIN log' = DOMAIN log \cup {Len(log) + 1} /\ Len(log) + 1 \notin DOMAIN log
        /\ \A i \in DOMAIN log : log'[i] = log[i]
        /\ log'[Len(log) + 1] = NewEvent(t)
    BY <1>1
  <1>3. /\ NewEvent(t).key = call[t].key /\ NewEvent(t).prefix = call[t].prefix
        /\ NewEvent(t).n = ent[t]
    BY DEF NewEvent
  <1> QED
    BY <1>2, <1>3 DEF WithKey, WithId

(* Without a fault, a thread that has something to save stays so until it   *)
(* saves it.                                                                *)
LEMMA UnsavedStays ==
  ASSUME TypeOK, LockInv, [Next]_vars, faults' = faults,
         NEW u \in Threads, Unsaved(u), ~SaveMeta(u)
  PROVE  Unsaved(u)' /\ call'[u] = call[u] /\ ent'[u] = ent[u]
  <1>0. faults \in Nat /\ pc[u] = "save"
    BY StoreAssumption DEF TypeOK, Unsaved
  <1>1. CASE UNCHANGED vars
    BY <1>1 DEF vars, Unsaved
  <1>2. ASSUME NEW t \in Threads, t # u, Start(t) \/ Step(t) \/ IOError(t)
        PROVE  Unsaved(u)' /\ call'[u] = call[u] /\ ent'[u] = ent[u]
    BY <1>2, OthersKeep DEF Unsaved
  <1>3. ~(Start(u) \/ Step(u) \/ IOError(u) \/ Crash)
    BY <1>0 DEF Step, Start, Acquire, Replay, TakeId, SetField, NextEventId, Reject,
       Unreadable, WriteLine, Return, IOError, Crash
  <1> QED
    BY <1>1, <1>2, <1>3 DEF Next

(* While a thread writes its line nothing else is left to be saved.         *)
LEMMA NoneUnsaved ==
  ASSUME LockInv, NEW t \in Threads, pc[t] \in InBlock, pc[t] # "save"
  PROVE  \A u \in Threads : ~Unsaved(u)
  BY OthersOutside DEF Unsaved, InBlock

(* Keys: the step that writes a line for a key makes it one to be saved.    *)
LEMMA StepKeysOnce ==
  ASSUME TypeOK, TypeOK', LockInv, CallInv, SnapInv, SaveInv, OnceInv, [Next]_vars,
         NEW k \in Keys
  PROVE  Cardinality(WithKey(k)') <= faults' +
           IF \/ meta'.idem[k] # NotRecorded
              \/ \E t \in Threads : Unsaved(t)' /\ call'[t].key = k THEN 1 ELSE 0
  <1> DEFINE Kept == meta.idem[k] # NotRecorded \/ \E t \in Threads : Unsaved(t) /\ call[t].key = k
             KeptNext == \/ meta'.idem[k] # NotRecorded
                         \/ \E t \in Threads : Unsaved(t)' /\ call'[t].key = k
  <1>0. /\ faults \in Nat /\ faults' \in Nat
        /\ IsFiniteSet(WithKey(k)) /\ Cardinality(WithKey(k)) \in Nat
        /\ Cardinality(WithKey(k)) <= faults + IF Kept THEN 1 ELSE 0
    BY LineSets, StoreAssumption DEF TypeOK, OnceInv
  <1>1. ASSUME NEW t \in Threads, WriteLine(t)
        PROVE  Cardinality(WithKey(k)') <= faults' + IF KeptNext THEN 1 ELSE 0
    <2>1. /\ pc[t] = "write" /\ UNCHANGED <<meta, call, faults>>
          /\ \A u \in Threads : ~Unsaved(u)
      BY <1>1, NoneUnsaved DEF WriteLine, InBlock
    <2>2. CASE call[t].key = k
      <3>1. call[t].op = "append" /\ HasKey(call[t])
        BY <2>1, <2>2, StoreAssumption DEF CallInv, HasKey
      <3>2. ~Kept
        BY <2>1, <2>2, <3>1 DEF SnapInv, Replays
      <3>3. KeptNext
        BY <1>1, <2>1, <2>2, <3>1 DEF WriteLine, Unsaved, TypeOK
      <3>4. /\ WithKey(k)' = WithKey(k) \cup {Len(log) + 1}
            /\ Cardinality(WithKey(k)') <= Cardinality(WithKey(k)) + 1
            /\ Cardinality(WithKey(k)') \in Nat
        <4>1. WithKey(k)' = WithKey(k) \cup {Len(log) + 1}
          BY <1>1, <2>2, LineAdded
        <4>2. Cardinality(WithKey(k) \cup {Len(log) + 1}) =
                IF Len(log) + 1 \in WithKey(k) THEN Cardinality(WithKey(k))
                ELSE Cardinality(WithKey(k)) + 1
          BY <1>0, FS_AddElement
        <4> QED
          BY <1>0, <4>1, <4>2
      <3> QED
        BY <1>0, <2>1, <3>2, <3>3, <3>4
    <2>3. CASE call[t].key # k
      BY <1>0, <1>1, <2>1, <2>3, LineAdded
    <2> QED
      BY <2>2, <2>3
  <1>2. ASSUME log' = log, faults' = faults + 1
        PROVE  Cardinality(WithKey(k)') <= faults' + IF KeptNext THEN 1 ELSE 0
    BY <1>0, <1>2 DEF WithKey
  <1>3. ASSUME log' = log, faults' = faults
        PROVE  Cardinality(WithKey(k)') <= faults' + IF KeptNext THEN 1 ELSE 0
    <2>1. ASSUME Kept PROVE KeptNext
      <3>1. CASE meta.idem[k] # NotRecorded
        BY <3>1, MetaStep DEF MetaGrows
      <3>2. ASSUME NEW u \in Threads, Unsaved(u), call[u].key = k PROVE KeptNext
        <4>1. CASE SaveMeta(u)
          <5>1. SaveOk(u) /\ meta' = snap[u] /\ call[u].op = "append" /\ evt[u] \in Nat
            BY <3>2, <4>1 DEF SaveInv, SaveMeta, Unsaved, TypeOK
          <5>2. HasKey(call[u])
            BY <3>2, <5>1, StoreAssumption DEF HasKey
          <5>3. /\ evt[u] > 0
                /\ snap[u].idem = [meta.idem EXCEPT ![k] = [evt |-> evt[u], n |-> ent[u]]]
            BY <3>2, <5>1, <5>2 DEF SaveOk
          <5>4. meta'.idem[k] = [evt |-> evt[u], n |-> ent[u]]
            BY <5>1, <5>3 DEF TypeOK, Meta
          <5> QED
            BY <5>1, <5>3, <5>4 DEF NotRecorded
        <4>2. CASE ~SaveMeta(u)
          BY <1>3, <3>2, <4>2, UnsavedStays
        <4> QED
          BY <4>1, <4>2
      <3> QED
        BY <2>1, <3>1, <3>2
    <2> QED
      BY <1>0, <1>3, <2>1 DEF WithKey
  <1>4. \/ \E t \in Threads : WriteLine(t)
        \/ log' = log /\ (faults' = faults + 1 \/ faults' = faults)
    BY DEF Next, Step, Start, Acquire, Replay, TakeId, SetField, NextEventId,
       Reject, Unreadable, SaveMeta, Return, IOError, Crash, vars, disk
  <1> QED
    BY <1>1, <1>2, <1>3, <1>4

(* Entity ids: the step that writes a line for an id makes it one to be     *)
(* counted.                                                                 *)
LEMMA StepIdsOnce ==
  ASSUME TypeOK, TypeOK', LockInv, CallInv, SnapInv, SaveInv, OnceInv, [Next]_vars,
         NEW p \in EntityPrefixes, NEW n \in Nat
  PROVE  Cardinality(WithId(p, n)') <= faults' +
           IF \/ n <= meta'.ctr[p]
              \/ \E t \in Threads : Unsaved(t)' /\ Owns(t, p)' /\ ent'[t] = n THEN 1 ELSE 0
  <1> DEFINE Kept == \/ n <= meta.ctr[p]
                     \/ \E t \in Threads : Unsaved(t) /\ Owns(t, p) /\ ent[t] = n
             KeptNext == \/ n <= meta'.ctr[p]
                         \/ \E t \in Threads : Unsaved(t)' /\ Owns(t, p)' /\ ent'[t] = n
  <1>0. /\ faults \in Nat /\ faults' \in Nat /\ p \in Prefixes
        /\ IsFiniteSet(WithId(p, n)) /\ Cardinality(WithId(p, n)) \in Nat
        /\ Cardinality(WithId(p, n)) <= faults + IF Kept THEN 1 ELSE 0
    <2>1. Cardinality(WithId(p, n)) <= faults + IF Kept THEN 1 ELSE 0
      BY DEF OnceInv
    <2>2. faults \in Nat /\ faults' \in Nat /\ p \in Prefixes
      BY StoreAssumption DEF TypeOK, Prefixes
    <2> QED
      BY <2>1, <2>2, LineSets
  <1>1. ASSUME NEW t \in Threads, WriteLine(t)
        PROVE  Cardinality(WithId(p, n)') <= faults' + IF KeptNext THEN 1 ELSE 0
    <2>1. /\ pc[t] = "write" /\ UNCHANGED <<meta, call, ent, faults>>
          /\ \A u \in Threads : ~Unsaved(u)
      BY <1>1, NoneUnsaved DEF WriteLine, InBlock
    <2>2. CASE call[t].prefix = p /\ ent[t] = n
      <3>1. call[t].op = "append" /\ HasPrefix(call[t]) /\ Owns(t, p)
        BY <2>1, <2>2, StoreAssumption DEF CallInv, HasPrefix, Owns
      <3>2. n = meta.ctr[p] + 1 /\ meta.ctr[p] \in Nat
        BY <1>0, <2>1, <2>2, <3>1, MetaType DEF SnapInv
      <3>3. ~Kept
        BY <2>1, <3>2
      <3>4. KeptNext
        BY <1>1, <2>1, <2>2, <3>1 DEF WriteLine, Unsaved, Owns, TypeOK
      <3>5. /\ WithId(p, n)' = WithId(p, n) \cup {Len(log) + 1}
            /\ Cardinality(WithId(p, n)') <= Cardinality(WithId(p, n)) + 1
            /\ Cardinality(WithId(p, n)') \in Nat
        <4>1. WithId(p, n)' = WithId(p, n) \cup {Len(log) + 1}
          BY <1>1, <2>2, LineAdded
        <4>2. Cardinality(WithId(p, n) \cup {Len(log) + 1}) =
                IF Len(log) + 1 \in WithId(p, n) THEN Cardinality(WithId(p, n))
                ELSE Cardinality(WithId(p, n)) + 1
          BY <1>0, FS_AddElement
        <4> QED
          BY <1>0, <4>1, <4>2
      <3> QED
        BY <1>0, <2>1, <3>3, <3>4, <3>5
    <2>3. CASE ~(call[t].prefix = p /\ ent[t] = n)
      BY <1>0, <1>1, <2>1, <2>3, LineAdded
    <2> QED
      BY <2>2, <2>3
  <1>2. ASSUME log' = log, faults' = faults + 1
        PROVE  Cardinality(WithId(p, n)') <= faults' + IF KeptNext THEN 1 ELSE 0
    BY <1>0, <1>2 DEF WithId
  <1>3. ASSUME log' = log, faults' = faults
        PROVE  Cardinality(WithId(p, n)') <= faults' + IF KeptNext THEN 1 ELSE 0
    <2>1. ASSUME Kept PROVE KeptNext
      <3>1. CASE n <= meta.ctr[p]
        <4>1. meta.ctr[p] \in Nat /\ meta'.ctr[p] \in Nat /\ meta'.ctr[p] >= meta.ctr[p]
          BY <1>0, MetaStep DEF MetaGrows, TypeOK, Meta
        <4> QED
          BY <3>1, <4>1
      <3>2. ASSUME NEW u \in Threads, Unsaved(u), Owns(u, p), ent[u] = n PROVE KeptNext
        <4>1. CASE SaveMeta(u)
          <5>1. meta'.ctr[p] = ent[u]
            BY <1>0, <3>2, <4>1 DEF SaveMeta, SnapInv
          <5> QED
            BY <3>2, <5>1
        <4>2. CASE ~SaveMeta(u)
          BY <1>3, <3>2, <4>2, UnsavedStays DEF Owns
        <4> QED
          BY <4>1, <4>2
      <3> QED
        BY <2>1, <3>1, <3>2
    <2> QED
      BY <1>0, <1>3, <2>1 DEF WithId
  <1>4. \/ \E t \in Threads : WriteLine(t)
        \/ log' = log /\ (faults' = faults + 1 \/ faults' = faults)
    BY DEF Next, Step, Start, Acquire, Replay, TakeId, SetField, NextEventId,
       Reject, Unreadable, SaveMeta, Return, IOError, Crash, vars, disk
  <1> QED
    BY <1>1, <1>2, <1>3, <1>4

(* A key is written once and an id created once, but for faults.            *)
LEMMA StepOnceInv ==
  ASSUME TypeOK, TypeOK', LockInv, CallInv, SnapInv, SaveInv, OnceInv, [Next]_vars
  PROVE  OnceInv'
  BY StepKeysOnce, StepIdsOnce DEF OnceInv

-----------------------------------------------------------------------------
(* The refinement of AtomicLedger.  An event added to the log is an entry   *)
(* added to the object.                                                     *)
LEMMA EntriesGrow ==
  ASSUME NEW l \in Seq(Event), NEW e \in Event
  PROVE  EntriesOf(Append(l, e)) = Append(EntriesOf(l), EntryOf(e))
  <1> DEFINE S == {EntryOf(x) : x \in Event}
  <1>1. EntriesOf(l) \in Seq(S) /\ Len(EntriesOf(l)) = Len(l)
    BY DEF EntriesOf
  <1>2. EntryOf(e) \in S /\ Len(l) \in Nat
    OBVIOUS
  <1> HIDE DEF S
  <1>3. /\ DOMAIN Append(l, e) = 1..(Len(l) + 1)
        /\ DOMAIN Append(EntriesOf(l), EntryOf(e)) = 1..(Len(l) + 1)
    BY <1>1, <1>2
  <1>4. ASSUME NEW i \in 1..(Len(l) + 1)
        PROVE  EntryOf(Append(l, e)[i]) = Append(EntriesOf(l), EntryOf(e))[i]
    <2>1. CASE i = Len(l) + 1
      BY <1>1, <1>2, <2>1
    <2>2. CASE i # Len(l) + 1
      <3>1. i \in 1..Len(l) /\ Append(l, e)[i] = l[i]
        BY <1>2, <1>4, <2>2
      <3>2. Append(EntriesOf(l), EntryOf(e))[i] = EntriesOf(l)[i]
        BY <1>1, <1>2, <3>1
      <3>3. EntriesOf(l)[i] = EntryOf(l[i])
        BY <3>1 DEF EntriesOf
      <3> QED
        BY <3>1, <3>2, <3>3
    <2> QED
      BY <2>1, <2>2
  <1>5. /\ EntriesOf(Append(l, e)) \in Seq(S)
        /\ Len(EntriesOf(Append(l, e))) = Len(l) + 1
        /\ \A i \in 1..(Len(l) + 1) : EntriesOf(Append(l, e))[i] = EntryOf(Append(l, e)[i])
    <2>1. Append(l, e) \in Seq(Event) /\ Len(Append(l, e)) = Len(l) + 1
      OBVIOUS
    <2> QED
      BY <1>3, <2>1 DEF EntriesOf, S
  <1>6. /\ Append(EntriesOf(l), EntryOf(e)) \in Seq(S)
        /\ Len(Append(EntriesOf(l), EntryOf(e))) = Len(l) + 1
    BY <1>1, <1>2
  <1> QED
    BY <1>4, <1>5, <1>6, SeqEqual

(* The entry of an event that is in the log and not saved.                  *)
LEMMA UnsavedEntry ==
  ASSUME TypeOK, CallInv, SnapInv, SaveInv, NEW t \in Threads, Unsaved(t), log' = log, ~SomeUnsaved'
  PROVE  /\ EntriesOf(Settled)' =
              Append(EntriesOf(Settled), Ledger!Entry(call[t].prefix, call[t].key))
         /\ call[t].prefix \in EntityPrefixes \cup {None}
         /\ call[t].key \in Keys \cup {None} /\ call[t].key \notin UsedKeys
  <1>1. /\ call[t] \in AppendCalls /\ pc[t] = "save" /\ SaveOk(t)
        /\ log \in Seq(Event) /\ log # <<>> /\ log[Len(log)] = NewEvent(t)
    BY RunningCall, CallShape DEF Unsaved, SaveInv, SaveOk, TypeOK
  <1>2. /\ call[t].prefix \in EntityPrefixes \cup {None} /\ call[t].op = "append"
        /\ call[t].key \in Keys \cup {None}
    BY <1>1 DEF AppendCalls
  <1>3. call[t].key \notin UsedKeys
    BY <1>1, <1>2, StoreAssumption DEF UsedKeys, SaveOk, HasKey, Unsaved
  <1>4. ent[t] = IF call[t].prefix = None THEN 0 ELSE meta.ctr[call[t].prefix] + 1
    BY <1>1, <1>2 DEF SaveOk, SnapInv, HasPrefix, Owns, Prefixes
  <1>5. Settled = SubSeq(log, 1, Len(log) - 1) /\ Settled' = log
    BY DEF Settled, SomeUnsaved
  <1>6. Len(log) \in Nat /\ Len(log) > 0 /\ NewEvent(t) \in Event
    BY <1>1
  <1>7. Settled \in Seq(Event) /\ log = Append(Settled, NewEvent(t))
    <2>1. SubSeq(log, 1, Len(log) - 1) \in Seq(Event)
      BY <1>1, <1>6
    <2>2. Append(SubSeq(log, 1, Len(log) - 1), log[Len(log)]) = log
      BY <1>1, <1>6
    <2> QED
      BY <1>1, <1>5, <2>1, <2>2
  <1>8. EntryOf(NewEvent(t)) = Ledger!Entry(call[t].prefix, call[t].key)
    BY <1>4 DEF EntryOf, NewEvent, Ledger!Entry
  <1> HIDE DEF Settled
  <1>9. EntriesOf(log) = Append(EntriesOf(Settled), EntryOf(NewEvent(t)))
    BY <1>6, <1>7, EntriesGrow
  <1>10. EntriesOf(Settled)' = EntriesOf(log)
    BY <1>5 DEF EntriesOf
  <1> QED
    BY <1>2, <1>3, <1>8, <1>9, <1>10

(* A step that moves nothing between log, project.json and "about to save"  *)
(* is invisible to the callers.                                             *)
LEMMA NothingSettles ==
  ASSUME UNCHANGED <<log, meta, faults>>, SomeUnsaved' <=> SomeUnsaved
  PROVE  UNCHANGED Ledger!avars
  <1>1. Settled' = Settled
    BY DEF Settled
  <1> HIDE DEF Settled
  <1>2. EntriesOf(Settled)' = EntriesOf(Settled)
    BY <1>1 DEF EntriesOf
  <1>3. UsedKeys' = UsedKeys
    BY DEF UsedKeys
  <1> QED
    BY <1>2, <1>3 DEF Ledger!avars

(* Whether something is to be saved depends on the thread that steps, and,  *)
(* while a thread is in the lock block, on that thread only.                *)
LEMMA UnsavedByStep ==
  ASSUME TypeOK, LockInv, NEW t \in Threads, Start(t) \/ Step(t) \/ IOError(t)
  PROVE  /\ (Unsaved(t)' <=> Unsaved(t)) => (SomeUnsaved' <=> SomeUnsaved)
         /\ pc[t] \in InBlock => /\ SomeUnsaved <=> Unsaved(t)
                                 /\ SomeUnsaved' <=> Unsaved(t)'
  <1>1. \A u \in Threads : u # t => (Unsaved(u)' <=> Unsaved(u))
    BY OthersKeep DEF Unsaved
  <1>2. ASSUME pc[t] \in InBlock PROVE \A u \in Threads : u # t => ~Unsaved(u)
    BY <1>2, OthersOutside DEF Unsaved, InBlock
  <1> QED
    BY <1>1, <1>2 DEF SomeUnsaved

(* The fields of a record of project.json, put together.                    *)
LEMMA SavedMeta ==
  ASSUME TypeOK, SnapInv, NEW t \in Threads, SaveMeta(t)
  PROVE  /\ meta' = snap[t] /\ meta' \in Meta
         /\ ~HasPrefix(call[t]) => meta'.ctr = meta.ctr
         /\ HasPrefix(call[t]) /\ call[t].prefix \in Prefixes =>
              meta'.ctr = [meta.ctr EXCEPT ![call[t].prefix] = @ + 1]
         /\ call[t].op # "field" => meta'.field = meta.field
         /\ UNCHANGED <<log, faults>>
  <1>1. /\ pc[t] = "save" /\ meta' = snap[t] /\ meta' \in Meta
        /\ meta \in Meta /\ UNCHANGED <<log, faults>>
    BY DEF SaveMeta, TypeOK
  <1>2. meta'.ctr \in [Prefixes -> Nat] /\ meta.ctr \in [Prefixes -> Nat]
    BY <1>1 DEF Meta
  <1>3. ASSUME ~HasPrefix(call[t]) PROVE meta'.ctr = meta.ctr
    <2>1. \A p \in Prefixes : meta'.ctr[p] = meta.ctr[p]
      BY <1>1, <1>3 DEF SnapInv, Owns
    <2> QED
      BY <1>2, <2>1
  <1>4. ASSUME HasPrefix(call[t]), call[t].prefix \in Prefixes
        PROVE  meta'.ctr = [meta.ctr EXCEPT ![call[t].prefix] = @ + 1]
    <2>1. \A p \in Prefixes : meta'.ctr[p] = IF p = call[t].prefix THEN meta.ctr[p] + 1
                                             ELSE meta.ctr[p]
      BY <1>1, <1>4 DEF SnapInv, Owns
    <2> QED
      BY <1>2, <1>4, <2>1
  <1> QED
    BY <1>1, <1>3, <1>4 DEF SnapInv

(* The line is written: with a counter or a key to save nothing is visible  *)
(* yet, without them the call is done.                                      *)
LEMMA WriteLineMaps ==
  ASSUME TypeOK, LockInv, CallInv, NumberInv, SnapInv, SaveInv, NEW t \in Threads,
         WriteLine(t)
  PROVE  [Ledger!AtomicNext]_(Ledger!avars)
  <1>1. /\ pc[t] = "write" /\ call[t] \in AppendCalls /\ call[t].op = "append"
        /\ log' = Append(log, NewEvent(t)) /\ UNCHANGED <<meta, call, faults>>
    BY RunningCall, CallShape DEF WriteLine, CallInv
  <1>2. ~SomeUnsaved /\ log \in Seq(Event) /\ Len(log) \in Nat
    <2>1. ~SomeUnsaved
      BY <1>1, NoneUnsaved DEF SomeUnsaved, InBlock
    <2>2. log \in Seq(Event)
      BY DEF TypeOK
    <2> QED
      BY <2>1, <2>2
  <1>3. SomeUnsaved' <=> Unsaved(t)'
    BY <1>1, UnsavedByStep DEF InBlock, Step
  <1>4. UsedKeys' = UsedKeys
    BY <1>1 DEF UsedKeys
  <1>5. NewEvent(t) \in Event
    BY <1>1 DEF NumberInv, NewEvent, TypeOK, AppendCalls, Event
  <1>6. CASE HasPrefix(call[t]) \/ HasKey(call[t])
    <2>1. SomeUnsaved'
      BY <1>1, <1>3, <1>6 DEF WriteLine, Unsaved, TypeOK
    <2>2. SubSeq(Append(log, NewEvent(t)), 1, Len(log)) = log
      BY <1>2, <1>5
    <2>3. Settled = log /\ Settled' = SubSeq(log', 1, Len(log') - 1)
      BY <1>2, <2>1 DEF Settled
    <2>4. Settled' = Settled
      BY <1>1, <1>2, <1>5, <2>2, <2>3
    <2>5. EntriesOf(Settled)' = EntriesOf(Settled)
      BY <2>4 DEF EntriesOf
    <2> QED
      BY <1>1, <1>4, <2>5 DEF Ledger!avars
  <1>7. CASE ~HasPrefix(call[t]) /\ ~HasKey(call[t])
    <2>1. ~SomeUnsaved' /\ call[t].prefix = None /\ call[t].key = None
      BY <1>1, <1>3, <1>7 DEF WriteLine, Unsaved, TypeOK, HasPrefix, HasKey
    <2>2. Settled = log /\ Settled' = log'
      BY <1>2, <2>1 DEF Settled
    <2>3. ent[t] = 0
      BY <1>1, <1>7 DEF SaveInv, SaveOk
    <2>4. EntryOf(NewEvent(t)) = Ledger!Entry(None, None)
      BY <2>1, <2>3 DEF EntryOf, NewEvent, Ledger!Entry
    <2>5. EntriesOf(Settled)' = Append(EntriesOf(Settled), Ledger!Entry(None, None))
      <3>1. EntriesOf(Append(log, NewEvent(t))) = Append(EntriesOf(log), EntryOf(NewEvent(t)))
        BY <1>2, <1>5, EntriesGrow
      <3> QED
        BY <1>1, <2>2, <2>4, <3>1 DEF EntriesOf
    <2>6. None \notin UsedKeys
      BY StoreAssumption DEF UsedKeys
    <2>7. Ledger!Write(None, None)
      BY <1>1, <1>4, <2>5, <2>6 DEF Ledger!Write
    <2> QED
      BY <2>7 DEF Ledger!AtomicNext
  <1> QED
    BY <1>6, <1>7

(* project.json is saved: what the call did is there for all to see.        *)
LEMMA SaveMetaMaps ==
  ASSUME TypeOK, LockInv, CallInv, SnapInv, SaveInv, NEW t \in Threads, SaveMeta(t)
  PROVE  Ledger!AtomicNext
  <1>1. /\ pc[t] = "save" /\ call[t] \in Calls /\ SaveOk(t) /\ ~Unsaved(t)'
        /\ meta' = snap[t] /\ UNCHANGED <<log, faults>>
    BY RunningCall DEF SaveMeta, SaveInv, Unsaved, TypeOK
  <1>2. /\ SomeUnsaved <=> Unsaved(t)
        /\ ~SomeUnsaved'
    BY <1>1, UnsavedByStep DEF InBlock, Step
  <1>3. CASE call[t].op = "append"
    <2> DEFINE p == call[t].prefix
               k == call[t].key
    <2>1. /\ EntriesOf(Settled)' = Append(EntriesOf(Settled), Ledger!Entry(p, k))
          /\ p \in EntityPrefixes \cup {None} /\ k \in Keys \cup {None} /\ k \notin UsedKeys
      BY <1>1, <1>2, <1>3, UnsavedEntry DEF Unsaved
    <2>2. /\ meta'.ctr = IF p = None THEN meta.ctr ELSE [meta.ctr EXCEPT ![p] = @ + 1]
          /\ meta'.field = meta.field
      BY <1>1, <1>3, <2>1, SavedMeta DEF HasPrefix, Prefixes
    <2>3. UsedKeys' = UsedKeys \cup ({k} \ {None})
      <3>1. CASE k = None
        <4>1. meta'.idem = meta.idem
          BY <1>1, <1>3, <3>1 DEF SaveOk, Unsaved, HasKey
        <4> QED
          BY <3>1, <4>1 DEF UsedKeys
      <3>2. CASE k # None
        <4>1. /\ meta'.idem = [meta.idem EXCEPT ![k] = [evt |-> evt[t], n |-> ent[t]]]
              /\ evt[t] > 0 /\ evt[t] \in Nat
          BY <1>1, <1>3, <3>2 DEF SaveOk, Unsaved, HasKey, TypeOK
        <4>2. \A j \in Keys : meta'.idem[j] = IF j = k THEN [evt |-> evt[t], n |-> ent[t]]
                                              ELSE meta.idem[j]
          BY <4>1 DEF TypeOK, Meta
        <4>3. [evt |-> evt[t], n |-> ent[t]] # NotRecorded
          BY <4>1 DEF NotRecorded
        <4> QED
          BY <2>1, <3>2, <4>2, <4>3 DEF UsedKeys
      <3> QED
        BY <3>1, <3>2
    <2>4. Ledger!Write(p, k)
      BY <1>1, <2>1, <2>2, <2>3 DEF Ledger!Write
    <2> QED
      BY <2>1, <2>4 DEF Ledger!AtomicNext
  <1>4. ASSUME call[t].op # "append"
        PROVE  UNCHANGED <<EntriesOf(Settled), UsedKeys, faults>>
    <2>1. ~SomeUnsaved /\ ~SomeUnsaved' /\ meta'.idem = meta.idem
      BY <1>1, <1>2, <1>4 DEF Unsaved, SaveOk
    <2>2. Settled = log /\ Settled' = log
      BY <1>1, <2>1 DEF Settled
    <2> QED
      BY <1>1, <2>1, <2>2 DEF EntriesOf, UsedKeys
  <1>5. CASE call[t].op = "alloc"
    <2>1. call[t].prefix \in AllocPrefixes /\ HasPrefix(call[t])
      BY <1>1, <1>5, CallShape, StoreAssumption DEF AllocCalls, HasPrefix
    <2>2. /\ meta'.ctr = [meta.ctr EXCEPT ![call[t].prefix] = @ + 1]
          /\ meta'.field = meta.field
      BY <1>1, <1>5, <2>1, SavedMeta DEF Prefixes
    <2>3. Ledger!Allocate(call[t].prefix)
      BY <1>4, <1>5, <2>2 DEF Ledger!Allocate
    <2> QED
      BY <2>1, <2>3 DEF Ledger!AtomicNext
  <1>6. CASE call[t].op = "field"
    <2>1. call[t].value \in Fields /\ ~HasPrefix(call[t])
      BY <1>1, <1>6, CallShape DEF FieldCalls, HasPrefix
    <2>2. meta'.ctr = meta.ctr /\ meta'.field = call[t].value
      BY <1>1, <1>6, <2>1, SavedMeta DEF SaveOk
    <2>3. Ledger!SetField(call[t].value)
      BY <1>4, <1>6, <2>2 DEF Ledger!SetField
    <2> QED
      BY <2>1, <2>3 DEF Ledger!AtomicNext
  <1> QED
    BY <1>1, <1>3, <1>5, <1>6, CallShape

(* A failure between the event and project.json leaves one orphan, any      *)
(* other leaves nothing.                                                    *)
LEMMA FailureMaps ==
  ASSUME TypeOK, LockInv, CallInv, SnapInv, SaveInv,
         UNCHANGED <<log, meta>>, faults' = faults + 1, ~SomeUnsaved'
  PROVE  Ledger!AtomicNext
  <1>1. UsedKeys' = UsedKeys
    BY DEF UsedKeys
  <1>2. ASSUME NEW t \in Threads, Unsaved(t) PROVE Ledger!AtomicNext
    <2>1. /\ EntriesOf(Settled)' =
               Append(EntriesOf(Settled), Ledger!Entry(call[t].prefix, call[t].key))
          /\ call[t].prefix \in EntityPrefixes \cup {None}
          /\ call[t].key \in Keys \cup {None} /\ call[t].key \notin UsedKeys
      BY <1>2, UnsavedEntry
    <2>2. Ledger!Orphan(call[t].prefix, call[t].key)
      BY <1>1, <2>1 DEF Ledger!Orphan
    <2> QED
      BY <2>1, <2>2 DEF Ledger!AtomicNext
  <1>3. CASE ~SomeUnsaved
    <2>1. Settled = log /\ Settled' = log
      BY <1>3 DEF Settled
    <2>2. EntriesOf(Settled)' = EntriesOf(Settled)
      BY <2>1 DEF EntriesOf
    <2>3. Ledger!Fail
      BY <1>1, <2>2 DEF Ledger!Fail
    <2> QED
      BY <2>3 DEF Ledger!AtomicNext
  <1> QED
    BY <1>2, <1>3 DEF SomeUnsaved

(* Every step of the store is a step of the atomic object or none.          *)
LEMMA StepMaps ==
  ASSUME TypeOK, LockInv, CallInv, NumberInv, SnapInv, SaveInv, [Next]_vars
  PROVE  [Ledger!AtomicNext]_(Ledger!avars)
  <1>1. ASSUME NEW t \in Threads,
               \/ Start(t) \/ Acquire(t) \/ Replay(t) \/ TakeId(t) \/ SetField(t)
               \/ NextEventId(t) \/ Reject(t) \/ Unreadable(t) \/ Return(t)
        PROVE  UNCHANGED Ledger!avars
    <2>1. UNCHANGED <<log, meta, faults>>
      BY <1>1 DEF Start, Acquire, Replay, TakeId, SetField, NextEventId, Reject,
         Unreadable, Return, disk
    <2>2. ~Unsaved(t)
      BY <1>1 DEF Start, Acquire, Replay, TakeId, SetField, NextEventId, Reject,
         Unreadable, Return, Unsaved
    <2>3. ~Unsaved(t)'
      <3>1. CASE Start(t) \/ Acquire(t) \/ NextEventId(t)
        BY <3>1 DEF Start, Acquire, NextEventId, Unsaved, TypeOK
      <3>2. CASE Replay(t) \/ Reject(t) \/ Unreadable(t) \/ Return(t)
        BY <3>2 DEF Replay, Reject, Unreadable, Return, Leave, Unsaved, TypeOK
      <3>3. CASE TakeId(t) \/ SetField(t)
        BY <3>3 DEF TakeId, SetField, Unsaved, TypeOK
      <3> QED
        BY <1>1, <3>1, <3>2, <3>3
    <2>4. SomeUnsaved' <=> SomeUnsaved
      BY <1>1, <2>2, <2>3, UnsavedByStep DEF Step
    <2> QED
      BY <2>1, <2>4, NothingSettles
  <1>2. ASSUME NEW t \in Threads, IOError(t) PROVE Ledger!AtomicNext
    <2>1. /\ pc[t] \in InBlock /\ UNCHANGED <<log, meta>> /\ faults' = faults + 1
          /\ ~Unsaved(t)'
      BY <1>2 DEF IOError, Leave, InBlock, Unsaved, TypeOK, disk
    <2>2. ~SomeUnsaved'
      BY <1>2, <2>1, UnsavedByStep
    <2> QED
      BY <2>1, <2>2, FailureMaps
  <1>3. CASE Crash
    <2>1. UNCHANGED <<log, meta>> /\ faults' = faults + 1 /\ ~SomeUnsaved'
      BY <1>3 DEF Crash, SomeUnsaved, Unsaved
    <2> QED
      BY <2>1, FailureMaps
  <1>4. CASE UNCHANGED vars
    <2>1. UNCHANGED <<log, meta, faults>> /\ (SomeUnsaved' <=> SomeUnsaved)
      BY <1>4 DEF vars, SomeUnsaved, Unsaved
    <2> QED
      BY <2>1, NothingSettles
  <1> QED
    BY <1>1, <1>2, <1>3, <1>4, WriteLineMaps, SaveMetaMaps DEF Next, Step

(* A new project is the empty object.                                       *)
LEMMA InitMaps == Init => Ledger!AInit
  <1> SUFFICES ASSUME Init PROVE Ledger!AInit
    OBVIOUS
  <1>1. ~SomeUnsaved /\ log = <<>>
    BY DEF Init, SomeUnsaved, Unsaved
  <1>2. Settled = <<>>
    BY <1>1 DEF Settled
  <1>3. EntriesOf(Settled) = <<>>
    BY <1>2 DEF EntriesOf
  <1>4. UsedKeys = {}
    BY DEF Init, EmptyMeta, UsedKeys
  <1>5. meta.ctr = [p \in EntityPrefixes \cup AllocPrefixes |-> 0] /\ meta.field \in Fields
    BY EmptyMetaType DEF Init, EmptyMeta, Prefixes
  <1> QED
    BY <1>3, <1>4, <1>5 DEF Ledger!AInit, Init

-----------------------------------------------------------------------------
(* The whole of the inductive invariant holds of a new project.             *)
LEMMA LedgerInvInit == Init => LedgerInv
  <1> SUFFICES ASSUME Init PROVE LedgerInv
    OBVIOUS
  <1>1. StoreInv
    BY StoreInvInit
  <1>2. SaveInv
    BY DEF Init, SaveInv, SaveOk, Unsaved
  <1>3. LoggedInv
    <2>1. \A p \in EntityPrefixes : handed[p] = <<>>
      BY DEF Init, Prefixes
    <2>2. \A k \in Keys : meta.idem[k] = NotRecorded
      BY DEF Init, EmptyMeta
    <2> QED
      BY <2>1, <2>2 DEF Init, LoggedInv, RepliesAreLogged
  <1>4. OnceInv
    <2>1. /\ \A k : WithKey(k) = {}
          /\ \A p, n : WithId(p, n) = {}
      BY DEF Init, WithKey, WithId
    <2>2. Cardinality({}) = 0 /\ faults = 0
      BY FS_EmptySet DEF Init
    <2> QED
      BY <2>1, <2>2 DEF OnceInv
  <1> QED
    BY <1>1, <1>2, <1>3, <1>4 DEF LedgerInv

(* Every step keeps it.                                                     *)
LEMMA LedgerInvStep == LedgerInv /\ [Next]_vars => LedgerInv'
  <1> SUFFICES ASSUME LedgerInv, [Next]_vars PROVE LedgerInv'
    OBVIOUS
  <1>1. /\ StoreInv /\ SaveInv /\ LoggedInv /\ OnceInv
        /\ TypeOK /\ LockInv /\ CallInv /\ NumberInv /\ SnapInv
    BY DEF LedgerInv, StoreInv
  <1>2. StoreInv' /\ TypeOK'
    BY <1>1, StoreInvStep DEF StoreInv
  <1> QED
    BY <1>1, <1>2, StepSaveInv, StepLoggedInv, StepOnceInv DEF LedgerInv

(* The inductive invariant of the log and project.json together.            *)
THEOREM LedgerInvariant == Spec => []LedgerInv
  BY LedgerInvInit, LedgerInvStep, PTL DEF Spec

(* An id that a create returned, and the result recorded for a key, each    *)
(* belong to an event of events.ndjson, whatever crashed or failed since.   *)
THEOREM RepliesAlwaysLogged == Spec => []RepliesAreLogged
  <1>1. LedgerInv => RepliesAreLogged
    BY DEF LedgerInv, LoggedInv
  <1> QED
    BY <1>1, LedgerInvariant, PTL

(* append_event_with_id writes a key once and creates an id once; only a    *)
(* crash or a failed write can make one of them happen again, once each.    *)
THEOREM DuplicatesAreFaults == Spec => []DuplicatesBoundedByFaults
  <1>1. ASSUME TypeOK, OnceInv PROVE DuplicatesBoundedByFaults
    <2>1. faults \in Nat
      BY <1>1, StoreAssumption DEF TypeOK
    <2>2. ASSUME NEW k \in Keys PROVE Cardinality(WithKey(k)) <= 1 + faults
      BY <1>1, <2>1, LineSets DEF OnceInv
    <2>3. ASSUME NEW i \in DOMAIN log, log[i].prefix # None
          PROVE  Cardinality(WithId(log[i].prefix, log[i].n)) <= 1 + faults
      <3>1. log[i].prefix \in EntityPrefixes /\ log[i].n \in Nat
        BY <1>1, <2>3, LogEntries DEF Event
      <3> QED
        BY <1>1, <2>1, <3>1, LineSets DEF OnceInv
    <2> QED
      BY <2>2, <2>3 DEF DuplicatesBoundedByFaults
  <1>2. LedgerInv => TypeOK /\ OnceInv
    BY DEF LedgerInv, StoreInv
  <1> QED
    BY <1>1, <1>2, LedgerInvariant, PTL

(* The store of log, cache, lock and project.json, with its threads, its    *)
(* failures and its order of writes, implements the object that reads and   *)
(* changes everything in one step and loses one bookkeeping per failure.    *)
THEOREM StoreIsAtomic == Spec => IsAtomic
  <1>1. LedgerInv /\ [Next]_vars => [Ledger!AtomicNext]_(Ledger!avars)
    BY StepMaps DEF LedgerInv, StoreInv
  <1> QED
    BY <1>1, InitMaps, LedgerInvariant, PTL DEF Spec, IsAtomic, Ledger!AtomicSpec

=============================================================================
