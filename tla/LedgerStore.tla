----------------------------- MODULE LedgerStore -----------------------------
(***************************************************************************)
(* ppa/ledger/store.py: the append-only event log (events.ndjson), the id  *)
(* counters and the idempotency map (project.json), and the per-path       *)
(* threading.Lock that guards both, as several threads of one process use  *)
(* them, with the process dying and a new one taking over.                 *)
(*                                                                         *)
(* Disk:    log, torn, meta.  Memory of the process: cache, lock and, per  *)
(* thread, pc and the locals of the call (call, snap, ent, evt).           *)
(* Observation: handed (ids returned to callers), calls, faults.           *)
(***************************************************************************)
EXTENDS Integers, Sequences, FiniteSets

CONSTANTS
  Threads,         \* threads of the one process that may hold the lock
  EntityPrefixes,  \* id prefixes created with an event ("REQ", "DEC", ...)
  AllocPrefixes,   \* id prefixes handed out by allocate_id alone ("TXN")
  Keys,            \* idempotency keys
  Fields,          \* values of the other project.json fields (workflow_state)
  None,            \* no prefix, no key, no thread
  Faults,          \* kinds of failure that may happen, see FaultKinds
  MaxCalls,        \* bound: calls started
  MaxFaults        \* bound: crashes and failed writes

FaultKinds == {"invalid", "crash", "torn", "io"}

ASSUME StoreAssumption ==
  /\ EntityPrefixes \cap AllocPrefixes = {}
  /\ None \notin Threads \cup EntityPrefixes \cup AllocPrefixes \cup Keys
  /\ Fields # {}
  /\ Faults \subseteq FaultKinds
  /\ MaxCalls \in Nat /\ MaxFaults \in Nat

Prefixes == EntityPrefixes \cup AllocPrefixes

(* One line of events.ndjson: the event number, and, when the write created *)
(* an entity, its id <<prefix, n>>; key is the idem_key it was written with. *)
Event == [num: Nat \ {0}, prefix: EntityPrefixes \cup {None}, n: Nat,
          key: Keys \cup {None}]

(* What the idempotency map keeps for a key. Event numbers start at 1.      *)
Recorded == [evt: Nat, n: Nat]
NotRecorded == [evt |-> 0, n |-> 0]

Meta == [ctr: [Prefixes -> Nat], idem: [Keys -> Recorded], field: Fields]

(* The calls a thread can make: append_event / append_event_with_id (the    *)
(* first is the second without prefix and key), allocate_id, and a setter   *)
(* of another project.json field under path_lock. valid: Event(...) accepts *)
(* the fields.                                                              *)
Validity == IF "invalid" \in Faults THEN BOOLEAN ELSE {TRUE}
AppendCalls == [op: {"append"}, prefix: EntityPrefixes \cup {None},
                key: Keys \cup {None}, valid: Validity]
AllocCalls == [op: {"alloc"}, prefix: AllocPrefixes]
FieldCalls == [op: {"field"}, value: Fields]
Calls == AppendCalls \cup AllocCalls \cup FieldCalls
NoCall == [op |-> "none"]

Cold == -1   \* _last_event_number_cache has no entry for the path yet

VARIABLES log, torn, meta, cache, lock, pc, call, snap, ent, evt,
          handed, calls, faults

disk == <<log, torn, meta>>
locals == <<call, snap, ent, evt>>
vars == <<log, torn, meta, cache, lock, pc, call, snap, ent, evt,
          handed, calls, faults>>

InitField == CHOOSE f \in Fields : TRUE

EmptyMeta == [ctr |-> [p \in Prefixes |-> 0],
              idem |-> [k \in Keys |-> NotRecorded],
              field |-> InitField]

Init ==
  /\ log = <<>> /\ torn = FALSE /\ meta = EmptyMeta
  /\ cache = Cold /\ lock = None
  /\ pc = [t \in Threads |-> "idle"]
  /\ call = [t \in Threads |-> NoCall]
  /\ snap = [t \in Threads |-> EmptyMeta]
  /\ ent = [t \in Threads |-> 0]
  /\ evt = [t \in Threads |-> 0]
  /\ handed = [p \in Prefixes |-> <<>>]
  /\ calls = 0 /\ faults = 0

-----------------------------------------------------------------------------
(* Mutant of LastEventNumber: the number of lines, not the last number.     *)
LineCount == Len(log)

(* _read_last_event_number: the number on the last line, 0 for no log.      *)
LastEventNumber == IF log = <<>> THEN 0 ELSE log[Len(log)].num

(* Mutant of CacheBase: the cache is never filled from disk.                *)
CacheOnly == cache

(* What _next_event_id counts on from.                                      *)
CacheBase == IF cache = Cold THEN LastEventNumber ELSE cache

(* Leaving the `with lock` block, by return or by exception.                *)
Leave(t) ==
  /\ lock' = None
  /\ pc' = [pc EXCEPT ![t] = "idle"]
  /\ call' = [call EXCEPT ![t] = NoCall]
  /\ snap' = [snap EXCEPT ![t] = EmptyMeta]
  /\ ent' = [ent EXCEPT ![t] = 0]
  /\ evt' = [evt EXCEPT ![t] = 0]

Start(t) ==
  /\ pc[t] = "idle" /\ calls < MaxCalls
  /\ \E c \in Calls : call' = [call EXCEPT ![t] = c]
  /\ pc' = [pc EXCEPT ![t] = "acquire"]
  /\ calls' = calls + 1
  /\ UNCHANGED <<disk, cache, lock, snap, ent, evt, handed, faults>>

(* Mutant of Acquire: project.json is read and written outside the lock.    *)
AcquireUnlocked(t) ==
  /\ pc[t] = "acquire"
  /\ lock' = t
  /\ snap' = [snap EXCEPT ![t] = meta]
  /\ pc' = [pc EXCEPT ![t] = "check"]
  /\ UNCHANGED <<disk, cache, call, ent, evt, handed, calls, faults>>

(* `with lock:` and _read_project_meta.                                     *)
Acquire(t) ==
  /\ pc[t] = "acquire" /\ lock = None
  /\ lock' = t
  /\ snap' = [snap EXCEPT ![t] = meta]
  /\ pc' = [pc EXCEPT ![t] = "check"]
  /\ UNCHANGED <<disk, cache, call, ent, evt, handed, calls, faults>>

HasPrefix(c) == c.op # "field" /\ c.prefix # None
HasKey(c) == c.op = "append" /\ c.key # None
(* Mutant of Replays: the idem_key is recorded but never looked up.         *)
NeverReplays(t) == t \notin Threads
Replays(t) == HasKey(call[t]) /\ snap[t].idem[call[t].key] # NotRecorded

(* Mutant of Replay: the id is taken before the key is looked up.           *)
ReplayBurnsId(t) ==
  /\ pc[t] = "check" /\ call[t].op = "append" /\ Replays(t)
  /\ Leave(t)
  /\ meta' = IF call[t].prefix = None THEN meta
             ELSE [meta EXCEPT !.ctr[call[t].prefix] = @ + 1]
  /\ UNCHANGED <<log, torn, cache, handed, calls, faults>>

(* The idem_key is known: return the recorded result, write nothing.        *)
Replay(t) ==
  /\ pc[t] = "check" /\ call[t].op = "append" /\ Replays(t)
  /\ Leave(t)
  /\ UNCHANGED <<disk, cache, handed, calls, faults>>

(* The counter of the prefix, in the copy of project.json held in memory.   *)
Bump(t) ==
  IF HasPrefix(call[t])
  THEN /\ ent' = [ent EXCEPT ![t] = snap[t].ctr[call[t].prefix] + 1]
       /\ snap' = [snap EXCEPT ![t].ctr[call[t].prefix] = @ + 1]
  ELSE UNCHANGED <<ent, snap>>

(* Mutant of TakeId: allocate_id does not write project.json.               *)
TakeIdUnsaved(t) ==
  /\ pc[t] = "check" /\ call[t].op \in {"append", "alloc"} /\ ~Replays(t)
  /\ Bump(t)
  /\ pc' = [pc EXCEPT ![t] = IF call[t].op = "append" THEN "number" ELSE "return"]
  /\ UNCHANGED <<disk, cache, lock, call, evt, handed, calls, faults>>

(* allocate_id, and the counter part of append_event_with_id.               *)
TakeId(t) ==
  /\ pc[t] = "check" /\ call[t].op \in {"append", "alloc"} /\ ~Replays(t)
  /\ Bump(t)
  /\ pc' = [pc EXCEPT ![t] = IF call[t].op = "append" THEN "number" ELSE "save"]
  /\ UNCHANGED <<disk, cache, lock, call, evt, handed, calls, faults>>

SetField(t) ==
  /\ pc[t] = "check" /\ call[t].op = "field"
  /\ snap' = [snap EXCEPT ![t].field = call[t].value]
  /\ pc' = [pc EXCEPT ![t] = "save"]
  /\ UNCHANGED <<disk, cache, lock, call, ent, evt, handed, calls, faults>>

(* Mutant of NextEventId: project.json is saved before the event is.        *)
NextEventIdAfterSave(t) ==
  /\ pc[t] = "number" /\ call[t].valid /\ ~(cache = Cold /\ torn)
  /\ cache' = CacheBase + 1
  /\ evt' = [evt EXCEPT ![t] = CacheBase + 1]
  /\ meta' = IF HasKey(call[t])
             THEN [snap[t] EXCEPT !.idem[call[t].key] =
                                    [evt |-> CacheBase + 1, n |-> ent[t]]]
             ELSE snap[t]
  /\ pc' = [pc EXCEPT ![t] = "write"]
  /\ UNCHANGED <<log, torn, lock, call, snap, ent, handed, calls, faults>>

(* _next_event_id: a cold cache is filled from disk once; the number is     *)
(* taken before Event(...) validates the fields.                            *)
NextEventId(t) ==
  /\ pc[t] = "number" /\ call[t].valid /\ ~(cache = Cold /\ torn)
  /\ cache' = CacheBase + 1
  /\ evt' = [evt EXCEPT ![t] = CacheBase + 1]
  /\ pc' = [pc EXCEPT ![t] = "write"]
  /\ UNCHANGED <<disk, lock, call, snap, ent, handed, calls, faults>>

(* Mutant of Reject: acquire() and release() without `with`.                *)
RejectLocked(t) ==
  /\ pc[t] = "number" /\ ~call[t].valid /\ ~(cache = Cold /\ torn)
  /\ cache' = CacheBase + 1
  /\ pc' = [pc EXCEPT ![t] = "idle"]
  /\ UNCHANGED <<disk, lock, locals, handed, calls, faults>>

(* Event(...) raises: the call fails, the number is gone from the cache.    *)
Reject(t) ==
  /\ pc[t] = "number" /\ ~call[t].valid /\ ~(cache = Cold /\ torn)
  /\ cache' = CacheBase + 1
  /\ Leave(t)
  /\ UNCHANGED <<disk, handed, calls, faults>>

(* json.loads fails on a torn last line: no append succeeds any more.       *)
Unreadable(t) ==
  /\ pc[t] = "number" /\ cache = Cold /\ torn
  /\ Leave(t)
  /\ UNCHANGED <<disk, cache, handed, calls, faults>>

NewEvent(t) == [num |-> evt[t], prefix |-> call[t].prefix, n |-> ent[t],
                key |-> call[t].key]

(* One line, flushed and fsynced. project.json follows only if there is a   *)
(* counter or a key to keep.                                                *)
WriteLine(t) ==
  /\ pc[t] = "write"
  /\ log' = Append(log, NewEvent(t))
  /\ snap' = IF HasKey(call[t])
             THEN [snap EXCEPT ![t].idem[call[t].key] =
                                 [evt |-> evt[t], n |-> ent[t]]]
             ELSE snap
  /\ pc' = [pc EXCEPT ![t] = IF HasPrefix(call[t]) \/ HasKey(call[t])
                              THEN "save" ELSE "return"]
  /\ UNCHANGED <<torn, meta, cache, lock, call, ent, evt, handed, calls, faults>>

(* _write_project_meta: temporary file, then os.replace.                    *)
SaveMeta(t) ==
  /\ pc[t] = "save"
  /\ meta' = snap[t]
  /\ pc' = [pc EXCEPT ![t] = "return"]
  /\ UNCHANGED <<log, torn, cache, lock, locals, handed, calls, faults>>

Return(t) ==
  /\ pc[t] = "return"
  /\ handed' = IF HasPrefix(call[t])
               THEN [handed EXCEPT ![call[t].prefix] = Append(@, ent[t])]
               ELSE handed
  /\ Leave(t)
  /\ UNCHANGED <<disk, cache, calls, faults>>

(* The write of the line, or of project.json, raises OSError: nothing       *)
(* reached that file.                                                       *)
IOError(t) ==
  /\ "io" \in Faults /\ faults < MaxFaults
  /\ pc[t] \in {"write", "save"}
  /\ faults' = faults + 1
  /\ Leave(t)
  /\ UNCHANGED <<disk, cache, handed, calls>>

(* The process dies and another one opens the project. A line being written *)
(* may be left half on disk.                                                *)
Crash ==
  /\ "crash" \in Faults /\ faults < MaxFaults
  /\ faults' = faults + 1
  /\ torn' \in IF "torn" \in Faults /\ \E t \in Threads : pc[t] = "write"
               THEN BOOLEAN ELSE {torn}
  /\ torn => torn'
  /\ cache' = Cold /\ lock' = None
  /\ pc' = [t \in Threads |-> "idle"]
  /\ call' = [t \in Threads |-> NoCall]
  /\ snap' = [t \in Threads |-> EmptyMeta]
  /\ ent' = [t \in Threads |-> 0]
  /\ evt' = [t \in Threads |-> 0]
  /\ UNCHANGED <<log, meta, handed, calls>>

Step(t) ==
  \/ Acquire(t) \/ Replay(t) \/ TakeId(t) \/ SetField(t)
  \/ NextEventId(t) \/ Reject(t) \/ Unreadable(t)
  \/ WriteLine(t) \/ SaveMeta(t) \/ Return(t)

Next == (\E t \in Threads : Start(t) \/ Step(t) \/ IOError(t)) \/ Crash

Spec == Init /\ [][Next]_vars

(* A thread inside a call is scheduled again and again.                     *)
FairSpec == Spec /\ \A t \in Threads : WF_vars(Step(t))
-----------------------------------------------------------------------------
(* Types of the variables of store.py's state.                              *)
TypeOK ==
  /\ log \in Seq(Event) /\ torn \in BOOLEAN /\ meta \in Meta
  /\ cache \in {Cold} \cup Nat
  /\ lock \in Threads \cup {None}
  /\ pc \in [Threads -> {"idle", "acquire", "check", "number", "write",
                         "save", "return"}]
  /\ call \in [Threads -> Calls \cup {NoCall}]
  /\ snap \in [Threads -> Meta]
  /\ ent \in [Threads -> Nat] /\ evt \in [Threads -> Nat]
  /\ handed \in [Prefixes -> Seq(Nat)]
  /\ calls \in 0..MaxCalls /\ faults \in 0..MaxFaults

(* Event ids grow along the log, whatever thread wrote them, and across     *)
(* restarts: the cache and the last line never disagree downwards.          *)
EventIdsIncrease ==
  \A i, j \in DOMAIN log : i < j => log[i].num < log[j].num

(* "an id can never be handed out twice": the ids that calls return, for    *)
(* one prefix, grow, through crashes and failed writes.                     *)
HandedOnce ==
  \A p \in Prefixes : \A i, j \in DOMAIN handed[p] :
    i < j => handed[p][i] < handed[p][j]

WithKey(k) == {i \in DOMAIN log : log[i].key = k}
WithId(p, n) == {i \in DOMAIN log : log[i].prefix = p /\ log[i].n = n}

(* A key is written once and an entity id is created once, except that each *)
(* crash or failed write may make one write happen again; so with no fault, *)
(* exactly once, in every interleaving of the threads.                      *)
DuplicatesBoundedByFaults ==
  /\ \A k \in Keys : Cardinality(WithKey(k)) <= 1 + faults
  /\ \A i \in DOMAIN log : log[i].prefix # None =>
       Cardinality(WithId(log[i].prefix, log[i].n)) <= 1 + faults

(* The counters on disk are behind the ids in the log by at most one,       *)
(* however many crashes separated an event from its counter.                *)
CounterLag ==
  \A i \in DOMAIN log : log[i].prefix # None =>
    log[i].n <= meta.ctr[log[i].prefix] + 1

(* What a caller is told exists: an entity id returned by a create, and the *)
(* result recorded for a key, each belong to an event of the log.           *)
RepliesAreLogged ==
  /\ \A p \in EntityPrefixes : \A j \in DOMAIN handed[p] :
       WithId(p, handed[p][j]) # {}
  /\ \A k \in Keys : meta.idem[k] # NotRecorded =>
       \E i \in WithKey(k) :
         log[i].num = meta.idem[k].evt /\ log[i].n = meta.idem[k].n

(* No call undoes another's update of project.json: counters never go back, *)
(* a recorded key is never forgotten or changed, and only a setter changes  *)
(* the other fields.                                                        *)
MetaGrows ==
  /\ \A p \in Prefixes : meta'.ctr[p] >= meta.ctr[p]
  /\ \A k \in Keys : meta.idem[k] # NotRecorded => meta'.idem[k] = meta.idem[k]
  /\ meta'.field # meta.field =>
       \E t \in Threads : pc[t] = "save" /\ call[t].op = "field"
MetaMonotone == [][MetaGrows]_vars

(* Every call ends, by return or by exception: no error path keeps the      *)
(* lock.                                                                    *)
CallsEnd == \A t \in Threads : pc[t] # "idle" ~> pc[t] = "idle"

-----------------------------------------------------------------------------
(* The strengthening that makes the store's invariants inductive. The lock  *)
(* belongs to the thread inside the block; a warm cache is never below a    *)
(* number of the log, and a number about to be written is above them all.   *)
InBlock == {"check", "number", "write", "save", "return"}

LockInv == \A t \in Threads : lock = t <=> pc[t] \in InBlock

CallInv == \A t \in Threads :
  /\ pc[t] = "idle" <=> call[t] = NoCall
  /\ pc[t] \in {"number", "write"} => call[t].op = "append"

NumberInv ==
  /\ cache # Cold => \A i \in DOMAIN log : log[i].num <= cache
  /\ \A t \in Threads : pc[t] = "write" =>
       /\ cache # Cold /\ evt[t] = cache /\ evt[t] > 0
       /\ \A i \in DOMAIN log : log[i].num < evt[t]

(* The copy of project.json a thread works on is the file, except for the   *)
(* one counter, key or field that the call sets.                            *)
Owns(t, p) == HasPrefix(call[t]) /\ call[t].prefix = p

SnapInv == \A t \in Threads :
  /\ pc[t] = "check" => snap[t] = meta
  /\ pc[t] \in {"number", "write", "save"} => \A p \in Prefixes :
       /\ Owns(t, p) => snap[t].ctr[p] = meta.ctr[p] + 1 /\ ent[t] = meta.ctr[p] + 1
       /\ ~Owns(t, p) => snap[t].ctr[p] = meta.ctr[p]
  /\ pc[t] \in {"number", "write"} =>
       snap[t].idem = meta.idem /\ snap[t].field = meta.field /\ ~Replays(t)
  /\ pc[t] = "save" =>
       /\ \A k \in Keys : meta.idem[k] # NotRecorded => snap[t].idem[k] = meta.idem[k]
       /\ call[t].op # "field" => snap[t].field = meta.field

(* Ids returned so far are counted on disk, and are below one about to be   *)
(* returned.                                                                *)
HandedInv == \A p \in Prefixes : \A j \in DOMAIN handed[p] :
  /\ handed[p][j] <= meta.ctr[p]
  /\ \A t \in Threads : pc[t] = "return" /\ Owns(t, p) => handed[p][j] < ent[t]

ReturnInv == \A t \in Threads : \A p \in Prefixes :
  pc[t] = "return" /\ Owns(t, p) => ent[t] = meta.ctr[p]

StoreInv ==
  /\ TypeOK /\ LockInv /\ CallInv /\ NumberInv /\ SnapInv /\ HandedInv /\ ReturnInv
  /\ EventIdsIncrease /\ HandedOnce /\ CounterLag

(* A thread that is about to save project.json after its event: the event   *)
(* is the last line, its key is not on disk yet, and what is about to be    *)
(* saved is the file with this one change. What any other call saves has    *)
(* the keys of the file.                                                    *)
Unsaved(t) == pc[t] = "save" /\ call[t].op = "append"

SaveOk(t) ==
  /\ pc[t] \in {"idle", "acquire", "check"} => ent[t] = 0
  /\ pc[t] \in {"number", "write", "save"} /\ ~HasPrefix(call[t]) => ent[t] = 0
  /\ Unsaved(t) =>
       /\ log # <<>> /\ log[Len(log)] = NewEvent(t)
       /\ HasKey(call[t]) =>
            /\ meta.idem[call[t].key] = NotRecorded
            /\ snap[t].idem = [meta.idem EXCEPT ![call[t].key] =
                                 [evt |-> evt[t], n |-> ent[t]]]
            /\ evt[t] > 0
       /\ ~HasKey(call[t]) => snap[t].idem = meta.idem
  /\ pc[t] = "save" /\ call[t].op # "append" => snap[t].idem = meta.idem
  /\ pc[t] = "save" /\ call[t].op = "field" => snap[t].field = call[t].value
SaveInv == \A t \in Threads : SaveOk(t)

(* A create about to return has its event in the log.                       *)
LoggedInv ==
  /\ RepliesAreLogged
  /\ \A t \in Threads : \A p \in EntityPrefixes :
       pc[t] = "return" /\ Owns(t, p) => WithId(p, ent[t]) # {}

(* One line for a key that is on disk or about to be saved, none for        *)
(* another, and as many more as there were faults; the same for the ids     *)
(* that are counted or about to be.                                         *)
OnceInv ==
  /\ \A k \in Keys : Cardinality(WithKey(k)) <= faults +
       IF \/ meta.idem[k] # NotRecorded
          \/ \E t \in Threads : Unsaved(t) /\ call[t].key = k THEN 1 ELSE 0
  /\ \A p \in EntityPrefixes, n \in Nat : Cardinality(WithId(p, n)) <= faults +
       IF \/ n <= meta.ctr[p]
          \/ \E t \in Threads : Unsaved(t) /\ Owns(t, p) /\ ent[t] = n THEN 1 ELSE 0

LedgerInv == StoreInv /\ SaveInv /\ LoggedInv /\ OnceInv

-----------------------------------------------------------------------------
(* Refinement: an event whose counter or key is still to be saved is not    *)
(* there yet for the other callers, who need the lock to look.              *)
SomeUnsaved == \E t \in Threads : Unsaved(t)
Settled == IF SomeUnsaved THEN SubSeq(log, 1, Len(log) - 1) ELSE log
EntryOf(e) == [prefix |-> e.prefix, n |-> e.n, key |-> e.key]
EntriesOf(l) == [i \in DOMAIN l |-> EntryOf(l[i])]
UsedKeys == {k \in Keys : meta.idem[k] # NotRecorded}

Ledger == INSTANCE AtomicLedger WITH
  entries <- EntriesOf(Settled), ctr <- meta.ctr, used <- UsedKeys,
  field <- meta.field, failures <- faults

(* The store is the atomic object its docstring describes, with any number  *)
(* of threads: what callers see of the log, the counters, the keys and the  *)
(* fields changes as one, each failure loses the bookkeeping of one event   *)
(* at most, and nothing but a failure does.                                 *)
IsAtomic == Ledger!AtomicSpec

=============================================================================
