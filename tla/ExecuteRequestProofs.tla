------------------------ MODULE ExecuteRequestProofs ------------------------
(***************************************************************************)
(* Theorems about ExecuteRequest, for every number of threads, requests,   *)
(* restarts and I/O errors.                                                *)
(***************************************************************************)
EXTENDS ExecuteRequest, StorageManagerProofs

(***************************************************************************)
(* What a thread holds at each of its steps.  An invariant that types each *)
(* local variable is not inductive without it: Store writes entry[t], and  *)
(* only the position in the code says that it is an entry by then.         *)
(***************************************************************************)
ThreadSound(t) ==
  /\ pc[t] = "idle" => request[t] = None
  /\ pc[t] # "idle" => request[t] # None /\ ~Refused(request[t])
  /\ pc[t] \in {"prepare", "nextId"} => request[t].op = "CREATE"
  /\ pc[t] = "lookup" => request[t].op # "CREATE"
  /\ pc[t] = "fetch" => request[t].op \in {"READ", "UPDATE"}
  /\ pc[t] = "stamp" => request[t].op = "UPDATE"
  /\ pc[t] = "store" => request[t].op \in {"CREATE", "UPDATE"}
  /\ pc[t] = "erase" => request[t].op = "DELETE"
  /\ pc[t] \in {"nextId", "stamp", "store"} => entry[t] # None
  /\ (cursor[t] # None) <=> (pc[t] \in {"fetch", "erase"})
  /\ cursor[t] # None => cursor[t].index_key = EncodeIndexKey(Target(request[t]))

RequestInv ==
  /\ TypeOK
  /\ StorageInv
  /\ \A t \in Threads : ThreadSound(t)

-----------------------------------------------------------------------------
(* What a request that is not refused carries. *)
LEMMA RequestFields ==
  ASSUME NEW r \in Requests, ~Refused(r)
  PROVE  /\ r.op \in {"CREATE", "READ", "UPDATE", "DELETE"}
         /\ r.op = "CREATE" => r.entry \in ClientEntry(CreateIds)
         /\ r.op = "UPDATE" => r.entry \in ClientEntry(KeyIds)
         /\ r.op # "CREATE" => Target(r) \in Ids
<1>1. \/ r \in [op : {"CREATE"}, id : {0}, entry : ClientEntry(CreateIds) \cup {None}]
      \/ r \in [op : {"UPDATE"}, id : {0}, entry : ClientEntry(KeyIds) \cup {None}]
      \/ r \in [op : {"READ", "DELETE"}, id : KeyIds, entry : {None}]
      \/ r \in [op : {"UNKNOWN"}, id : {0}, entry : {None}]
  BY DEF Requests
<1> QED BY <1>1, RequestAssumption DEF Refused, Target, ClientEntry

(* The entry of an id, now and after a step. *)
LEMMA LiveType ==
  ASSUME NEW id \in Ids
  PROVE  /\ index \in Index /\ data \in Data => Live(id) \in Entry \cup {None}
         /\ index' \in Index /\ data' \in Data => Live(id)' \in Entry \cup {None}
BY IndexKeyBijection, StorageAssumption DEF Live, Index, Data

(* An entry built from a client's payload and two readings of the clock. *)
LEMMA StampedEntry ==
  ASSUME NEW id \in Ids, NEW v \in Values, NEW c \in Timestamps, NEW m \in Times
  PROVE  /\ [id |-> id, value |-> v, created |-> c, updated |-> Timestamp(m)] \in Entry
         /\ Timestamp(m) \in Timestamps
BY DEF Entry, Timestamps

-----------------------------------------------------------------------------
(* A step of a thread uses the storage by one of its operations, or not at all. *)
LEMMA ThreadUsesStorage ==
  ASSUME RequestInv, NEW t \in Threads, ThreadStep(t)
  PROVE  [StorageNext]_storageVars
<1> USE DEF storageVars
<1>0. /\ request[t] \in Requests \cup {None}
      /\ entry[t] \in Entry \cup {None}
      /\ ThreadSound(t)
  BY DEF RequestInv, TypeOK
<1>1. ASSUME NEW r \in Requests, Refuse(t, r) \/ Accept(t, r)
      PROVE  UNCHANGED storageVars
  BY <1>1 DEF Refuse, Accept
<1>2. CASE PrepareEntry(t) \/ Miss(t) \/ Stamp(t)
  BY <1>2 DEF PrepareEntry, Miss, Stamp
<1>3. CASE AssignId(t)
  BY <1>3 DEF AssignId, StorageNext
<1>4. CASE Store(t)
  <2>1. entry[t] \in Entry
    BY <1>0, <1>4 DEF Store, ThreadSound
  <2> QED BY <1>4, <2>1 DEF Store, StorageNext
<1>5. CASE Lookup(t)
  <2>1. Target(request[t]) \in Ids
    BY <1>0, <1>5, RequestFields DEF Lookup, ThreadSound
  <2> QED BY <1>5, <2>1 DEF Lookup, StorageNext
<1>6. CASE FetchMiss(t) \/ FetchRead(t) \/ FetchOld(t)
  BY <1>6 DEF FetchMiss, FetchRead, FetchOld, StorageNext
<1>7. CASE Erase(t)
  BY <1>7 DEF Erase, StorageNext
<1>8. CASE IoError(t)
  <2>1. CASE cursor[t] = None
    <3>1. cursor' = cursor
      BY <1>8, <2>1 DEF IoError, RequestInv, TypeOK, StorageTypeOK
    <3> QED BY <1>8, <3>1 DEF IoError
  <2>2. CASE cursor[t] # None
    BY <1>8, <2>2 DEF IoError, FetchRow, StorageNext
  <2> QED BY <2>1, <2>2
<1> QED BY <1>1, <1>2, <1>3, <1>4, <1>5, <1>6, <1>7, <1>8 DEF ThreadStep, Proceed

LEMMA StepUsesStorage ==
  ASSUME RequestInv, [Next]_vars
  PROVE  [StorageNext]_storageVars
<1>1. CASE \E t \in Threads : ThreadStep(t)
  BY <1>1, ThreadUsesStorage
<1>2. CASE Tick
  BY <1>2 DEF Tick
<1>3. CASE ProcessRestart \/ MachineRestart \/ Sync
  BY <1>3 DEF ProcessRestart, MachineRestart, Sync, StorageNext
<1>4. CASE UNCHANGED vars
  BY <1>4 DEF vars
<1> QED BY <1>1, <1>2, <1>3, <1>4 DEF Next

-----------------------------------------------------------------------------
(* A step of t leaves the other threads where they were. *)
OthersKept(t) ==
  \A u \in Threads \ {t} : /\ pc'[u] = pc[u]
                           /\ request'[u] = request[u]
                           /\ entry'[u] = entry[u]
                           /\ cursor'[u] = cursor[u]

LocalVarsType ==
  /\ pc' \in [Threads -> Steps]
  /\ request' \in [Threads -> Requests \cup {None}]
  /\ entry' \in [Threads -> Entry \cup {None}]
  /\ response' \in [Threads -> Responses \cup {None}]

(* How a thread ends a call, and how it goes on. *)
LEMMA ReplyStep ==
  ASSUME TypeOK, NEW t \in Threads, NEW status, NEW e,
         Reply(t, status, e), [status |-> status, entry |-> e] \in Responses
  PROVE  /\ LocalVarsType
         /\ pc'[t] = "idle" /\ request'[t] = None
         /\ \A u \in Threads \ {t} : /\ pc'[u] = pc[u] /\ request'[u] = request[u]
                                     /\ entry'[u] = entry[u]
BY DEF TypeOK, Reply, LocalVarsType, Steps

LEMMA GotoStep ==
  ASSUME TypeOK, NEW t \in Threads, NEW step \in Steps, Goto(t, step)
  PROVE  /\ pc' \in [Threads -> Steps] /\ pc'[t] = step
         /\ request' = request /\ response' = response
         /\ \A u \in Threads \ {t} : pc'[u] = pc[u]
BY DEF TypeOK, Goto

(* What one thread does to its own variables decides ThreadSound for all. *)
LEMMA ThreadSoundLocal ==
  ASSUME NEW t \in Threads, OthersKept(t), ThreadSound(t)',
         \A u \in Threads : ThreadSound(u)
  PROVE  \A u \in Threads : ThreadSound(u)'
BY DEF OthersKept, ThreadSound

(* The history only ever holds what ids have held. *)
LEMMA SeenType ==
  ASSUME TypeOK, \A u \in Threads : ThreadSound(u), NEW t \in Threads,
         \/ Forget(t)
         \/ Observe(t) /\ index' \in Index /\ data' \in Data /\ OthersKept(t)
  PROVE  seen' \in [Threads -> SUBSET (Entry \cup {None})]
<1>1. CASE Forget(t)
  BY <1>1 DEF Forget, TypeOK
<1>2. CASE Observe(t) /\ index' \in Index /\ data' \in Data /\ OthersKept(t)
  <2>1. ASSUME NEW u \in Threads, u # t, pc[u] # "idle", request[u].op # "CREATE"
        PROVE  Live(Target(request[u]))' \in Entry \cup {None}
    <3>1. Target(request[u]) \in Ids
      BY <2>1, RequestFields DEF TypeOK, ThreadSound
    <3>2. Target(request[u])' = Target(request[u])
      BY <1>2, <2>1 DEF OthersKept, Target
    <3> QED BY <3>1, <3>2, <1>2, LiveType
  <2>2. ASSUME NEW u \in Threads
        PROVE  seen'[u] \in SUBSET (Entry \cup {None})
    <3>1. CASE u = t
      BY <1>2, <3>1 DEF Observe
    <3>2. CASE u # t /\ pc[u] # "idle" /\ request[u].op # "CREATE"
      <4>1. seen'[u] = seen[u] \cup {Live(Target(request[u]))'}
        BY <1>2, <3>2 DEF Observe
      <4> QED BY <4>1, <2>1, <3>2 DEF TypeOK
    <3>3. CASE u # t /\ ~(pc[u] # "idle" /\ request[u].op # "CREATE")
      <4>1. seen'[u] = seen[u]
        BY <1>2, <3>3 DEF Observe
      <4> QED BY <4>1 DEF TypeOK
    <3> QED BY <3>1, <3>2, <3>3
  <2>3. seen' = [u \in Threads |-> seen'[u]]
    BY <1>2 DEF Observe
  <2> QED BY <2>2, <2>3
<1> QED BY <1>1, <1>2

-----------------------------------------------------------------------------
(***************************************************************************)
(* Each action preserves the invariant.  StorageInv' is known by then: it  *)
(* follows from ThreadUsesStorage and StorageStepInv.                      *)
(***************************************************************************)
LEMMA CallPreserves ==
  ASSUME RequestInv, StorageInv', NEW t \in Threads, NEW r \in Requests,
         Refuse(t, r) \/ Accept(t, r)
  PROVE  RequestInv'
<1>0. TypeOK /\ \A u \in Threads : ThreadSound(u)
  BY DEF RequestInv
<1>1. CASE Refuse(t, r)
  <2>1. Reply(t, "INVALID_ARGUMENT", None)
    BY <1>1 DEF Refuse
  <2>2. [status |-> "INVALID_ARGUMENT", entry |-> None] \in Responses
    BY DEF Responses
  <2>3. /\ LocalVarsType /\ pc'[t] = "idle" /\ request'[t] = None
        /\ \A u \in Threads \ {t} : /\ pc'[u] = pc[u] /\ request'[u] = request[u]
                                    /\ entry'[u] = entry[u]
    BY <1>0, <2>1, <2>2, ReplyStep
  <2>4. cursor' = cursor /\ pc[t] = "idle"
    BY <1>1 DEF Refuse, storageVars
  <2>5. \A u \in Threads : ThreadSound(u)'
    <3>1. ThreadSound(t)'
      BY <1>0, <2>3, <2>4 DEF ThreadSound
    <3>2. OthersKept(t)
      BY <2>3, <2>4 DEF OthersKept
    <3> QED BY <1>0, <3>1, <3>2, ThreadSoundLocal
  <2>6. TypeOK'
    <3>1. calls' \in 0 .. MaxCalls
      BY <1>0, <1>1, RequestAssumption DEF Refuse, TypeOK
    <3> QED BY <1>0, <1>1, <2>3, <3>1 DEF Refuse, TypeOK, LocalVarsType, StorageInv
  <2> QED BY <2>5, <2>6 DEF RequestInv
<1>2. CASE Accept(t, r)
  <2>1. /\ pc'[t] = IF r.op = "CREATE" THEN "prepare" ELSE "lookup"
        /\ request'[t] = r /\ pc[t] = "idle" /\ ~Refused(r)
        /\ cursor' = cursor /\ entry' = entry
        /\ \A u \in Threads \ {t} : pc'[u] = pc[u] /\ request'[u] = request[u]
    BY <1>0, <1>2 DEF Accept, TypeOK, storageVars
  <2>2. r # None
    BY RequestAssumption
  <2>3. \A u \in Threads : ThreadSound(u)'
    <3>1. ThreadSound(t)'
      <4>1. Refused(r)' = Refused(r)
        BY DEF Refused
      <4> QED BY <1>0, <2>1, <2>2, <4>1 DEF ThreadSound, Refused
    <3>2. OthersKept(t)
      BY <2>1 DEF OthersKept
    <3> QED BY <1>0, <3>1, <3>2, ThreadSoundLocal
  <2>4. TypeOK'
    <3>1. calls' \in 0 .. MaxCalls
      BY <1>0, <1>2, RequestAssumption DEF Accept, TypeOK
    <3>2. /\ pc' \in [Threads -> Steps]
          /\ request' \in [Threads -> Requests \cup {None}]
          /\ response' \in [Threads -> Responses \cup {None}]
      BY <1>0, <1>2 DEF Accept, TypeOK, Steps
    <3>3. seen' \in [Threads -> SUBSET (Entry \cup {None})]
      <4>1. r.op # "CREATE" => Live(Target(r)) \in Entry \cup {None}
        BY <1>0, <2>1, RequestFields, LiveType DEF TypeOK, StorageTypeOK
      <4> QED BY <1>0, <1>2, <4>1 DEF Accept, TypeOK
    <3> QED BY <1>0, <1>2, <3>1, <3>2, <3>3 DEF Accept, TypeOK, StorageInv
  <2> QED BY <2>3, <2>4 DEF RequestInv
<1> QED BY <1>1, <1>2

(* The steps that only move a thread on and fill its entry. *)
LEMMA LocalPreserves ==
  ASSUME RequestInv, StorageInv', NEW t \in Threads,
         PrepareEntry(t) \/ AssignId(t) \/ Stamp(t)
  PROVE  RequestInv'
<1>0. /\ TypeOK /\ \A u \in Threads : ThreadSound(u)
      /\ request[t] \in Requests /\ ~Refused(request[t])
  BY DEF RequestInv, TypeOK, ThreadSound, PrepareEntry, AssignId, Stamp
<1>1. /\ pc' \in [Threads -> Steps] /\ pc'[t] \in {"nextId", "store"}
      /\ request' = request /\ response' = response
      /\ \A u \in Threads \ {t} : pc'[u] = pc[u]
  BY <1>0, GotoStep DEF PrepareEntry, AssignId, Stamp, Steps
<1>2. /\ cursor' = cursor /\ clock' = clock /\ seen' = seen
      /\ calls' = calls /\ restarts' = restarts /\ faults' = faults
  BY DEF PrepareEntry, AssignId, Stamp, GetNextId, storageVars, bounds
<1>3. entry' \in [Threads -> Entry \cup {None}] /\ entry'[t] \in Entry
  <2>1. CASE PrepareEntry(t)
    <3>1. request[t].entry \in ClientEntry(CreateIds)
      BY <1>0, <2>1, RequestFields DEF ThreadSound, PrepareEntry
    <3>2. request[t].entry.id \in Ids /\ request[t].entry.value \in Values
      BY <3>1, RequestAssumption DEF ClientEntry
    <3> DEFINE new == [id |-> request[t].entry.id, value |-> request[t].entry.value,
                       created |-> Timestamp(clock), updated |-> Timestamp(clock)]
    <3>3. new \in Entry
      <4>1. clock \in Times /\ Timestamp(clock) \in Timestamps
        BY <1>0 DEF TypeOK, Timestamps
      <4> QED BY <3>2, <4>1, StampedEntry
    <3>4. entry' = [entry EXCEPT ![t] = new]
      BY <2>1 DEF PrepareEntry
    <3> QED BY <1>0, <3>3, <3>4 DEF TypeOK
  <2>2. CASE AssignId(t)
    <3>1. counter' \in Ids
      BY DEF StorageInv, StorageTypeOK
    <3>2. entry[t] \in Entry
      BY <1>0, <2>2 DEF TypeOK, ThreadSound, AssignId
    <3>3. [entry[t] EXCEPT !.id = counter'] \in Entry
      BY <3>1, <3>2 DEF Entry
    <3>4. entry' = [entry EXCEPT ![t] = [entry[t] EXCEPT !.id = counter']]
      BY <2>2 DEF AssignId
    <3> QED BY <1>0, <3>3, <3>4 DEF TypeOK
  <2>3. CASE Stamp(t)
    <3>1. request[t].entry \in ClientEntry(KeyIds)
      BY <1>0, <2>3, RequestFields DEF ThreadSound, Stamp
    <3>2. request[t].entry.id \in Ids /\ request[t].entry.value \in Values
      BY <3>1, RequestAssumption DEF ClientEntry
    <3>3. entry[t].created \in Timestamps
      BY <1>0, <2>3 DEF TypeOK, ThreadSound, Stamp, Entry
    <3> QED BY <1>0, <2>3, <3>2, <3>3, StampedEntry DEF Stamp, TypeOK
  <2> QED BY <2>1, <2>2, <2>3
<1>4. \A u \in Threads : ThreadSound(u)'
  <2>1. OthersKept(t)
    BY <1>0, <1>1, <1>2 DEF OthersKept, PrepareEntry, AssignId, Stamp, TypeOK
  <2>2. ThreadSound(t)'
    <3>1. pc[t] \in {"prepare", "nextId", "stamp"}
      BY DEF PrepareEntry, AssignId, Stamp
    <3>2. pc'[t] = "nextId" => request[t].op = "CREATE"
      BY <1>0, <1>1 DEF PrepareEntry, AssignId, Stamp, Goto, ThreadSound, TypeOK
    <3>3. entry'[t] # None
      BY <1>3, StorageAssumption
    <3>4. request[t].op \in {"CREATE", "UPDATE"} /\ cursor[t] = None /\ request[t] # None
      BY <1>0, <3>1 DEF ThreadSound
    <3>5. Refused(request[t])' = Refused(request[t])
      BY <1>1 DEF Refused
    <3> QED BY <1>0, <1>1, <1>2, <3>2, <3>3, <3>4, <3>5 DEF ThreadSound
  <2> QED BY <1>0, <2>1, <2>2, ThreadSoundLocal
<1>5. TypeOK'
  BY <1>0, <1>1, <1>2, <1>3 DEF TypeOK, StorageInv
<1> QED BY <1>4, <1>5 DEF RequestInv

(* The steps that end a call. *)
LEMMA EndPreserves ==
  ASSUME RequestInv, StorageInv', NEW t \in Threads, NEW status, NEW e,
         Reply(t, status, e), [status |-> status, entry |-> e] \in Responses,
         Forget(t) \/ Observe(t),
         cursor'[t] = None, \A u \in Threads \ {t} : cursor'[u] = cursor[u],
         clock' = clock, calls' = calls, restarts' = restarts,
         faults' \in 0 .. MaxFaults
  PROVE  RequestInv'
<1>0. TypeOK /\ \A u \in Threads : ThreadSound(u)
  BY DEF RequestInv
<1>1. /\ LocalVarsType /\ pc'[t] = "idle" /\ request'[t] = None
      /\ \A u \in Threads \ {t} : /\ pc'[u] = pc[u] /\ request'[u] = request[u]
                                  /\ entry'[u] = entry[u]
  BY <1>0, ReplyStep
<1>2. OthersKept(t)
  BY <1>1 DEF OthersKept
<1>3. \A u \in Threads : ThreadSound(u)'
  <2>1. ThreadSound(t)'
    BY <1>1 DEF ThreadSound
  <2> QED BY <1>0, <1>2, <2>1, ThreadSoundLocal
<1>4. seen' \in [Threads -> SUBSET (Entry \cup {None})]
  <2>1. index' \in Index /\ data' \in Data
    BY DEF StorageInv, StorageTypeOK
  <2> QED BY <1>0, <1>2, <2>1, SeenType
<1>5. TypeOK'
  BY <1>0, <1>1, <1>4 DEF TypeOK, LocalVarsType, StorageInv
<1> QED BY <1>3, <1>5 DEF RequestInv

LEMMA RepliesPreserve ==
  ASSUME RequestInv, StorageInv', NEW t \in Threads,
         \/ Store(t) \/ Miss(t) \/ FetchMiss(t) \/ FetchRead(t) \/ Erase(t)
         \/ IoError(t)
  PROVE  RequestInv'
<1>0. /\ TypeOK /\ ThreadSound(t) /\ faults \in 0 .. MaxFaults
      /\ cursor \in [Threads -> Cursor \cup {None}]
  BY DEF RequestInv, TypeOK, StorageTypeOK
<1>1. /\ \A status \in {"NOT_FOUND", "INTERNAL_ERROR"} :
           [status |-> status, entry |-> None] \in Responses
      /\ \A e \in Entry \cup {None} : [status |-> "OK", entry |-> e] \in Responses
  BY DEF Responses
<1>2. CASE Store(t)
  <2>1. entry[t] \in Entry \cup {None} /\ cursor[t] = None
    BY <1>0, <1>2 DEF TypeOK, ThreadSound, Store
  <2> QED BY <1>0, <1>1, <1>2, <2>1, EndPreserves DEF Store, StoreEntry, bounds
<1>3. CASE Miss(t)
  <2>1. cursor[t] = None
    BY <1>0, <1>3 DEF ThreadSound, Miss
  <2> QED BY <1>0, <1>1, <1>3, <2>1, EndPreserves DEF Miss, storageVars, bounds
<1>4. CASE FetchMiss(t)
  BY <1>0, <1>1, <1>4, EndPreserves DEF FetchMiss, FetchRow, bounds
<1>5. CASE FetchRead(t)
  <2>1. FoundRow(t) \in Entry \cup {None}
    BY <1>0, <1>5 DEF FetchRead, FetchRow, FoundRow, TypeOK, StorageTypeOK, Cursor, Data
  <2> QED BY <1>0, <1>1, <1>5, <2>1, EndPreserves DEF FetchRead, FetchRow, bounds
<1>6. CASE Erase(t)
  BY <1>0, <1>1, <1>6, EndPreserves DEF Erase, DeleteRows, bounds
<1>7. CASE IoError(t)
  <2> DEFINE status == IF pc[t] = "store" THEN "INTERNAL_ERROR" ELSE "NOT_FOUND"
  <2>1. faults' \in 0 .. MaxFaults
    BY <1>0, <1>7, RequestAssumption DEF IoError
  <2>2. Reply(t, status, None) /\ [status |-> status, entry |-> None] \in Responses
    BY <1>1, <1>7 DEF IoError
  <2>3. /\ Forget(t) /\ cursor'[t] = None
        /\ \A u \in Threads \ {t} : cursor'[u] = cursor[u]
        /\ clock' = clock /\ calls' = calls /\ restarts' = restarts
    BY <1>0, <1>7 DEF IoError
  <2> HIDE DEF status
  <2> QED BY <2>1, <2>2, <2>3, EndPreserves
<1> QED BY <1>2, <1>3, <1>4, <1>5, <1>6, <1>7

(* The first half of the two-step calls, and the row that an UPDATE keeps. *)
LEMMA LookupPreserves ==
  ASSUME RequestInv, StorageInv', NEW t \in Threads, Lookup(t) \/ FetchOld(t)
  PROVE  RequestInv'
<1>0. /\ TypeOK /\ \A u \in Threads : ThreadSound(u)
      /\ request[t] \in Requests /\ ~Refused(request[t])
      /\ cursor \in [Threads -> Cursor \cup {None}]
  BY DEF RequestInv, TypeOK, StorageTypeOK, ThreadSound, Lookup, FetchOld
<1>1. /\ pc' \in [Threads -> Steps]
      /\ request' = request /\ response' = response
      /\ \A u \in Threads \ {t} : pc'[u] = pc[u]
  BY <1>0, GotoStep DEF Lookup, FetchOld, Steps
<1>2. /\ clock' = clock /\ seen' = seen
      /\ calls' = calls /\ restarts' = restarts /\ faults' = faults
  BY DEF Lookup, FetchOld, bounds
<1>3. /\ Refused(request[t])' = Refused(request[t])
      /\ EncodeIndexKey(Target(request[t]))' = EncodeIndexKey(Target(request[t]))
      /\ request[t] # None
  BY <1>0, <1>1, RequestAssumption DEF Refused, Target, EncodeIndexKey
<1>4. CASE Lookup(t)
  <2>1. /\ request[t].op \in {"READ", "UPDATE", "DELETE"}
        /\ pc'[t] = IF request[t].op = "DELETE" THEN "erase" ELSE "fetch"
    BY <1>0, <1>4, RequestFields DEF Lookup, Goto, ThreadSound, TypeOK
  <2>2. /\ cursor'[t] # None
        /\ cursor'[t].index_key = EncodeIndexKey(Target(request[t]))
        /\ \A u \in Threads \ {t} : cursor'[u] = cursor[u]
    <3> DEFINE found == [index_key |-> EncodeIndexKey(Target(request[t])),
                         primary_key |-> index[EncodeIndexKey(Target(request[t]))]]
    <3>1. found \in Cursor
      <4>1. Target(request[t]) \in Ids
        BY <1>0, <2>1, RequestFields
      <4> QED BY <1>0, <1>4, <4>1, IndexKeyBijection
              DEF Lookup, LookupIndex, Cursor, TypeOK, StorageTypeOK, Index
    <3>2. cursor' = [cursor EXCEPT ![t] = found]
      BY <1>4 DEF Lookup, LookupIndex
    <3> QED BY <1>0, <3>1, <3>2, StorageAssumption DEF Cursor
  <2>3. entry' = entry
    BY <1>4 DEF Lookup
  <2>4. ThreadSound(t)'
    BY <1>0, <1>1, <1>3, <2>1, <2>2 DEF ThreadSound
  <2>5. OthersKept(t)
    BY <1>1, <2>2, <2>3 DEF OthersKept
  <2>6. TypeOK'
    BY <1>0, <1>1, <1>2, <2>3 DEF TypeOK, StorageInv
  <2> QED BY <1>0, <2>4, <2>5, <2>6, ThreadSoundLocal DEF RequestInv
<1>5. CASE FetchOld(t)
  <2>1. FoundRow(t) \in Entry
    BY <1>0, <1>5 DEF FetchOld, FetchRow, FoundRow, TypeOK, StorageTypeOK, Cursor, Data
  <2>2. /\ entry' \in [Threads -> Entry \cup {None}] /\ entry'[t] # None
        /\ \A u \in Threads \ {t} : entry'[u] = entry[u]
    BY <1>0, <1>5, <2>1 DEF FetchOld, TypeOK
  <2>3. /\ cursor'[t] = None /\ \A u \in Threads \ {t} : cursor'[u] = cursor[u]
        /\ pc'[t] = "stamp" /\ request[t].op = "UPDATE"
    BY <1>0, <1>5 DEF FetchOld, FetchRow, Goto, TypeOK
  <2>4. ThreadSound(t)'
    BY <1>0, <1>1, <1>3, <2>2, <2>3 DEF ThreadSound, FetchOld
  <2>5. OthersKept(t)
    BY <1>1, <2>2, <2>3 DEF OthersKept
  <2>6. TypeOK'
    BY <1>0, <1>1, <1>2, <2>2 DEF TypeOK, StorageInv
  <2> QED BY <1>0, <2>4, <2>5, <2>6, ThreadSoundLocal DEF RequestInv
<1> QED BY <1>4, <1>5

(* Deaths, the clock and the disk. *)
LEMMA EnvironmentPreserves ==
  ASSUME RequestInv, StorageInv',
         Tick \/ ProcessRestart \/ MachineRestart \/ Sync \/ UNCHANGED vars
  PROVE  RequestInv'
<1>0. /\ TypeOK /\ \A u \in Threads : ThreadSound(u)
      /\ StorageTypeOK'
  BY DEF RequestInv, StorageInv
<1>1. CASE ProcessRestart \/ MachineRestart
  <2>1. /\ Die /\ cursor' = [t \in Threads |-> None]
    BY <1>1 DEF ProcessRestart, MachineRestart, Reopen, PowerLoss
  <2>2. TypeOK'
    <3>1. restarts' \in 0 .. MaxRestarts
      BY <1>0, <2>1, RequestAssumption DEF Die, TypeOK
    <3> QED BY <1>0, <2>1, <3>1 DEF Die, TypeOK, Steps
  <2>3. \A u \in Threads : ThreadSound(u)'
    BY <2>1 DEF Die, ThreadSound
  <2> QED BY <2>2, <2>3 DEF RequestInv
<1>2. CASE Tick \/ Sync \/ UNCHANGED vars
  <2>1. /\ UNCHANGED <<threadVars, cursor, seen, bounds>>
        /\ clock' \in Times
    BY <1>0, <1>2 DEF Tick, Sync, Flush, vars, storageVars, TypeOK
  <2>2. TypeOK'
    BY <1>0, <2>1 DEF TypeOK, threadVars, bounds
  <2>3. \A u \in Threads : ThreadSound(u)'
    BY <1>0, <2>1 DEF ThreadSound, threadVars, Refused, Target, EncodeIndexKey
  <2> QED BY <2>2, <2>3 DEF RequestInv
<1> QED BY <1>1, <1>2

LEMMA RequestInitInv == Init => RequestInv
<1> SUFFICES ASSUME Init PROVE RequestInv
  OBVIOUS
<1>1. StorageInv
  BY StorageInitInv DEF Init
<1>2. TypeOK
  BY <1>1, RequestAssumption DEF Init, TypeOK, StorageInv, Steps
<1>3. \A t \in Threads : ThreadSound(t)
  BY DEF Init, ThreadSound, StorageInit
<1> QED BY <1>1, <1>2, <1>3 DEF RequestInv

LEMMA RequestStepInv == RequestInv /\ [Next]_vars => RequestInv' /\ [StorageNext]_storageVars
<1> SUFFICES ASSUME RequestInv, [Next]_vars
             PROVE  RequestInv' /\ [StorageNext]_storageVars
  OBVIOUS
<1>1. [StorageNext]_storageVars
  BY StepUsesStorage
<1>2. StorageInv'
  BY <1>1, StorageStepInv DEF RequestInv
<1>3. ASSUME NEW t \in Threads, ThreadStep(t)
      PROVE  RequestInv'
  BY <1>2, <1>3, CallPreserves, LocalPreserves, RepliesPreserve, LookupPreserves
     DEF ThreadStep, Proceed
<1>4. CASE Tick \/ ProcessRestart \/ MachineRestart \/ Sync \/ UNCHANGED vars
  BY <1>1, <1>2, <1>4, EnvironmentPreserves
<1>5. RequestInv'
  <2>1. CASE \E t \in Threads : ThreadStep(t)
    BY <2>1, <1>3
  <2> QED BY <2>1, <1>4 DEF Next
<1> QED BY <1>1, <1>5

LEMMA RequestInvariance == Spec => []RequestInv
BY RequestInitInv, RequestStepInv, PTL DEF Spec

-----------------------------------------------------------------------------
(***************************************************************************)
(* Every local variable of every thread has its type at every step; in     *)
(* particular what a CREATE or an UPDATE stores is a complete entry.       *)
(***************************************************************************)
THEOREM TypeCorrect == Spec => []TypeOK
<1>1. RequestInv => TypeOK
  BY DEF RequestInv
<1> QED BY <1>1, RequestInvariance, PTL

(***************************************************************************)
(* The server uses the storage by StoreEntry, GetEntryById,                *)
(* DeleteEntryById, GetNextId and the constructor only, and in the order   *)
(* each needs: what holds of StorageSpec holds of the server.              *)
(***************************************************************************)
THEOREM UsesStorage == Spec => StorageSpec
<1>1. Init => StorageInit
  BY DEF Init
<1> QED BY <1>1, RequestInvariance, RequestStepInv, PTL DEF Spec, StorageSpec

(***************************************************************************)
(* No interleaving of CREATE, READ, UPDATE and DELETE of any number of     *)
(* threads, with I/O errors and restarts, makes the index lead to a        *)
(* missing row or to a row of another id.                                  *)
(***************************************************************************)
THEOREM ServerIndexSound == Spec => []IndexSound
BY UsesStorage, IndexAlwaysSound, PTL
=============================================================================
