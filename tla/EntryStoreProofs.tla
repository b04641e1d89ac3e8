-------------------------- MODULE EntryStoreProofs --------------------------
(***************************************************************************)
(* ExecuteRequest implements EntryStore, for every number of threads,      *)
(* requests, restarts, power losses and I/O errors, any clock and any ids. *)
(***************************************************************************)
EXTENDS EntryLifeProofs

(* What a reader gets for an id from an index and a table of rows. *)
LiveAt(idx, rows, id) ==
  IF idx[EncodeIndexKey(id)] = None THEN None ELSE rows[idx[EncodeIndexKey(id)]]

(* The abstract store, and the calls that it knows of. *)
Map == [id \in Ids |-> Live(id)]

Pending == [t \in Threads |-> IF pc[t] = "idle" THEN None ELSE request[t]]

(***************************************************************************)
(* What a call has read is something that its id has held since the call.  *)
(* The row under a remembered key may be out of the index by now; but      *)
(* whoever changes that row changes, in the same batch, what the id holds. *)
(***************************************************************************)
SeenSound(t) ==
  /\ pc[t] = "idle" => seen[t] = {}
  /\ pc[t] # "idle" /\ request[t].op # "CREATE" => Live(Target(request[t])) \in seen[t]
  /\ pc[t] = "fetch" => data[cursor[t].primary_key] \in seen[t]
  /\ pc[t] = "erase" => seen[t] \ {None} # {}
  /\ pc[t] = "stamp" => entry[t] \in seen[t]

(* What is about to be stored is what the request asks for. *)
EntryAsked(t) ==
  /\ pc[t] = "nextId" => request[t].entry.id = 0
  /\ pc[t] \in {"nextId", "store"} => entry[t].value = request[t].entry.value
  /\ pc[t] \in {"nextId", "store"} /\ request[t].op = "CREATE" =>
       entry[t].created = entry[t].updated
  /\ pc[t] = "store" /\ request[t].entry.id # 0 => entry[t].id = request[t].entry.id
  /\ pc[t] = "store" /\ request[t].op = "UPDATE" =>
       \E old \in seen[t] \ {None} : entry[t].created = old.created

RefinementInv ==
  /\ RequestInv
  /\ \A t \in Threads : SeenSound(t) /\ EntryAsked(t)

-----------------------------------------------------------------------------
(* The map before and after a step, without primes on an operator. *)
LEMMA MapIs ==
  /\ Map = [id \in Ids |-> LiveAt(index, data, id)]
  /\ Map' = [id \in Ids |-> LiveAt(index', data', id)]
BY DEF Map, Live, LiveAt, EncodeIndexKey

(* What a batch of StoreEntry or DeleteEntryById makes of the two column families. *)
IndexAfter(idx, k, ik) == [idx EXCEPT ![EncodeIndexKey(k[2])] = ik]

RowsAfter(rows, k, row) == [rows EXCEPT ![k] = row]

(* It changes the map at one id. *)
LEMMA LiveAfterBatch ==
  ASSUME NEW idx \in Index, NEW rows \in Data, SoundStore(idx, rows),
         NEW k \in CompositeKeys, NEW ik, NEW row,
         ik = k \/ (ik = None /\ row = None),
         NEW id \in Ids
  PROVE  LiveAt(IndexAfter(idx, k, ik), RowsAfter(rows, k, row), id)
           = IF id = k[2] THEN row ELSE LiveAt(idx, rows, id)
<1> DEFINE q == idx[EncodeIndexKey(id)]
           idx2 == IndexAfter(idx, k, ik)
           rows2 == RowsAfter(rows, k, row)
<1> USE DEF IndexAfter, RowsAfter
<1>1. /\ k # None /\ k[2] \in Ids
      /\ EncodeIndexKey(k[2]) \in IndexKeys /\ EncodeIndexKey(id) \in IndexKeys
  BY CompositeKeyId, IndexKeyBijection
<1>2. CASE id = k[2]
  <2>1. idx2[EncodeIndexKey(id)] = ik /\ rows2[k] = row
    BY <1>1, <1>2 DEF Index, Data
  <2> QED BY <1>1, <1>2, <2>1 DEF LiveAt
<1>3. CASE id # k[2]
  <2>1. idx2[EncodeIndexKey(id)] = q
    BY <1>1, <1>3, IndexKeyInjective DEF Index
  <2>2. q # None => rows2[q] = rows[q]
    <3>1. SUFFICES ASSUME q # None PROVE q # k /\ q \in CompositeKeys
      BY DEF Data
    <3>2. q \in CompositeKeys /\ rows[q] \in Entry
      BY <1>1, <3>1, StorageAssumption DEF Index, Data, SoundStore
    <3>3. rows[q].id = id /\ PrimaryKey(rows[q]) = q
      BY <1>1, <3>1, IndexKeyBijection DEF SoundStore
    <3> QED BY <1>3, <3>2, <3>3, PrimaryKeyId
  <2> HIDE DEF q, idx2, rows2
  <2>3. LiveAt(idx2, rows2, id) = IF q = None THEN None ELSE rows2[q]
    BY <2>1 DEF LiveAt
  <2>4. LiveAt(idx, rows, id) = IF q = None THEN None ELSE rows[q]
    BY DEF LiveAt, q
  <2> QED BY <1>3, <2>2, <2>3, <2>4 DEF idx2, rows2
<1> QED BY <1>2, <1>3

(* Steps that change nothing that EntryStore speaks of. *)
LEMMA QuietMaps ==
  ASSUME UNCHANGED <<index, data, durable, response, seen, faults>>, Pending' = Pending
  PROVE  UNCHANGED Abstract!vars
<1>1. [id \in Ids |-> Live(id)]' = [id \in Ids |-> Live(id)]
  BY DEF Live, EncodeIndexKey
<1>2. [id \in Ids |-> LiveOnDisk(id)]' = [id \in Ids |-> LiveOnDisk(id)]
  BY DEF LiveOnDisk, EncodeIndexKey
<1> QED BY <1>1, <1>2 DEF Abstract!vars, Pending

LEMMA AcceptMaps ==
  ASSUME RefinementInv, NEW t \in Threads, NEW r \in Requests, Accept(t, r)
  PROVE  Abstract!Call(t)
<1>1. /\ pc \in [Threads -> Steps] /\ request \in [Threads -> Requests \cup {None}]
      /\ pc[t] = "idle" /\ ~Refused(r)
  BY DEF RefinementInv, RequestInv, TypeOK, Accept
<1>2. Pending[t] = None
  BY <1>1 DEF Pending
<1>3. Pending' = [Pending EXCEPT ![t] = r]
  BY <1>1 DEF Pending, Accept
<1>4. /\ [id \in Ids |-> Live(id)]' = [id \in Ids |-> Live(id)]
      /\ [id \in Ids |-> LiveOnDisk(id)]' = [id \in Ids |-> LiveOnDisk(id)]
  BY DEF Live, LiveOnDisk, EncodeIndexKey, Accept, storageVars
<1>5. Abstract!Id(r) = Target(r)
  BY DEF Abstract!Id, Target
<1>6. r.op # "CREATE" => Map[Target(r)] = Live(Target(r))
  BY <1>1, RequestFields DEF Map
<1>7. seen' = [seen EXCEPT ![t] = IF r.op = "CREATE" THEN {} ELSE {Map[Abstract!Id(r)]}]
  BY <1>5, <1>6 DEF Accept
<1> QED BY <1>2, <1>3, <1>4, <1>7 DEF Abstract!Call, Accept, Pending, Map

(* A call that changes nothing ends. *)
LEMMA FinishMaps ==
  ASSUME RefinementInv, NEW t \in Threads, NEW status, NEW e, Reply(t, status, e),
         UNCHANGED <<index, data, durable>>, seen' = [seen EXCEPT ![t] = {}]
  PROVE  Abstract!Finish(t, status, e)
<1>1. /\ pc \in [Threads -> Steps] /\ request \in [Threads -> Requests \cup {None}]
  BY DEF RefinementInv, RequestInv, TypeOK
<1>2. Pending' = [Pending EXCEPT ![t] = None]
  BY <1>1 DEF Pending, Reply
<1>3. /\ [id \in Ids |-> Live(id)]' = [id \in Ids |-> Live(id)]
      /\ [id \in Ids |-> LiveOnDisk(id)]' = [id \in Ids |-> LiveOnDisk(id)]
  BY DEF Live, LiveOnDisk, EncodeIndexKey
<1> QED BY <1>2, <1>3 DEF Abstract!Finish, Abstract!Answer, Reply, Pending

LEMMA RefuseMaps ==
  ASSUME RefinementInv, NEW t \in Threads, NEW r \in Requests, Refuse(t, r)
  PROVE  Abstract!Refuse(t)
<1>1. pc[t] = "idle" /\ seen[t] = {} /\ seen \in [Threads -> SUBSET (Entry \cup {None})]
  BY DEF RefinementInv, RequestInv, TypeOK, SeenSound, Refuse
<1>2. seen' = [seen EXCEPT ![t] = {}]
  BY <1>1 DEF Refuse
<1>3. Abstract!Finish(t, "INVALID_ARGUMENT", None)
  BY <1>2, FinishMaps DEF Refuse, storageVars
<1> QED BY <1>1, <1>3 DEF Abstract!Refuse, Refuse

(* What the request and the history of a thread in a call are. *)
LEMMA InCall ==
  ASSUME RefinementInv, NEW t \in Threads, pc[t] # "idle"
  PROVE  /\ request[t] \in Requests /\ request[t] # None /\ ~Refused(request[t])
         /\ ThreadSound(t) /\ SeenSound(t) /\ EntryAsked(t)
         /\ Pending[t] = request[t]
         /\ request[t].op # "CREATE" =>
              Target(request[t]) \in Ids /\ Map[Target(request[t])] \in seen[t]
<1>1. /\ request[t] \in Requests /\ request[t] # None /\ ~Refused(request[t])
      /\ ThreadSound(t) /\ SeenSound(t) /\ EntryAsked(t)
  BY DEF RefinementInv, RequestInv, TypeOK, ThreadSound
<1> QED BY <1>1, RequestFields DEF Pending, SeenSound, Map

LEMMA NotFoundMaps ==
  ASSUME RefinementInv, NEW t \in Threads, Miss(t) \/ FetchMiss(t)
  PROVE  Abstract!NotFound(t)
<1>1. pc[t] \in {"lookup", "fetch"}
  BY DEF Miss, FetchMiss
<1>2. /\ request[t].op \in {"READ", "UPDATE", "DELETE"} /\ Pending[t] = request[t]
      /\ request[t] # None
  BY <1>1, InCall, RequestFields DEF ThreadSound
<1>3. None \in seen[t]
  <2>1. CASE Miss(t)
    BY <1>1, <1>2, <2>1, InCall DEF Miss, SeenSound, Live
  <2>2. CASE FetchMiss(t)
    BY <1>1, <2>2, InCall DEF FetchMiss, FoundRow, SeenSound
  <2> QED BY <2>1, <2>2
<1>4. Abstract!Finish(t, "NOT_FOUND", None)
  BY FinishMaps DEF Miss, FetchMiss, FetchRow, Forget, storageVars
<1>5. faults' = faults
  BY DEF Miss, FetchMiss, bounds
<1> QED BY <1>2, <1>3, <1>4, <1>5 DEF Abstract!NotFound, Pending

LEMMA ReadMaps ==
  ASSUME RefinementInv, NEW t \in Threads, FetchRead(t)
  PROVE  Abstract!Read(t)
<1>1. /\ request[t].op = "READ" /\ Pending[t] = request[t] /\ request[t] # None
      /\ FoundRow(t) \in seen[t] \ {None}
  BY InCall DEF FetchRead, FoundRow, SeenSound
<1>2. Abstract!Finish(t, "OK", FoundRow(t))
  BY FinishMaps DEF FetchRead, FetchRow, Forget
<1>3. faults' = faults
  BY DEF FetchRead, bounds
<1> QED BY <1>1, <1>2, <1>3 DEF Abstract!Read, Pending

(***************************************************************************)
(* An I/O error: a failed StoreEntry is told, and by then the CREATE or    *)
(* UPDATE has all it needs; any other is told as NOT_FOUND, and no CREATE  *)
(* has another.                                                            *)
(***************************************************************************)
LEMMA IoErrorMaps ==
  ASSUME RefinementInv, NEW t \in Threads, IoError(t)
  PROVE  Abstract!Fail(t)
<1>1. /\ pc[t] \in {"lookup", "fetch", "store", "erase"} /\ Pending[t] = request[t]
      /\ request[t] # None /\ ThreadSound(t) /\ EntryAsked(t)
  BY InCall DEF IoError
<1>2. UNCHANGED <<index, data, durable>> /\ seen' = [seen EXCEPT ![t] = {}]
  BY DEF IoError, Forget
<1>3. faults < MaxFaults /\ faults' = faults + 1
  BY DEF IoError
<1>4. CASE pc[t] = "store"
  <2>1. Abstract!Finish(t, "INTERNAL_ERROR", None)
    BY <1>2, <1>4, FinishMaps DEF IoError
  <2>2. \/ request[t].op = "CREATE"
        \/ request[t].op = "UPDATE" /\ seen[t] \ {None} # {}
    BY <1>1, <1>4 DEF ThreadSound, EntryAsked
  <2> QED BY <1>1, <1>3, <2>1, <2>2 DEF Abstract!Fail, Pending
<1>5. CASE pc[t] # "store"
  <2>1. Abstract!Finish(t, "NOT_FOUND", None)
    BY <1>2, <1>5, FinishMaps DEF IoError
  <2>2. request[t].op \in {"READ", "UPDATE", "DELETE"}
    BY <1>1, <1>5, InCall, RequestFields DEF ThreadSound
  <2> QED BY <1>1, <1>3, <2>1, <2>2 DEF Abstract!Fail, Pending
<1> QED BY <1>4, <1>5

(* A call that changes what one id holds ends. *)
LEMMA WriteMaps ==
  ASSUME RefinementInv, NEW t \in Threads, NEW e, Reply(t, "OK", e), Observe(t),
         durable' = durable, faults' = faults, OthersKept(t),
         NEW id \in Ids, NEW content, Map' = [Map EXCEPT ![id] = content]
  PROVE  Abstract!Write(t, id, content, e)
<1> DEFINE sees(u) == seen[u] \cup {c \in {content} : /\ Pending[u] # None
                                                      /\ Pending[u].op # "CREATE"
                                                      /\ Abstract!Id(Pending[u]) = id}
<1>1. /\ pc \in [Threads -> Steps] /\ request \in [Threads -> Requests \cup {None}]
      /\ seen \in [Threads -> SUBSET (Entry \cup {None})]
  BY DEF RefinementInv, RequestInv, TypeOK
<1>2. Pending' = [Pending EXCEPT ![t] = None]
  BY <1>1 DEF Pending, Reply
<1>3. ASSUME NEW u \in Threads \ {t}
      PROVE  seen'[u] = sees(u)
  <2>1. CASE pc[u] = "idle"
    <3>1. seen'[u] = seen[u] /\ Pending[u] = None
      BY <2>1 DEF Observe, Pending
    <3> QED BY <3>1
  <2>2. CASE pc[u] # "idle" /\ request[u].op = "CREATE"
    <3>1. seen'[u] = seen[u] /\ Pending[u] = request[u]
      BY <2>2 DEF Observe, Pending
    <3> QED BY <2>2, <3>1
  <2>3. CASE pc[u] # "idle" /\ request[u].op # "CREATE"
    <3> DEFINE j == Target(request[u])
    <3>1. /\ j \in Ids /\ Map[j] \in seen[u] /\ Pending[u] = request[u] /\ request[u] # None
          /\ Abstract!Id(Pending[u]) = j
      BY <2>3, InCall DEF Abstract!Id, Target
    <3>2. seen'[u] = seen[u] \cup {Live(j)'}
      BY <2>3 DEF Observe
    <3>3. Live(j)' = Map'[j]
      <4>1. j' = j
        BY DEF OthersKept, Target
      <4>2. Live(j)' = LiveAt(index', data', j)
        BY <4>1 DEF Live, LiveAt, EncodeIndexKey
      <4> QED BY <3>1, <4>2, MapIs
    <3>4. Map'[j] = IF j = id THEN content ELSE Map[j]
      BY <3>1 DEF Map
    <3> HIDE DEF j
    <3> QED BY <2>3, <3>1, <3>2, <3>3, <3>4
  <2> QED BY <2>1, <2>2, <2>3
<1>4. seen' = [u \in Threads |-> IF u = t THEN {} ELSE sees(u)]
  BY <1>3 DEF Observe
<1>5. [i \in Ids |-> LiveOnDisk(i)]' = [i \in Ids |-> LiveOnDisk(i)]
  BY DEF LiveOnDisk, EncodeIndexKey
<1> QED BY <1>2, <1>4, <1>5 DEF Abstract!Write, Abstract!Answer, Reply, Pending, Map

(* The two batches, and what they make of the map. *)
LEMMA StoreChangesMap ==
  ASSUME RefinementInv, NEW t \in Threads, Store(t)
  PROVE  /\ entry[t] \in Entry /\ entry[t].id \in Ids
         /\ PrimaryKey(entry[t]) \in CompositeKeys /\ PrimaryKey(entry[t])[2] = entry[t].id
         /\ Map' = [Map EXCEPT ![entry[t].id] = entry[t]]
         /\ data' = [data EXCEPT ![PrimaryKey(entry[t])] = entry[t]]
<1> DEFINE e == entry[t]
           k == PrimaryKey(e)
<1>1. /\ e \in Entry /\ e.id \in Ids /\ k[2] = e.id /\ k \in CompositeKeys /\ k # None
      /\ index \in Index /\ data \in Data /\ SoundStore(index, data)
  <2>1. RequestInv /\ ClaimTyped(t)
    BY ClaimsTyped DEF RefinementInv
  <2>2. e \in Entry /\ k # None /\ k[2] = e.id
    BY <2>1 DEF ClaimTyped, Store
  <2> QED BY <2>1, <2>2, PrimaryKeyType
          DEF RequestInv, TypeOK, StorageTypeOK, StorageInv, IndexSound, Entry
<1>2. index' = IndexAfter(index, k, k) /\ data' = RowsAfter(data, k, e)
  BY <1>1 DEF Store, StoreEntry, IndexAfter, RowsAfter
<1> HIDE DEF e, k
<1>3. \A id \in Ids : LiveAt(index', data', id) = IF id = k[2] THEN e ELSE LiveAt(index, data, id)
  BY <1>1, <1>2, LiveAfterBatch
<1>4. Map' = [Map EXCEPT ![k[2]] = e]
  BY <1>1, <1>3, MapIs
<1> QED BY <1>1, <1>2, <1>4 DEF e, k, RowsAfter

LEMMA EraseChangesMap ==
  ASSUME RefinementInv, NEW t \in Threads, Erase(t)
  PROVE  /\ Target(request[t]) \in Ids
         /\ cursor[t].primary_key \in CompositeKeys
         /\ cursor[t].primary_key[2] = Target(request[t])
         /\ Map' = [Map EXCEPT ![Target(request[t])] = None]
         /\ data' = [data EXCEPT ![cursor[t].primary_key] = None]
<1> DEFINE k == cursor[t].primary_key
<1>1. /\ k \in CompositeKeys /\ k[2] \in Ids /\ k[2] = Target(request[t])
      /\ cursor[t].index_key = EncodeIndexKey(k[2])
      /\ index \in Index /\ data \in Data /\ SoundStore(index, data)
  <2>1. RequestInv /\ ClaimTyped(t)
    BY ClaimsTyped DEF RefinementInv
  <2>2. /\ k \in CompositeKeys /\ k[2] = Target(request[t])
        /\ cursor[t].index_key = EncodeIndexKey(k[2])
    BY <2>1 DEF ClaimTyped, Erase
  <2> QED BY <2>1, <2>2, CompositeKeyId
          DEF RequestInv, TypeOK, StorageTypeOK, StorageInv, IndexSound
<1>2. index' = IndexAfter(index, k, None) /\ data' = RowsAfter(data, k, None)
  BY <1>1 DEF Erase, DeleteRows, IndexAfter, RowsAfter
<1> HIDE DEF k
<1>3. \A id \in Ids : LiveAt(index', data', id) = IF id = k[2] THEN None ELSE LiveAt(index, data, id)
  BY <1>1, <1>2, LiveAfterBatch
<1>4. Map' = [Map EXCEPT ![k[2]] = None]
  BY <1>1, <1>3, MapIs
<1> QED BY <1>1, <1>2, <1>4 DEF k, RowsAfter

LEMMA StoreMaps ==
  ASSUME RefinementInv, NEW t \in Threads, Store(t)
  PROVE  Abstract!Create(t) \/ Abstract!Update(t)
<1> DEFINE e == entry[t]
           r == request[t]
<1>1. /\ e \in Entry /\ e.id \in Ids /\ Map' = [Map EXCEPT ![e.id] = e]
  BY StoreChangesMap
<1>2. /\ r \in Requests /\ ~Refused(r) /\ Pending[t] = r /\ r # None
      /\ r.op \in {"CREATE", "UPDATE"} /\ EntryAsked(t) /\ pc[t] = "store"
  BY InCall DEF Store, ThreadSound
<1>3. OthersKept(t) /\ durable' = durable /\ faults' = faults
  BY ThreadFrame DEF RefinementInv, ThreadStep, Proceed, Store, bounds
<1>4. Abstract!Write(t, e.id, e, e)
  BY <1>1, <1>3, WriteMaps DEF Store
<1>5. CASE r.op = "CREATE"
  <2>1. /\ r.entry.id # 0 => e.id = r.entry.id
        /\ e.value = r.entry.value
        /\ e.created = e.updated
    BY <1>2, <1>5 DEF EntryAsked
  <2> HIDE DEF e, r
  <2> QED BY <1>1, <1>2, <1>4, <1>5, <2>1 DEF Abstract!Create, Pending
<1>6. CASE r.op = "UPDATE"
  <2>1. PICK old \in seen[t] \ {None} : e.created = old.created
    BY <1>2, <1>6 DEF EntryAsked
  <2>2. e.id = r.entry.id /\ e.value = r.entry.value
    BY <1>2, <1>6 DEF EntryAsked, Refused
  <2> HIDE DEF e, r
  <2> QED BY <1>1, <1>2, <1>4, <1>6, <2>1, <2>2 DEF Abstract!Update, Pending
<1> QED BY <1>2, <1>5, <1>6

LEMMA EraseMaps ==
  ASSUME RefinementInv, NEW t \in Threads, Erase(t)
  PROVE  Abstract!Delete(t)
<1>1. /\ request[t].op = "DELETE" /\ Pending[t] = request[t] /\ request[t] # None
      /\ seen[t] \ {None} # {}
  BY InCall DEF Erase, ThreadSound, SeenSound
<1>2. OthersKept(t) /\ durable' = durable /\ faults' = faults
  BY ThreadFrame DEF RefinementInv, ThreadStep, Proceed, Erase, bounds
<1>3. /\ request[t].id \in Ids /\ Map' = [Map EXCEPT ![request[t].id] = None]
  BY <1>1, EraseChangesMap DEF Target
<1>4. Abstract!Write(t, request[t].id, None, None)
  BY <1>2, <1>3, WriteMaps DEF Erase
<1> QED BY <1>1, <1>4 DEF Abstract!Delete, Pending

(* Steps inside a call. *)
LEMMA InsideMaps ==
  ASSUME RefinementInv, NEW t \in Threads,
         PrepareEntry(t) \/ AssignId(t) \/ Lookup(t) \/ FetchOld(t) \/ Stamp(t)
  PROVE  UNCHANGED Abstract!vars
<1>1. /\ pc \in [Threads -> Steps]
      /\ pc[t] # "idle"
  BY DEF RefinementInv, RequestInv, TypeOK, PrepareEntry, AssignId, Lookup, FetchOld, Stamp
<1>2. /\ pc'[t] # "idle" /\ request' = request
      /\ \A u \in Threads \ {t} : pc'[u] = pc[u]
  BY <1>1 DEF PrepareEntry, AssignId, Lookup, FetchOld, Stamp, Goto
<1>3. Pending' = Pending
  BY <1>1, <1>2 DEF Pending
<1>4. UNCHANGED <<index, data, durable, response, seen, faults>>
  BY DEF bounds, PrepareEntry, AssignId, Lookup, FetchOld, Stamp, Goto, GetNextId, LookupIndex,
         FetchRow, storageVars
<1> QED BY <1>3, <1>4, QuietMaps

(* The disk, the deaths and the clock. *)
LEMMA EnvironmentMaps ==
  ASSUME RefinementInv, Tick \/ ProcessRestart \/ MachineRestart \/ Sync \/ UNCHANGED vars
  PROVE  [Abstract!Next]_(Abstract!vars)
<1>1. CASE Tick \/ UNCHANGED vars
  <2>1. UNCHANGED <<index, data, durable, response, seen, faults>> /\ Pending' = Pending
    BY <1>1 DEF Tick, vars, storageVars, threadVars, bounds, Pending
  <2> QED BY <2>1, QuietMaps
<1>2. CASE Sync
  <2>1. UNCHANGED <<index, data, response, seen, faults, pc, request>>
    BY <1>2 DEF Sync, Flush, threadVars, bounds
  <2>2. [id \in Ids |-> LiveOnDisk(id)]' = [id \in Ids |-> Live(id)]
    BY <1>2 DEF Sync, Flush, Live, LiveOnDisk, EncodeIndexKey
  <2>3. [id \in Ids |-> Live(id)]' = [id \in Ids |-> Live(id)]
    BY <2>1 DEF Live, EncodeIndexKey
  <2>4. Abstract!Save
    BY <2>1, <2>2, <2>3 DEF Abstract!Save
  <2> QED BY <2>4 DEF Abstract!Next
<1>3. CASE ProcessRestart \/ MachineRestart
  <2>1. /\ pc' = [t \in Threads |-> "idle"] /\ response' = [t \in Threads |-> None]
        /\ seen' = [t \in Threads |-> {}] /\ durable' = durable /\ faults' = faults
    BY <1>3 DEF ProcessRestart, MachineRestart, Die, Reopen, PowerLoss
  <2>2. Pending' = [t \in Threads |-> None]
    BY <2>1 DEF Pending
  <2>3. [id \in Ids |-> LiveOnDisk(id)]' = [id \in Ids |-> LiveOnDisk(id)]
    BY <2>1 DEF LiveOnDisk, EncodeIndexKey
  <2>4. [id \in Ids |-> Live(id)]' \in {[id \in Ids |-> Live(id)], [id \in Ids |-> LiveOnDisk(id)]}
    <3>1. CASE ProcessRestart
      BY <3>1 DEF ProcessRestart, Reopen, Live, EncodeIndexKey
    <3>2. CASE MachineRestart
      BY <3>2 DEF MachineRestart, PowerLoss, Live, LiveOnDisk, EncodeIndexKey
    <3> QED BY <1>3, <3>1, <3>2
  <2>5. Abstract!Crash
    BY <2>1, <2>2, <2>3, <2>4 DEF Abstract!Crash, Pending
  <2> QED BY <2>5 DEF Abstract!Next
<1> QED BY <1>1, <1>2, <1>3

-----------------------------------------------------------------------------
(***************************************************************************)
(* Each action preserves RefinementInv.  RequestInv' is known by then.     *)
(***************************************************************************)

(* What one reader gets after a step. *)
LEMMA LiveNext ==
  ASSUME NEW t \in Threads, request'[t] = request[t], Target(request[t]) \in Ids
  PROVE  Live(Target(request[t]))' = Map'[Target(request[t])]
<1> DEFINE j == Target(request[t])
<1>1. j' = j
  BY DEF Target
<1>2. Live(j)' = LiveAt(index', data', j)
  BY <1>1 DEF Live, LiveAt, EncodeIndexKey
<1> QED BY <1>2, MapIs

(* Another thread stays sound if it has seen what the step made of its id. *)
LEMMA OtherStaysSound ==
  ASSUME RefinementInv, NEW t \in Threads, NEW u \in Threads \ {t}, OthersKept(t),
         seen[u] \subseteq seen'[u], pc[u] = "idle" => seen'[u] = seen[u],
         pc[u] # "idle" /\ request[u].op # "CREATE" => Map'[Target(request[u])] \in seen'[u],
         pc[u] = "fetch" => data'[cursor[u].primary_key] \in seen'[u]
  PROVE  SeenSound(u)' /\ EntryAsked(u)'
<1>1. /\ pc'[u] = pc[u] /\ request'[u] = request[u] /\ entry'[u] = entry[u]
      /\ cursor'[u] = cursor[u] /\ SeenSound(u) /\ EntryAsked(u)
  BY DEF OthersKept, RefinementInv
<1>2. pc[u] # "idle" /\ request[u].op # "CREATE" =>
        Live(Target(request[u]))' \in seen'[u]
  BY <1>1, InCall, LiveNext
<1>3. SeenSound(u)'
  BY <1>1, <1>2 DEF SeenSound
<1>4. EntryAsked(u)'
  <2>1. ASSUME pc[u] = "store", request[u].op = "UPDATE"
        PROVE  \E old \in seen'[u] \ {None} : entry[u].created = old.created
    BY <1>1, <2>1 DEF EntryAsked
  <2> QED BY <1>1, <2>1 DEF EntryAsked
<1> QED BY <1>3, <1>4

(* The others, after a step that leaves the store alone. *)
LEMMA QuietKeepsOthers ==
  ASSUME RefinementInv, NEW t \in Threads, OthersKept(t), UNCHANGED <<index, data>>,
         \A u \in Threads \ {t} : seen'[u] = seen[u]
  PROVE  \A u \in Threads \ {t} : SeenSound(u)' /\ EntryAsked(u)'
<1> SUFFICES ASSUME NEW u \in Threads \ {t}
             PROVE  SeenSound(u)' /\ EntryAsked(u)'
  OBVIOUS
<1>1. Map' = Map
  BY MapIs
<1>2. SeenSound(u)
  BY DEF RefinementInv
<1>3. pc[u] # "idle" /\ request[u].op # "CREATE" => Map'[Target(request[u])] \in seen'[u]
  BY <1>1, InCall
<1>4. pc[u] = "fetch" => data'[cursor[u].primary_key] \in seen'[u]
  BY <1>2 DEF SeenSound
<1> QED BY <1>3, <1>4, OtherStaysSound

(***************************************************************************)
(* The others, after a batch: a call on the written id has seen its new    *)
(* content; if it remembers the row that was written, its id is that id.   *)
(***************************************************************************)
LEMMA BatchKeepsOthers ==
  ASSUME RefinementInv, NEW t \in Threads, OthersKept(t), Observe(t),
         NEW k \in CompositeKeys, NEW row,
         Map' = [Map EXCEPT ![k[2]] = row],
         data' = [data EXCEPT ![k] = row]
  PROVE  \A u \in Threads \ {t} : SeenSound(u)' /\ EntryAsked(u)'
<1> SUFFICES ASSUME NEW u \in Threads \ {t}
             PROVE  SeenSound(u)' /\ EntryAsked(u)'
  OBVIOUS
<1>1. SeenSound(u) /\ ClaimTyped(u) /\ data \in Data
  BY ClaimsTyped DEF RefinementInv, RequestInv, TypeOK, StorageTypeOK
<1> DEFINE inCall == pc[u] # "idle" /\ request[u].op # "CREATE"
           j == Target(request[u])
<1>2. inCall => /\ j \in Ids /\ Map[j] \in seen[u]
                /\ seen'[u] = seen[u] \cup {Map'[j]}
  <2>1. inCall => seen'[u] = seen[u] \cup {Live(Target(request[u]))'}
    BY DEF Observe
  <2>2. request'[u] = request[u]
    BY DEF OthersKept
  <2> QED BY <2>1, <2>2, InCall, LiveNext
<1>3. ~inCall => seen'[u] = seen[u]
  BY DEF Observe
<1>4. pc[u] = "fetch" => data'[cursor[u].primary_key] \in seen'[u]
  <2> SUFFICES ASSUME pc[u] = "fetch"
               PROVE  data'[cursor[u].primary_key] \in seen'[u]
    OBVIOUS
  <2>1. /\ cursor[u].primary_key \in CompositeKeys /\ cursor[u].primary_key[2] = j
        /\ data[cursor[u].primary_key] \in seen[u] /\ inCall
    <3>1. inCall
      BY InCall DEF ThreadSound
    <3> QED BY <1>1, <3>1 DEF ClaimTyped, SeenSound, Cursor
  <2>2. CASE cursor[u].primary_key = k
    <3>1. data'[cursor[u].primary_key] = row /\ Map'[j] = row
      BY <1>1, <1>2, <2>1, <2>2 DEF Data, Map
    <3> QED BY <1>2, <2>1, <3>1
  <2>3. CASE cursor[u].primary_key # k
    <3>1. data'[cursor[u].primary_key] = data[cursor[u].primary_key]
      BY <1>1, <2>1, <2>3 DEF Data
    <3> QED BY <1>2, <2>1, <3>1
  <2> QED BY <2>2, <2>3
<1> QED BY <1>2, <1>3, <1>4, OtherStaysSound

(* A thread that has ended its call. *)
LEMMA EndedSound ==
  ASSUME NEW t \in Threads, pc'[t] = "idle", seen'[t] = {}
  PROVE  SeenSound(t)' /\ EntryAsked(t)'
BY DEF SeenSound, EntryAsked

LEMMA CallKeepsSeen ==
  ASSUME RefinementInv, NEW t \in Threads, NEW r \in Requests, Refuse(t, r) \/ Accept(t, r)
  PROVE  \A u \in Threads : SeenSound(u)' /\ EntryAsked(u)'
<1>0. /\ pc \in [Threads -> Steps] /\ request \in [Threads -> Requests \cup {None}]
      /\ seen \in [Threads -> SUBSET (Entry \cup {None})]
      /\ pc[t] = "idle" /\ seen[t] = {}
  BY DEF RefinementInv, RequestInv, TypeOK, SeenSound, Refuse, Accept
<1>1. OthersKept(t)
  BY ThreadFrame DEF RefinementInv, ThreadStep
<1>2. UNCHANGED <<index, data>> /\ \A u \in Threads \ {t} : seen'[u] = seen[u]
  BY <1>0 DEF Refuse, Accept, storageVars
<1>3. SeenSound(t)' /\ EntryAsked(t)'
  <2>1. CASE Refuse(t, r)
    <3>1. pc'[t] = "idle" /\ seen'[t] = {}
      BY <1>0, <2>1 DEF Refuse, Reply
    <3> QED BY <3>1, EndedSound
  <2>2. CASE Accept(t, r)
    <3>1. /\ pc'[t] \in {"prepare", "lookup"} /\ request'[t] = r
          /\ seen'[t] = IF r.op = "CREATE" THEN {} ELSE {Live(Target(r))}
      BY <1>0, <2>2 DEF Accept
    <3>2. Live(Target(request[t]))' = Live(Target(r))
      BY <1>2, <3>1 DEF Live, Target, EncodeIndexKey
    <3> QED BY <3>1, <3>2 DEF SeenSound, EntryAsked
  <2> QED BY <2>1, <2>2
<1> QED BY <1>1, <1>2, <1>3, QuietKeepsOthers

LEMMA InsideKeepsSeen ==
  ASSUME RefinementInv, RequestInv', NEW t \in Threads,
         PrepareEntry(t) \/ AssignId(t) \/ Lookup(t) \/ FetchOld(t) \/ Stamp(t)
  PROVE  \A u \in Threads : SeenSound(u)' /\ EntryAsked(u)'
<1>0. /\ pc \in [Threads -> Steps] /\ entry \in [Threads -> Entry \cup {None}]
      /\ cursor \in [Threads -> Cursor \cup {None}] /\ pc[t] # "idle"
  BY DEF RefinementInv, RequestInv, TypeOK, StorageTypeOK,
         PrepareEntry, AssignId, Lookup, FetchOld, Stamp
<1>1. /\ OthersKept(t) /\ UNCHANGED <<index, data, request, seen>>
  <2>1. OthersKept(t)
    BY ThreadFrame DEF RefinementInv, ThreadStep, Proceed
  <2> QED BY <2>1 DEF PrepareEntry, AssignId, Lookup, FetchOld, Stamp, Goto, GetNextId,
                      LookupIndex, FetchRow, storageVars
<1>2. /\ SeenSound(t) /\ EntryAsked(t) /\ ThreadSound(t)
      /\ request[t].op # "CREATE" =>
           Target(request[t]) \in Ids /\ Map[Target(request[t])] \in seen[t]
  BY <1>0, InCall
<1>3. request[t].op # "CREATE" => Live(Target(request[t]))' \in seen'[t]
  <2>1. Map' = Map
    BY <1>1, MapIs
  <2> QED BY <1>1, <1>2, <2>1, LiveNext
<1>4. SeenSound(t)' /\ EntryAsked(t)'
  <2>1. CASE PrepareEntry(t)
    <3>1. /\ pc'[t] = IF request[t].entry.id = 0 THEN "nextId" ELSE "store"
          /\ request[t].op = "CREATE"
          /\ entry'[t].id = request[t].entry.id /\ entry'[t].value = request[t].entry.value
          /\ entry'[t].created = entry'[t].updated
      BY <1>0, <1>2, <2>1 DEF PrepareEntry, Goto, ThreadSound
    <3> QED BY <1>1, <3>1 DEF SeenSound, EntryAsked
  <2>2. CASE AssignId(t)
    <3>1. entry[t] \in Entry /\ request[t].op = "CREATE" /\ pc'[t] = "store"
      BY <1>0, <1>2, <2>2 DEF AssignId, ThreadSound, Goto
    <3>2. /\ entry'[t].value = entry[t].value
          /\ entry'[t].created = entry[t].created /\ entry'[t].updated = entry[t].updated
      BY <1>0, <2>2, <3>1 DEF AssignId, Entry
    <3>3. request[t].entry.id = 0 /\ pc[t] = "nextId"
      BY <1>2, <2>2 DEF AssignId, EntryAsked
    <3> QED BY <1>1, <1>2, <3>1, <3>2, <3>3 DEF SeenSound, EntryAsked
  <2>3. CASE Lookup(t)
    <3>1. /\ request[t].op # "CREATE" /\ index[EncodeIndexKey(Target(request[t]))] # None
          /\ pc'[t] \in {"fetch", "erase"}
          /\ cursor'[t].primary_key = index[EncodeIndexKey(Target(request[t]))]
      BY <1>0, <1>2, <2>3 DEF Lookup, LookupIndex, Goto, ThreadSound
    <3>2. /\ Map[Target(request[t])] = data[cursor'[t].primary_key]
          /\ Map[Target(request[t])] # None
      <4>1. SoundStore(index, data) /\ EncodeIndexKey(Target(request[t])) \in IndexKeys
        BY <1>2, <3>1, IndexKeyBijection DEF RefinementInv, RequestInv, StorageInv, IndexSound
      <4>2. data[cursor'[t].primary_key] # None
        BY <3>1, <4>1 DEF SoundStore
      <4>3. Live(Target(request[t])) = data[cursor'[t].primary_key]
        BY <3>1 DEF Live
      <4> QED BY <1>2, <3>1, <4>2, <4>3 DEF Map
    <3> QED BY <1>1, <1>2, <1>3, <3>1, <3>2 DEF SeenSound, EntryAsked
  <2>4. CASE FetchOld(t)
    <3>1. /\ pc'[t] = "stamp" /\ entry'[t] = data[cursor[t].primary_key] /\ pc[t] = "fetch"
      BY <1>0, <2>4 DEF FetchOld, FoundRow, Goto
    <3> QED BY <1>1, <1>2, <1>3, <3>1 DEF SeenSound, EntryAsked
  <2>5. CASE Stamp(t)
    <3>1. /\ pc'[t] = "store" /\ pc[t] = "stamp" /\ request[t].op = "UPDATE"
          /\ entry'[t].id = request[t].entry.id /\ entry'[t].value = request[t].entry.value
          /\ entry'[t].created = entry[t].created
      BY <1>0, <1>2, <2>5 DEF Stamp, Goto, ThreadSound
    <3>2. entry[t] \in seen[t] \ {None}
      BY <1>2, <3>1 DEF SeenSound, ThreadSound
    <3> QED BY <1>1, <1>3, <3>1, <3>2 DEF SeenSound, EntryAsked
  <2> QED BY <2>1, <2>2, <2>3, <2>4, <2>5
<1> QED BY <1>1, <1>4, QuietKeepsOthers

LEMMA EndKeepsSeen ==
  ASSUME RefinementInv, NEW t \in Threads,
         Store(t) \/ Miss(t) \/ FetchMiss(t) \/ FetchRead(t) \/ Erase(t) \/ IoError(t)
  PROVE  \A u \in Threads : SeenSound(u)' /\ EntryAsked(u)'
<1>0. /\ pc \in [Threads -> Steps] /\ seen \in [Threads -> SUBSET (Entry \cup {None})]
  BY DEF RefinementInv, RequestInv, TypeOK
<1>1. OthersKept(t)
  BY ThreadFrame DEF RefinementInv, ThreadStep, Proceed
<1>2. pc'[t] = "idle" /\ seen'[t] = {}
  BY <1>0 DEF Store, Miss, FetchMiss, FetchRead, Erase, IoError, Reply, Forget, Observe
<1>3. CASE Miss(t) \/ FetchMiss(t) \/ FetchRead(t) \/ IoError(t)
  <2>1. UNCHANGED <<index, data>> /\ \A u \in Threads \ {t} : seen'[u] = seen[u]
    BY <1>0, <1>3 DEF Miss, FetchMiss, FetchRead, FetchRow, IoError, Forget, storageVars
  <2> QED BY <1>1, <1>2, <2>1, EndedSound, QuietKeepsOthers
<1>4. CASE Store(t)
  <2>1. Observe(t)
    BY <1>4 DEF Store
  <2> QED BY <1>1, <1>2, <1>4, <2>1, EndedSound, StoreChangesMap, BatchKeepsOthers
<1>5. CASE Erase(t)
  <2>1. Observe(t)
    BY <1>5 DEF Erase
  <2> QED BY <1>1, <1>2, <1>5, <2>1, EndedSound, EraseChangesMap, BatchKeepsOthers
<1> QED BY <1>3, <1>4, <1>5

LEMMA EnvironmentKeepsSeen ==
  ASSUME RefinementInv, Tick \/ ProcessRestart \/ MachineRestart \/ Sync \/ UNCHANGED vars
  PROVE  \A u \in Threads : SeenSound(u)' /\ EntryAsked(u)'
<1>1. CASE ProcessRestart \/ MachineRestart
  BY <1>1, EndedSound DEF ProcessRestart, MachineRestart, Die
<1>2. CASE Tick \/ Sync \/ UNCHANGED vars
  <2>1. UNCHANGED <<index, data, cursor, threadVars, seen>>
    BY <1>2 DEF Tick, Sync, Flush, vars, storageVars
  <2>2. ASSUME NEW u \in Threads
        PROVE  SeenSound(u)' /\ EntryAsked(u)'
    BY <2>1 DEF RefinementInv, SeenSound, EntryAsked, Live, Target, EncodeIndexKey, threadVars
  <2> QED BY <2>2
<1> QED BY <1>1, <1>2

LEMMA RefinementInitInv == Init => RefinementInv
BY RequestInitInv, EndedSound DEF RefinementInv, Init, SeenSound, EntryAsked

LEMMA RefinementStepInv == RefinementInv /\ [Next]_vars => RefinementInv'
<1> SUFFICES ASSUME RefinementInv, [Next]_vars
             PROVE  RefinementInv'
  OBVIOUS
<1>1. RequestInv'
  BY RequestStepInv DEF RefinementInv
<1>2. ASSUME NEW t \in Threads, ThreadStep(t)
      PROVE  \A u \in Threads : SeenSound(u)' /\ EntryAsked(u)'
  BY <1>1, <1>2, CallKeepsSeen, InsideKeepsSeen, EndKeepsSeen DEF ThreadStep, Proceed
<1>3. \A u \in Threads : SeenSound(u)' /\ EntryAsked(u)'
  <2>1. CASE \E t \in Threads : ThreadStep(t)
    BY <1>2, <2>1
  <2> QED BY <2>1, EnvironmentKeepsSeen DEF Next
<1> QED BY <1>1, <1>3 DEF RefinementInv

LEMMA RefinementInvariance == Spec => []RefinementInv
BY RefinementInitInv, RefinementStepInv, PTL DEF Spec

-----------------------------------------------------------------------------
(* Every step is one of EntryStore's, or a stutter. *)
LEMMA StepMaps ==
  ASSUME RefinementInv, [Next]_vars
  PROVE  [Abstract!Next]_(Abstract!vars)
<1>1. ASSUME NEW t \in Threads, ThreadStep(t)
      PROVE  [Abstract!Next]_(Abstract!vars)
  <2>1. ASSUME NEW r \in Requests, Refuse(t, r) \/ Accept(t, r)
        PROVE  Abstract!Next
    BY <2>1, RefuseMaps, AcceptMaps DEF Abstract!Next
  <2>2. CASE Store(t) \/ Miss(t) \/ FetchMiss(t) \/ FetchRead(t) \/ Erase(t) \/ IoError(t)
    BY <2>2, StoreMaps, NotFoundMaps, ReadMaps, EraseMaps, IoErrorMaps DEF Abstract!Next
  <2>3. CASE PrepareEntry(t) \/ AssignId(t) \/ Lookup(t) \/ FetchOld(t) \/ Stamp(t)
    BY <2>3, InsideMaps
  <2> QED BY <1>1, <2>1, <2>2, <2>3 DEF ThreadStep, Proceed
<1>2. CASE \E t \in Threads : ThreadStep(t)
  BY <1>1, <1>2
<1> QED BY <1>2, EnvironmentMaps DEF Next

(***************************************************************************)
(* Whatever the number of threads, whatever ids clients and server choose, *)
(* however often the process or the machine dies, whatever the clock does  *)
(* and whichever RocksDB calls fail: the clients of the lock-free,         *)
(* two-step calls see the map of EntryStore.                               *)
(***************************************************************************)
THEOREM ServerImplementsEntryStore == Spec => ImplementsEntryStore
<1>1. Init => Abstract!Init
  <2> SUFFICES ASSUME Init PROVE Abstract!Init
    OBVIOUS
  <2>1. Pending = [t \in Threads |-> None]
    BY DEF Init, Pending
  <2>2. /\ [id \in Ids |-> Live(id)] = [id \in Ids |-> None]
        /\ [id \in Ids |-> LiveOnDisk(id)] = [id \in Ids |-> None]
    BY IndexKeyBijection DEF Init, StorageInit, Live, LiveOnDisk
  <2> QED BY <2>1, <2>2 DEF Abstract!Init, Init, Pending
<1>2. RefinementInv /\ [Next]_vars => [Abstract!Next]_(Abstract!vars)
  BY StepMaps
<1> QED BY <1>1, <1>2, RefinementInvariance, PTL DEF Spec, ImplementsEntryStore, Abstract!Spec

-----------------------------------------------------------------------------
(* What a step of one thread lets the others see. *)
LEMMA OthersSee ==
  ASSUME RefinementInv, NEW t \in Threads, ThreadStep(t), NEW u \in Threads \ {t}
  PROVE  /\ pc'[u] = pc[u] /\ request'[u] = request[u] /\ entry'[u] = entry[u]
         /\ seen[u] \subseteq seen'[u]
<1>1. OthersKept(t) /\ seen \in [Threads -> SUBSET (Entry \cup {None})]
  BY ThreadFrame DEF RefinementInv, RequestInv, TypeOK
<1>2. CASE Observe(t)
  BY <1>1, <1>2 DEF Observe, OthersKept
<1>3. CASE \E s : seen' = [seen EXCEPT ![t] = s]
  BY <1>1, <1>3 DEF OthersKept
<1>4. CASE seen' = seen
  BY <1>1, <1>4 DEF OthersKept
<1> QED
  BY <1>2, <1>3, <1>4
     DEF ThreadStep, Proceed, Refuse, Accept, PrepareEntry, AssignId, Store, Miss, Lookup,
         FetchMiss, FetchRead, FetchOld, Stamp, Erase, IoError, Forget

(***************************************************************************)
(* An UPDATE stamped its entry after every update of the one entry that    *)
(* its id has held, if it has held only one.                               *)
(***************************************************************************)
StampFresh(t) ==
  pc[t] = "store" /\ request[t].op = "UPDATE" =>
    \A e \in seen[t] \ {None} :
      seen[t] = {e} => ToEpochMicros(e.updated) <= ToEpochMicros(entry[t].updated)

LEMMA StampIsFresh ==
  ASSUME RefinementInv, TimesInOrder, NEW t \in Threads, Stamp(t)
  PROVE  StampFresh(t)'
<1>1. /\ entry[t] \in seen[t] \ {None} /\ entry \in [Threads -> Entry \cup {None}]
      /\ clock \in Nat
  BY InCall, StorageAssumption DEF Stamp, SeenSound, ThreadSound, RefinementInv, RequestInv, TypeOK
<1>2. ToEpochMicros(entry[t].updated) <= clock
  BY <1>1 DEF TimesInOrder, InOrder
<1>3. entry'[t].updated = Timestamp(clock) /\ seen' = seen
  BY <1>1 DEF Stamp
<1>4. ToEpochMicros(entry'[t].updated) = clock
  BY <1>1, <1>3, TimestampRoundTrip
<1>5. \A e \in seen[t] \ {None} : seen[t] = {e} => e = entry[t]
  BY <1>1
<1>6. \A e \in seen[t] \ {None} :
        seen[t] = {e} => ToEpochMicros(e.updated) <= ToEpochMicros(entry'[t].updated)
  BY <1>2, <1>4, <1>5
<1> QED BY <1>3, <1>6 DEF StampFresh, ToEpochMicros

LEMMA ThreadKeepsFresh ==
  ASSUME RefinementInv, RequestInv', TimesInOrder, NEW t \in Threads, ThreadStep(t),
         \A u \in Threads : StampFresh(u)
  PROVE  \A u \in Threads : StampFresh(u)'
<1>0. pc \in [Threads -> Steps] /\ request \in [Threads -> Requests \cup {None}] /\ ThreadSound(t)
  BY DEF RefinementInv, RequestInv, TypeOK
<1>1. ASSUME NEW u \in Threads \ {t} PROVE StampFresh(u)'
  <2>1. /\ pc'[u] = pc[u] /\ request'[u] = request[u] /\ entry'[u] = entry[u]
        /\ seen[u] \subseteq seen'[u]
    BY OthersSee
  <2>2. pc[u] = "store" /\ request[u].op = "UPDATE" => seen[u] # {}
    BY InCall
  <2>3. ASSUME pc[u] = "store", request[u].op = "UPDATE",
               NEW e \in seen'[u] \ {None}, seen'[u] = {e}
        PROVE  ToEpochMicros(e.updated) <= ToEpochMicros(entry[u].updated)
    <3>1. seen[u] = {e} /\ e \in seen[u] \ {None}
      BY <2>1, <2>2, <2>3
    <3> QED BY <2>3, <3>1 DEF StampFresh
  <2> QED BY <2>1, <2>3 DEF StampFresh, ToEpochMicros
<1>2. StampFresh(t)'
  <2>1. CASE Stamp(t)
    BY <2>1, StampIsFresh
  <2>2. CASE PrepareEntry(t) \/ AssignId(t)
    <3>1. request'[t] = request[t] /\ request[t].op = "CREATE"
      BY <1>0, <2>2 DEF PrepareEntry, AssignId, Goto, ThreadSound
    <3> QED BY <3>1 DEF StampFresh
  <2>3. CASE Lookup(t) \/ FetchOld(t)
    <3>1. pc'[t] # "store"
      BY <1>0, <2>3 DEF Lookup, FetchOld, Goto
    <3> QED BY <3>1 DEF StampFresh
  <2>4. CASE Store(t) \/ Miss(t) \/ FetchMiss(t) \/ FetchRead(t) \/ Erase(t) \/ IoError(t)
    <3>1. pc'[t] # "store"
      BY <1>0, <2>4 DEF Store, Miss, FetchMiss, FetchRead, Erase, IoError, Reply
    <3> QED BY <3>1 DEF StampFresh
  <2>5. ASSUME NEW r \in Requests, Refuse(t, r) \/ Accept(t, r)
        PROVE  StampFresh(t)'
    <3>1. pc'[t] # "store"
      BY <1>0, <2>5 DEF Refuse, Accept, Reply
    <3> QED BY <3>1 DEF StampFresh
  <2> QED BY <2>1, <2>2, <2>3, <2>4, <2>5 DEF ThreadStep, Proceed
<1> QED BY <1>1, <1>2

LEMMA FreshInvariance ==
  ASSUME ClockStepsBack = FALSE
  PROVE  Spec => [](RefinementInv /\ \A t \in Threads : StampFresh(t))
<1> DEFINE Fresh == \A t \in Threads : StampFresh(t)
<1>1. Init => Fresh
  BY DEF Init, StampFresh
<1>2. RefinementInv /\ RequestInv' /\ TimesInOrder /\ Fresh /\ [Next]_vars => Fresh'
  <2> SUFFICES ASSUME RefinementInv, RequestInv', TimesInOrder, Fresh, [Next]_vars
               PROVE  Fresh'
    OBVIOUS
  <2>1. CASE \E t \in Threads : ThreadStep(t)
    BY <2>1, ThreadKeepsFresh
  <2>2. CASE ProcessRestart \/ MachineRestart
    BY <2>2 DEF ProcessRestart, MachineRestart, Die, StampFresh
  <2>3. CASE Tick \/ Sync \/ UNCHANGED vars
    BY <2>3 DEF Tick, Sync, vars, threadVars, StampFresh, ToEpochMicros
  <2> QED BY <2>1, <2>2, <2>3 DEF Next
<1> HIDE DEF Fresh
<1> QED BY <1>1, <1>2, RefinementInvariance, OrderInvariance, PTL DEF Spec, Fresh

(***************************************************************************)
(* However the threads interleave, an UPDATE whose id holds one entry from *)
(* its call to its store never takes updated_at back.                      *)
(***************************************************************************)
THEOREM UpdatesNeverGoBack ==
  ASSUME ClockStepsBack = FALSE
  PROVE  Spec => UpdatesGoForward
<1>1. RefinementInv /\ (\A t \in Threads : StampFresh(t)) =>
        [\A t \in Threads :
           Store(t) /\ request[t].op = "UPDATE" /\ seen[t] = {Live(entry[t].id)} =>
             ToEpochMicros(Live(entry[t].id).updated) <= ToEpochMicros(entry[t].updated)]_vars
  <2> SUFFICES ASSUME RefinementInv, NEW t \in Threads, StampFresh(t), Store(t),
                      request[t].op = "UPDATE", seen[t] = {Live(entry[t].id)}
               PROVE  ToEpochMicros(Live(entry[t].id).updated) <= ToEpochMicros(entry[t].updated)
    OBVIOUS
  <2>1. pc[t] = "store" /\ \E old \in seen[t] : old # None
    BY InCall DEF Store, EntryAsked
  <2> QED BY <2>1 DEF StampFresh
<1> QED BY <1>1, FreshInvariance, PTL DEF Spec, UpdatesGoForward

-----------------------------------------------------------------------------
(***************************************************************************)
(* No DELETE is about to erase the entry that an UPDATE has looked up and  *)
(* not yet stored.                                                         *)
(***************************************************************************)
Apart ==
  \A t, u \in Threads :
    /\ pc[t] \in {"fetch", "stamp", "store"} /\ request[t].op = "UPDATE"
    /\ pc[u] = "erase"
    => Target(request[t]) # Target(request[u])

(* What an UPDATE has looked up is still there. *)
StillThere(t) ==
  pc[t] \in {"fetch", "stamp", "store"} /\ request[t].op = "UPDATE" =>
    Map[Target(request[t])] # None

LEMMA LookupFinds ==
  ASSUME RefinementInv, NEW t \in Threads, Lookup(t)
  PROVE  Map[Target(request[t])] # None
<1>1. /\ Target(request[t]) \in Ids /\ SoundStore(index, data)
      /\ index[EncodeIndexKey(Target(request[t]))] # None
  BY InCall DEF Lookup, LookupIndex, ThreadSound, RefinementInv, RequestInv, StorageInv, IndexSound
<1>2. Live(Target(request[t])) # None
  BY <1>1, IndexKeyBijection DEF SoundStore, Live
<1> QED BY <1>1, <1>2 DEF Map

LEMMA ThreadKeepsThere ==
  ASSUME RefinementInv, Apart, NEW t \in Threads, ThreadStep(t),
         \A u \in Threads : StillThere(u)
  PROVE  \A u \in Threads : StillThere(u)'
<1>0. /\ pc \in [Threads -> Steps] /\ request \in [Threads -> Requests \cup {None}]
  BY DEF RefinementInv, RequestInv, TypeOK
<1>1. \A u \in Threads \ {t} : pc'[u] = pc[u] /\ request'[u] = request[u]
  BY OthersSee
<1>2. \A u \in Threads :
        pc[u] \in {"fetch", "stamp", "store"} /\ request[u].op = "UPDATE" => Target(request[u]) \in Ids
  BY InCall
<1>3. CASE Store(t)
  <2>1. pc'[t] = "idle"
    BY <1>0, <1>3 DEF Store, Reply
  <2>2. entry[t] # None /\ Map' = [Map EXCEPT ![entry[t].id] = entry[t]]
    BY <1>3, StoreChangesMap, StorageAssumption
  <2>3. \A i \in Ids : Map[i] # None => Map'[i] # None
    BY <2>2 DEF Map
  <2> QED BY <1>1, <1>2, <2>1, <2>3 DEF StillThere, Target
<1>4. CASE Erase(t)
  <2>1. pc[t] = "erase" /\ pc'[t] = "idle" /\ Map' = [Map EXCEPT ![Target(request[t])] = None]
    BY <1>0, <1>4, EraseChangesMap DEF Erase, Reply
  <2>2. \A i \in Ids : i # Target(request[t]) => Map'[i] = Map[i]
    BY <2>1 DEF Map
  <2> QED BY <1>1, <1>2, <2>1, <2>2 DEF StillThere, Target, Apart
<1>5. CASE Lookup(t)
  <2>1. Map' = Map /\ request' = request
    BY <1>5, MapIs DEF Lookup, LookupIndex, Goto
  <2> QED BY <1>1, <1>5, <2>1, LookupFinds DEF StillThere, Target
<1>6. CASE FetchOld(t) \/ Stamp(t)
  <2>1. Map' = Map /\ request' = request /\ pc[t] \in {"fetch", "stamp"}
    BY <1>6, MapIs DEF FetchOld, FetchRow, Stamp, Goto, storageVars
  <2> QED BY <1>1, <2>1 DEF StillThere, Target
<1>7. CASE PrepareEntry(t) \/ AssignId(t)
  <2>1. Map' = Map /\ request' = request /\ request[t].op = "CREATE"
    BY <1>7, MapIs, InCall DEF PrepareEntry, AssignId, GetNextId, Goto, storageVars, ThreadSound
  <2> QED BY <1>1, <2>1 DEF StillThere, Target
<1>8. CASE Miss(t) \/ FetchMiss(t) \/ FetchRead(t) \/ IoError(t)
  <2>1. Map' = Map /\ pc'[t] = "idle"
    BY <1>0, <1>8, MapIs DEF Miss, FetchMiss, FetchRead, FetchRow, IoError, Reply, storageVars
  <2> QED BY <1>1, <2>1 DEF StillThere, Target
<1>9. ASSUME NEW r \in Requests, Refuse(t, r) \/ Accept(t, r)
      PROVE  \A u \in Threads : StillThere(u)'
  <2>1. Map' = Map /\ pc'[t] \in {"idle", "prepare", "lookup"}
    BY <1>0, <1>9, MapIs DEF Refuse, Accept, Reply, storageVars
  <2> QED BY <1>1, <2>1 DEF StillThere, Target
<1> QED BY <1>3, <1>4, <1>5, <1>6, <1>7, <1>8, <1>9 DEF ThreadStep, Proceed

(***************************************************************************)
(* What the documents say of UPDATE is so as long as no DELETE of the same *)
(* id is between its two steps while the UPDATE is between its own: the    *)
(* run found_update_revives shows that it needs such an overlap, and this  *)
(* theorem that nothing else makes an UPDATE create an entry.              *)
(***************************************************************************)
THEOREM UpdatesApartCreateNothing == Spec /\ []Apart => OnlyCreateCreates
<1> DEFINE There == \A t \in Threads : StillThere(t)
<1>1. Init => There
  BY DEF Init, StillThere
<1>2. RefinementInv /\ Apart /\ There /\ [Next]_vars => There'
  <2> SUFFICES ASSUME RefinementInv, Apart, There, [Next]_vars
               PROVE  There'
    OBVIOUS
  <2>1. CASE \E t \in Threads : ThreadStep(t)
    BY <2>1, ThreadKeepsThere
  <2>2. CASE ProcessRestart \/ MachineRestart
    BY <2>2 DEF ProcessRestart, MachineRestart, Die, StillThere
  <2>3. CASE Tick \/ Sync \/ UNCHANGED vars
    <3>1. Map' = Map /\ UNCHANGED <<pc, request>>
      BY <2>3, MapIs DEF Tick, Sync, Flush, vars, storageVars, threadVars
    <3> QED BY <3>1 DEF StillThere, Target
  <2> QED BY <2>1, <2>2, <2>3 DEF Next
<1>3. RefinementInv /\ There =>
        [\A t \in Threads :
           Store(t) /\ request[t].op = "UPDATE" => Live(entry[t].id) # None]_vars
  <2> SUFFICES ASSUME RefinementInv, There, NEW t \in Threads, Store(t), request[t].op = "UPDATE"
               PROVE  Live(entry[t].id) # None
    OBVIOUS
  <2>1. entry[t].id = Target(request[t]) /\ Target(request[t]) \in Ids
    BY InCall DEF Store, EntryAsked, Refused, Target
  <2>2. Map[Target(request[t])] # None
    BY DEF StillThere, Store
  <2> QED BY <2>1, <2>2 DEF Map
<1> HIDE DEF There
<1> QED BY <1>1, <1>2, <1>3, RefinementInvariance, PTL DEF Spec, OnlyCreateCreates
=============================================================================
