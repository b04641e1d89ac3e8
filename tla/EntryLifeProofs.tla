--------------------------- MODULE EntryLifeProofs ---------------------------
(***************************************************************************)
(* Theorems about the life of an entry, for every number of threads,       *)
(* requests, faults and restarts: when all ids come from the server, each  *)
(* life of an id has one row, one creation time and one creator; and when  *)
(* the clock is not set back, no entry was updated before it was created.  *)
(***************************************************************************)
EXTENDS ExecuteRequestProofs

(* The primary key a thread is going to read, erase or write. *)
Claim(t) ==
  IF cursor[t] # None THEN cursor[t].primary_key
  ELSE IF pc[t] \in {"stamp", "store"} THEN PrimaryKey(entry[t]) ELSE None

Creating(t) == pc[t] = "store" /\ request[t].op = "CREATE"

(* Every row is filed under its own primary key, and the index names it. *)
RowsFiled(idx, rows) ==
  \A k \in CompositeKeys :
    rows[k] # None => PrimaryKey(rows[k]) = k /\ idx[EncodeIndexKey(k[2])] = k

(* The counter has passed every id that is present. *)
IdsCounted == \A id \in Ids : index[EncodeIndexKey(id)] # None => id <= counter

(* What a thread claims is the row of a life that goes on or has ended. *)
ClaimSound(t) ==
  /\ Claim(t) # None =>
       /\ Claim(t)[2] <= counter
       /\ index[EncodeIndexKey(Claim(t)[2])] \in {None, Claim(t)}
  /\ pc[t] = "stamp" => entry[t].id = Target(request[t])

(* An id about to be born is neither present nor claimed by another thread. *)
BirthSound(t) ==
  Creating(t) =>
    /\ index[EncodeIndexKey(entry[t].id)] = None
    /\ \A u \in Threads \ {t} : Claim(u) # None => Claim(u)[2] # entry[t].id

ClaimsAgree ==
  \A t, u \in Threads :
    Claim(t) # None /\ Claim(u) # None /\ Claim(t)[2] = Claim(u)[2] => Claim(t) = Claim(u)

(***************************************************************************)
(* The inductive invariant.  NoOrphanRows alone is not: an UPDATE writes   *)
(* under the creation time it has read earlier, and only because an id is  *)
(* never born twice is that still the only row the id has or had.          *)
(***************************************************************************)
OneBirth ==
  /\ RowsFiled(index, data)
  /\ RowsFiled(durable.index, durable.data)
  /\ IdsCounted
  /\ ClaimsAgree
  /\ \A t \in Threads : ClaimSound(t) /\ BirthSound(t)

(* No id has been given out twice because the counter came round. *)
IdsLeft == \A t \in Threads : pc[t] = "nextId" => counter < IdMax

-----------------------------------------------------------------------------
LEMMA CompositeKeyId ==
  ASSUME NEW k \in CompositeKeys
  PROVE  k # None /\ k[2] \in Ids
BY StorageAssumption DEF CompositeKeys, EncodeCompositeKey

LEMMA IndexKeyInjective ==
  ASSUME NEW i \in Ids, NEW j \in Ids, EncodeIndexKey(i) = EncodeIndexKey(j)
  PROVE  i = j
BY IndexKeyBijection

(* What a claim is at each position in the code. *)
ClaimTyped(t) ==
  /\ Claim(t) # None => Claim(t) \in CompositeKeys
  /\ pc[t] \in {"stamp", "store"} =>
       /\ entry[t] \in Entry /\ cursor[t] = None
       /\ Claim(t) = PrimaryKey(entry[t]) /\ Claim(t) # None /\ Claim(t)[2] = entry[t].id
  /\ pc[t] \in {"fetch", "erase"} =>
       /\ cursor[t] \in Cursor /\ cursor[t] # None
       /\ Claim(t) = cursor[t].primary_key /\ Claim(t) # None
       /\ Claim(t)[2] = Target(request[t])
       /\ cursor[t].index_key = EncodeIndexKey(Claim(t)[2])
  /\ pc[t] \notin {"stamp", "store", "fetch", "erase"} => Claim(t) = None

LEMMA ClaimsTyped == RequestInv => \A t \in Threads : ClaimTyped(t)
<1> SUFFICES ASSUME RequestInv, NEW t \in Threads
             PROVE  ClaimTyped(t)
  OBVIOUS
<1>1. /\ ThreadSound(t) /\ pc[t] \in Steps
      /\ cursor[t] \in Cursor \cup {None} /\ entry[t] \in Entry \cup {None}
      /\ request[t] \in Requests \cup {None}
      /\ cursor[t] # None => cursor[t].primary_key[2] = DecodeIndexKey(cursor[t].index_key)
  BY DEF RequestInv, TypeOK, StorageTypeOK, StorageInv, CursorSound
<1>2. CASE pc[t] \in {"stamp", "store"}
  <2>1. entry[t] \in Entry /\ cursor[t] = None /\ Claim(t) = PrimaryKey(entry[t])
    BY <1>1, <1>2 DEF ThreadSound, Claim
  <2>2. PrimaryKey(entry[t]) \in CompositeKeys /\ PrimaryKey(entry[t])[2] = entry[t].id
    BY <2>1, PrimaryKeyType, PrimaryKeyId
  <2> QED BY <1>2, <2>1, <2>2, CompositeKeyId DEF ClaimTyped
<1>3. CASE pc[t] \in {"fetch", "erase"}
  <2>1. /\ cursor[t] \in Cursor /\ cursor[t] # None /\ Claim(t) = cursor[t].primary_key
        /\ cursor[t].index_key = EncodeIndexKey(Target(request[t]))
        /\ request[t] \in Requests /\ ~Refused(request[t]) /\ request[t].op # "CREATE"
    BY <1>1, <1>3 DEF ThreadSound, Claim
  <2>2. Target(request[t]) \in Ids
    BY <2>1, RequestFields
  <2>3. Claim(t)[2] = Target(request[t])
    BY <1>1, <2>1, <2>2, IndexKeyBijection
  <2> QED BY <1>3, <2>1, <2>3, CompositeKeyId DEF ClaimTyped, Cursor
<1>4. CASE pc[t] \notin {"stamp", "store", "fetch", "erase"}
  BY <1>1, <1>4 DEF ThreadSound, Claim, ClaimTyped
<1> QED BY <1>2, <1>3, <1>4

LEMMA ClaimsTypedNext == RequestInv' => \A t \in Threads : ClaimTyped(t)'
<1> DEFINE Typed == \A t \in Threads : ClaimTyped(t)
<1>1. RequestInv => Typed
  BY ClaimsTyped
<1>2. RequestInv' => Typed'
  <2> HIDE DEF Typed
  <2> QED BY <1>1, PTL
<1> QED BY <1>2

(* A step of t leaves the claims of the others alone. *)
LEMMA OthersClaims ==
  ASSUME NEW t \in Threads, OthersKept(t)
  PROVE  \A u \in Threads \ {t} :
           /\ Claim(u)' = Claim(u) /\ (Creating(u)' <=> Creating(u))
           /\ pc'[u] = pc[u] /\ entry'[u] = entry[u]
           /\ Target(request[u])' = Target(request[u])
BY DEF OthersKept, Claim, Creating, Target, PrimaryKey, EncodeCompositeKey, ToEpochMicros

LEMMA ThreadFrame ==
  ASSUME RequestInv, NEW t \in Threads, ThreadStep(t)
  PROVE  OthersKept(t) /\ durable' = durable
<1>1. TypeOK /\ cursor \in [Threads -> Cursor \cup {None}]
  BY DEF RequestInv, TypeOK, StorageTypeOK
<1>2. ASSUME NEW r \in Requests, Refuse(t, r) \/ Accept(t, r)
      PROVE  OthersKept(t) /\ durable' = durable
  BY <1>1, <1>2 DEF Refuse, Accept, Reply, OthersKept, TypeOK, storageVars
<1>3. CASE PrepareEntry(t) \/ AssignId(t) \/ Stamp(t)
  BY <1>1, <1>3 DEF PrepareEntry, AssignId, Stamp, GetNextId, Goto, OthersKept, TypeOK, storageVars
<1>4. CASE Store(t) \/ Miss(t) \/ IoError(t)
  BY <1>1, <1>4 DEF Store, Miss, IoError, StoreEntry, Reply, OthersKept, TypeOK, storageVars
<1>5. CASE Lookup(t) \/ FetchMiss(t) \/ FetchRead(t) \/ FetchOld(t) \/ Erase(t)
  BY <1>1, <1>5 DEF Lookup, LookupIndex, FetchMiss, FetchRead, FetchOld, FetchRow, Erase,
                    DeleteRows, Goto, Reply, OthersKept, TypeOK
<1> QED BY <1>2, <1>3, <1>4, <1>5 DEF ThreadStep, Proceed

-----------------------------------------------------------------------------
(***************************************************************************)
(* Each action preserves OneBirth.  RequestInv' is known by then.          *)
(***************************************************************************)

(* The steps that leave the store alone and keep or drop t's claim. *)
LEMMA QuietKeepsBirths ==
  ASSUME RequestInv, RequestInv', OneBirth, NEW t \in Threads, OthersKept(t),
         UNCHANGED <<index, data, counter, durable>>,
         Claim(t)' \in {Claim(t), None}, ~Creating(t)',
         pc'[t] = "stamp" => entry'[t].id = Target(request'[t])
  PROVE  OneBirth'
<1> USE DEF OneBirth
<1>1. \A u \in Threads \ {t} :
        /\ Claim(u)' = Claim(u) /\ (Creating(u)' <=> Creating(u))
        /\ pc'[u] = pc[u] /\ entry'[u] = entry[u]
        /\ Target(request[u])' = Target(request[u])
  BY OthersClaims
<1>2. \A u \in Threads : Claim(u)' \in {Claim(u), None}
  BY <1>1
<1>3. RowsFiled(index, data)' /\ RowsFiled(durable.index, durable.data)' /\ IdsCounted'
  BY DEF RowsFiled, IdsCounted, EncodeIndexKey, PrimaryKey, EncodeCompositeKey, ToEpochMicros
<1>4. ClaimsAgree'
  BY <1>2 DEF ClaimsAgree
<1>5. \A u \in Threads : ClaimSound(u)'
  <2>1. \A i : EncodeIndexKey(i)' = EncodeIndexKey(i)
    BY DEF EncodeIndexKey
  <2>2. ClaimSound(t)'
    BY <2>1 DEF ClaimSound, Target, EncodeIndexKey
  <2>3. ASSUME NEW u \in Threads \ {t} PROVE ClaimSound(u)'
    BY <1>1, <2>3 DEF ClaimSound, EncodeIndexKey
  <2> QED BY <2>2, <2>3
<1>6. \A u \in Threads : BirthSound(u)'
  <2> SUFFICES ASSUME NEW u \in Threads, Creating(u)'
               PROVE  BirthSound(u)'
    BY DEF BirthSound
  <2>1. u # t /\ Creating(u) /\ entry'[u] = entry[u]
    BY <1>1
  <2> QED BY <1>2, <2>1 DEF BirthSound, EncodeIndexKey
<1> QED BY <1>3, <1>4, <1>5, <1>6

(* The counter's next id: no row and no thread has it. *)
LEMMA AssignKeepsBirths ==
  ASSUME RequestInv, RequestInv', OneBirth, IdsLeft, NEW t \in Threads,
         OthersKept(t), AssignId(t)
  PROVE  OneBirth'
<1> USE DEF OneBirth
<1>1. \A u \in Threads \ {t} :
        /\ Claim(u)' = Claim(u) /\ (Creating(u)' <=> Creating(u))
        /\ pc'[u] = pc[u] /\ entry'[u] = entry[u]
        /\ Target(request[u])' = Target(request[u])
  BY OthersClaims
<1>2. /\ counter \in Ids /\ counter' = counter + 1 /\ counter' \in Ids
      /\ UNCHANGED <<index, data, durable>>
      /\ index \in Index
  <2>1. /\ counter \in 0 .. IdMax /\ counter < IdMax /\ IdMax \in Nat
        /\ counter' = (counter + 1) % (IdMax + 1)
        /\ UNCHANGED <<index, data, durable>> /\ index \in Index
    BY StorageAssumption DEF AssignId, GetNextId, IdsLeft, RequestInv, TypeOK, StorageTypeOK, Ids
  <2>2. (counter + 1) % (IdMax + 1) = counter + 1
    BY <2>1
  <2> QED BY <2>1, <2>2 DEF Ids
<1>3. /\ pc'[t] = "store" /\ entry'[t].id = counter'
      /\ Claim(t)' # None /\ Claim(t)'[2] = counter'
  <2>1. pc'[t] = "store" /\ entry'[t].id = counter'
    <3>1. /\ entry[t] \in Entry
          /\ entry \in [Threads -> Entry \cup {None}] /\ pc \in [Threads -> Steps]
      BY DEF AssignId, RequestInv, TypeOK, ThreadSound
    <3> QED BY <3>1 DEF AssignId, Goto, Entry
  <2>2. ClaimTyped(t)'
    BY ClaimsTypedNext
  <2> QED BY <2>1, <2>2 DEF ClaimTyped
<1>4. index[EncodeIndexKey(counter')] = None
  BY <1>2 DEF IdsCounted, Ids
<1>5. \A u \in Threads \ {t} : Claim(u) # None => Claim(u)[2] # counter' /\ Claim(u)[2] \in Ids
  <2> SUFFICES ASSUME NEW u \in Threads \ {t}, Claim(u) # None
               PROVE  Claim(u)[2] # counter' /\ Claim(u)[2] \in Ids
    OBVIOUS
  <2>1. Claim(u)[2] \in Ids
    BY ClaimsTyped, CompositeKeyId DEF ClaimTyped
  <2>2. Claim(u)[2] <= counter
    BY DEF ClaimSound
  <2> QED BY <1>2, <2>1, <2>2 DEF Ids
<1>6. RowsFiled(index, data)' /\ RowsFiled(durable.index, durable.data)'
  BY <1>2 DEF RowsFiled, EncodeIndexKey, PrimaryKey, EncodeCompositeKey, ToEpochMicros
<1>7. IdsCounted'
  BY <1>2 DEF IdsCounted, Ids, EncodeIndexKey
<1>8. ClaimsAgree'
  BY <1>1, <1>3, <1>5 DEF ClaimsAgree
<1>9. \A u \in Threads : ClaimSound(u)'
  <2>1. ClaimSound(t)'
    BY <1>2, <1>3, <1>4 DEF ClaimSound, EncodeIndexKey, Ids
  <2>2. ASSUME NEW u \in Threads \ {t} PROVE ClaimSound(u)'
    BY <1>1, <1>2, <1>5 DEF ClaimSound, EncodeIndexKey, Ids
  <2> QED BY <2>1, <2>2
<1>10. \A u \in Threads : BirthSound(u)'
  <2>1. BirthSound(t)'
    BY <1>1, <1>2, <1>3, <1>4, <1>5 DEF BirthSound, EncodeIndexKey
  <2>2. ASSUME NEW u \in Threads \ {t}, Creating(u)' PROVE BirthSound(u)'
    <3>1. Creating(u) /\ entry'[u] = entry[u] /\ Claim(u) = Claim(u)'
      BY <1>1, <2>2
    <3>2. Claim(u)' # None /\ Claim(u)'[2] = entry'[u].id
      <4>1. ClaimTyped(u)'
        BY ClaimsTypedNext
      <4> QED BY <2>2, <4>1 DEF ClaimTyped, Creating
    <3>3. entry[u].id # counter'
      BY <1>5, <3>1, <3>2
    <3> QED BY <1>1, <1>2, <1>3, <3>1, <3>3 DEF BirthSound, EncodeIndexKey
  <2> QED BY <2>1, <2>2 DEF BirthSound
<1> QED BY <1>6, <1>7, <1>8, <1>9, <1>10

(* A lookup claims the row of the life that goes on: all its other claims agree. *)
LEMMA LookupKeepsBirths ==
  ASSUME RequestInv, RequestInv', OneBirth, NEW t \in Threads,
         OthersKept(t), Lookup(t)
  PROVE  OneBirth'
<1> USE DEF OneBirth
<1> DEFINE i == Target(request[t])
           k == index[EncodeIndexKey(i)]
<1>1. \A u \in Threads \ {t} :
        /\ Claim(u)' = Claim(u) /\ (Creating(u)' <=> Creating(u))
        /\ pc'[u] = pc[u] /\ entry'[u] = entry[u]
        /\ Target(request[u])' = Target(request[u])
  BY OthersClaims
<1>2. /\ UNCHANGED <<index, data, counter, durable>> /\ k # None
      /\ i \in Ids /\ pc'[t] \in {"fetch", "erase"} /\ Target(request[t])' = i
  <2>1. /\ request[t] \in Requests /\ ~Refused(request[t]) /\ request[t].op # "CREATE"
        /\ pc \in [Threads -> Steps]
    BY DEF Lookup, RequestInv, TypeOK, ThreadSound
  <2> QED BY <2>1, RequestFields DEF Lookup, LookupIndex, Goto, Target
<1>3. Claim(t)' = k /\ k[2] = i
  <2>1. ClaimTyped(t)' /\ cursor \in [Threads -> Cursor \cup {None}]
    BY ClaimsTypedNext DEF RequestInv, TypeOK, StorageTypeOK
  <2>2. cursor'[t].primary_key = k
    BY <2>1 DEF Lookup, LookupIndex
  <2> QED BY <1>2, <2>1, <2>2 DEF ClaimTyped
<1>4. k[2] <= counter
  BY <1>2, <1>3 DEF IdsCounted
<1> HIDE DEF k, i
<1>5. index[EncodeIndexKey(i)] = k
  BY DEF k, i
<1>6. ASSUME NEW u \in Threads \ {t}, Claim(u) # None, Claim(u)[2] = i
      PROVE  Claim(u) = k
  BY <1>2, <1>5, <1>6 DEF ClaimSound
<1>7. RowsFiled(index, data)' /\ RowsFiled(durable.index, durable.data)' /\ IdsCounted'
  BY <1>2 DEF RowsFiled, IdsCounted, EncodeIndexKey, PrimaryKey, EncodeCompositeKey, ToEpochMicros
<1>8. ClaimsAgree'
  BY <1>1, <1>3, <1>6 DEF ClaimsAgree
<1>9. \A u \in Threads : ClaimSound(u)'
  <2>1. ClaimSound(t)'
    BY <1>2, <1>3, <1>4, <1>5 DEF ClaimSound, EncodeIndexKey
  <2>2. ASSUME NEW u \in Threads \ {t} PROVE ClaimSound(u)'
    BY <1>1, <1>2 DEF ClaimSound, EncodeIndexKey
  <2> QED BY <2>1, <2>2
<1>10. \A u \in Threads : BirthSound(u)'
  <2> SUFFICES ASSUME NEW u \in Threads, Creating(u)'
               PROVE  BirthSound(u)'
    BY DEF BirthSound
  <2>1. u # t /\ Creating(u) /\ entry'[u] = entry[u]
    BY <1>1, <1>2 DEF Creating
  <2>2. entry[u].id # i
    BY <1>2, <1>5, <2>1 DEF BirthSound
  <2> QED BY <1>1, <1>2, <1>3, <2>1, <2>2 DEF BirthSound, EncodeIndexKey
<1> QED BY <1>7, <1>8, <1>9, <1>10

(***************************************************************************)
(* A store and an erase of the row that t claims: the only row of its id,  *)
(* so the others' rows and claims are not concerned, and the claims of     *)
(* that id agree with it.                                                  *)
(***************************************************************************)
LEMMA WriteKeepsBirths ==
  ASSUME RequestInv, RequestInv', OneBirth, NEW t \in Threads, OthersKept(t),
         NEW k, k = Claim(t), k # None,
         NEW ik \in {k, None}, NEW row, ik = None <=> row = None,
         row # None => PrimaryKey(row) = k,
         index' = [index EXCEPT ![EncodeIndexKey(k[2])] = ik],
         data' = [data EXCEPT ![k] = row],
         UNCHANGED <<counter, durable>>, pc'[t] = "idle"
  PROVE  OneBirth'
<1> USE DEF OneBirth
<1> DEFINE i == k[2]
<1>1. \A u \in Threads \ {t} :
        /\ Claim(u)' = Claim(u) /\ (Creating(u)' <=> Creating(u))
        /\ pc'[u] = pc[u] /\ entry'[u] = entry[u]
        /\ Target(request[u])' = Target(request[u])
  BY OthersClaims
<1>2. /\ Claim(t)' = None /\ ~Creating(t)'
  BY ClaimsTypedNext DEF ClaimTyped, Creating
<1>3. /\ k \in CompositeKeys /\ i \in Ids
      /\ index \in Index /\ data \in Data
      /\ i <= counter /\ index[EncodeIndexKey(i)] \in {None, k}
  BY ClaimsTyped, CompositeKeyId
     DEF ClaimTyped, ClaimSound, RequestInv, TypeOK, StorageTypeOK
<1>4. /\ index'[EncodeIndexKey(i)] = ik /\ data'[k] = row
      /\ \A j \in Ids \ {i} : index'[EncodeIndexKey(j)] = index[EncodeIndexKey(j)]
      /\ \A q \in CompositeKeys \ {k} : data'[q] = data[q]
  BY <1>3, IndexKeyBijection, IndexKeyInjective DEF Index, Data
<1>5. \A u \in Threads \ {t} : Claim(u) # None => Claim(u)[2] \in Ids
  BY ClaimsTyped, CompositeKeyId DEF ClaimTyped
<1>6. \A u \in Threads \ {t} : Claim(u) # None /\ Claim(u)[2] = i => Claim(u) = k
  BY DEF ClaimsAgree
<1> HIDE DEF i
<1>7. RowsFiled(index, data)'
  <2> SUFFICES ASSUME NEW q \in CompositeKeys, data'[q] # None
               PROVE  PrimaryKey(data'[q]) = q /\ index'[EncodeIndexKey(q[2])] = q
    BY DEF RowsFiled, EncodeIndexKey, PrimaryKey, EncodeCompositeKey, ToEpochMicros
  <2>1. CASE q = k
    BY <1>4, <2>1 DEF i
  <2>2. CASE q # k
    <3>1. data[q] # None /\ PrimaryKey(data[q]) = q /\ index[EncodeIndexKey(q[2])] = q
      BY <1>4, <2>2 DEF RowsFiled
    <3>2. q[2] \in Ids /\ q # None
      BY CompositeKeyId
    <3>3. q[2] # i
      BY <1>3, <2>2, <3>1, <3>2
    <3> QED BY <1>4, <2>2, <3>1, <3>2, <3>3
  <2> QED BY <2>1, <2>2
<1>8. RowsFiled(durable.index, durable.data)'
  BY DEF RowsFiled, EncodeIndexKey, PrimaryKey, EncodeCompositeKey, ToEpochMicros
<1>9. IdsCounted'
  <2> SUFFICES ASSUME NEW id \in Ids, index'[EncodeIndexKey(id)] # None
               PROVE  id <= counter
    BY DEF IdsCounted, EncodeIndexKey
  <2> QED BY <1>3, <1>4 DEF IdsCounted
<1>10. ClaimsAgree'
  BY <1>1, <1>2 DEF ClaimsAgree
<1>11. \A u \in Threads : ClaimSound(u)'
  <2>1. ClaimSound(t)'
    BY <1>2 DEF ClaimSound
  <2>2. ASSUME NEW u \in Threads \ {t} PROVE ClaimSound(u)'
    <3>1. ClaimSound(u)
      OBVIOUS
    <3>2. Claim(u) # None => index'[EncodeIndexKey(Claim(u)[2])] \in {None, Claim(u)}
      BY <1>4, <1>5, <1>6, <3>1 DEF ClaimSound
    <3> QED BY <1>1, <3>1, <3>2 DEF ClaimSound, EncodeIndexKey
  <2> QED BY <2>1, <2>2
<1>12. \A u \in Threads : BirthSound(u)'
  <2> SUFFICES ASSUME NEW u \in Threads, Creating(u)'
               PROVE  BirthSound(u)'
    BY DEF BirthSound
  <2>1. u # t /\ Creating(u) /\ entry'[u] = entry[u]
    BY <1>1, <1>2
  <2>2. entry[u].id # i /\ entry[u].id \in Ids
    <3>1. entry[u] \in Entry
      BY <2>1, ClaimsTyped DEF ClaimTyped, Creating
    <3> QED BY <2>1, <3>1 DEF BirthSound, Entry, i
  <2> QED BY <1>1, <1>2, <1>4, <2>1, <2>2 DEF BirthSound, EncodeIndexKey
<1> QED BY <1>7, <1>8, <1>9, <1>10, <1>11, <1>12

LEMMA StoreKeepsBirths ==
  ASSUME RequestInv, RequestInv', OneBirth, NEW t \in Threads,
         OthersKept(t), Store(t)
  PROVE  OneBirth'
<1>1. /\ entry[t] \in Entry /\ Claim(t) = PrimaryKey(entry[t])
      /\ Claim(t) # None /\ Claim(t)[2] = entry[t].id /\ entry[t] # None
  BY ClaimsTyped, StorageAssumption DEF ClaimTyped, Store
<1>2. /\ index' = [index EXCEPT ![EncodeIndexKey(Claim(t)[2])] = Claim(t)]
      /\ data' = [data EXCEPT ![Claim(t)] = entry[t]]
      /\ UNCHANGED <<counter, durable>> /\ pc'[t] = "idle"
  BY <1>1 DEF Store, StoreEntry, Reply, RequestInv, TypeOK
<1> QED BY <1>1, <1>2, WriteKeepsBirths

LEMMA EraseKeepsBirths ==
  ASSUME RequestInv, RequestInv', OneBirth, NEW t \in Threads,
         OthersKept(t), Erase(t)
  PROVE  OneBirth'
<1>1. /\ Claim(t) # None /\ cursor[t].primary_key = Claim(t)
      /\ cursor[t].index_key = EncodeIndexKey(Claim(t)[2])
  BY ClaimsTyped DEF ClaimTyped, Erase
<1>2. /\ index' = [index EXCEPT ![EncodeIndexKey(Claim(t)[2])] = None]
      /\ data' = [data EXCEPT ![Claim(t)] = None]
      /\ UNCHANGED <<counter, durable>> /\ pc'[t] = "idle"
  BY <1>1 DEF Erase, DeleteRows, Reply, RequestInv, TypeOK
<1> QED BY <1>1, <1>2, WriteKeepsBirths

LEMMA ThreadKeepsBirths ==
  ASSUME RequestInv, RequestInv', OneBirth, IdsLeft, CreateIds = {0},
         NEW t \in Threads, ThreadStep(t)
  PROVE  OneBirth'
<1>0. /\ TypeOK /\ ThreadSound(t) /\ ClaimTyped(t) /\ ClaimTyped(t)'
      /\ OthersKept(t) /\ durable' = durable
  BY ClaimsTyped, ClaimsTypedNext, ThreadFrame DEF RequestInv
<1>1. ASSUME NEW r \in Requests, Refuse(t, r) \/ Accept(t, r)
      PROVE  OneBirth'
  <2>1. UNCHANGED <<index, data, counter>> /\ pc'[t] \in {"idle", "prepare", "lookup"}
    BY <1>0, <1>1 DEF Refuse, Accept, Reply, TypeOK, storageVars
  <2>2. Claim(t)' = None /\ ~Creating(t)'
    BY <1>0, <2>1 DEF ClaimTyped, Creating
  <2> QED BY <1>0, <2>1, <2>2, QuietKeepsBirths
<1>2. CASE PrepareEntry(t)
  <2>1. pc'[t] = "nextId"
    <3>1. request[t].entry \in ClientEntry(CreateIds)
      BY <1>0, <1>2, RequestFields DEF PrepareEntry, TypeOK, ThreadSound
    <3>2. request[t].entry.id = 0
      BY <3>1 DEF ClientEntry
    <3> QED BY <1>0, <1>2, <3>2 DEF PrepareEntry, Goto, TypeOK
  <2>2. Claim(t)' = None /\ ~Creating(t)'
    BY <1>0, <2>1 DEF ClaimTyped, Creating
  <2>3. UNCHANGED <<index, data, counter>>
    BY <1>2 DEF PrepareEntry, storageVars
  <2> QED BY <1>0, <2>1, <2>2, <2>3, QuietKeepsBirths
<1>3. CASE AssignId(t)
  BY <1>0, <1>3, AssignKeepsBirths
<1>4. CASE Store(t)
  BY <1>0, <1>4, StoreKeepsBirths
<1>5. CASE Lookup(t)
  BY <1>0, <1>5, LookupKeepsBirths
<1>6. CASE Erase(t)
  BY <1>0, <1>6, EraseKeepsBirths
<1>7. CASE Miss(t) \/ FetchMiss(t) \/ FetchRead(t) \/ IoError(t)
  <2>1. UNCHANGED <<index, data, counter>> /\ pc'[t] = "idle"
    BY <1>0, <1>7 DEF Miss, FetchMiss, FetchRead, FetchRow, IoError, Reply, TypeOK, storageVars
  <2>2. Claim(t)' = None /\ ~Creating(t)'
    BY <1>0, <2>1 DEF ClaimTyped, Creating
  <2> QED BY <1>0, <2>1, <2>2, QuietKeepsBirths
<1>8. CASE FetchOld(t)
  <2>1. /\ UNCHANGED <<index, data, counter>> /\ pc'[t] = "stamp"
        /\ entry'[t] = FoundRow(t) /\ FoundRow(t) # None
        /\ Target(request'[t]) = Target(request[t])
        /\ pc[t] = "fetch"
    BY <1>0, <1>8 DEF FetchOld, FetchRow, Goto, TypeOK
  <2>2. /\ Claim(t) \in CompositeKeys /\ FoundRow(t) = data[Claim(t)]
        /\ Claim(t)[2] = Target(request[t])
    BY <1>0, <2>1 DEF ClaimTyped, FoundRow
  <2>3. PrimaryKey(entry'[t]) = Claim(t)
    BY <2>1, <2>2 DEF OneBirth, RowsFiled
  <2>4. Claim(t)' = Claim(t) /\ entry'[t].id = Target(request'[t])
    <3>1. /\ Claim(t)' = PrimaryKey(entry[t])' /\ Claim(t)'[2] = entry'[t].id
      BY <1>0, <2>1 DEF ClaimTyped
    <3>2. PrimaryKey(entry[t])' = PrimaryKey(entry'[t])
      BY DEF PrimaryKey, EncodeCompositeKey, ToEpochMicros
    <3> QED BY <2>1, <2>2, <2>3, <3>1, <3>2
  <2> QED BY <1>0, <2>1, <2>4, QuietKeepsBirths DEF Creating
<1>9. CASE Stamp(t)
  <2>1. /\ UNCHANGED <<index, data, counter>> /\ pc[t] = "stamp" /\ pc'[t] = "store"
        /\ request[t].op = "UPDATE" /\ request' = request
        /\ entry'[t].id = request[t].entry.id /\ entry'[t].created = entry[t].created
    BY <1>0, <1>9 DEF Stamp, Goto, TypeOK, ThreadSound, storageVars
  <2>2. entry'[t].id = entry[t].id
    BY <2>1 DEF OneBirth, ClaimSound, Target
  <2>3. Claim(t)' = Claim(t)
    <3>1. Claim(t) = PrimaryKey(entry[t]) /\ Claim(t)' = PrimaryKey(entry[t])'
      BY <1>0, <2>1 DEF ClaimTyped
    <3> QED BY <2>1, <2>2, <3>1 DEF PrimaryKey, EncodeCompositeKey, ToEpochMicros
  <2>4. ~Creating(t)'
    BY <2>1 DEF Creating
  <2> QED BY <1>0, <2>1, <2>3, <2>4, QuietKeepsBirths
<1> QED BY <1>1, <1>2, <1>3, <1>4, <1>5, <1>6, <1>7, <1>8, <1>9 DEF ThreadStep, Proceed

(* Deaths forget every claim and recover the counter; the disk holds an earlier store. *)
LEMMA EnvironmentKeepsBirths ==
  ASSUME RequestInv, RequestInv', OneBirth,
         Tick \/ ProcessRestart \/ MachineRestart \/ Sync \/ UNCHANGED vars
  PROVE  OneBirth'
<1> USE DEF OneBirth
<1>1. CASE ProcessRestart \/ MachineRestart
  <2>1. \A t \in Threads : pc'[t] = "idle" /\ Claim(t)' = None
    <3>1. \A t \in Threads : pc'[t] = "idle"
      BY <1>1 DEF ProcessRestart, MachineRestart, Die
    <3> QED BY <3>1, ClaimsTypedNext DEF ClaimTyped
  <2>2. (\A t \in Threads : ClaimSound(t) /\ BirthSound(t))' /\ ClaimsAgree'
    BY <2>1 DEF ClaimSound, BirthSound, Creating, ClaimsAgree
  <2>3. /\ RowsFiled(index', data') /\ RowsFiled(durable'.index, durable'.data)
        /\ index' \in Index /\ counter' = LastId(index')
    BY <1>1 DEF ProcessRestart, MachineRestart, Reopen, PowerLoss,
                RequestInv, TypeOK, StorageTypeOK
  <2>4. IdsCounted'
    BY <2>3, LastIdBound DEF IdsCounted, EncodeIndexKey
  <2> QED BY <2>2, <2>3, <2>4
          DEF RowsFiled, EncodeIndexKey, PrimaryKey, EncodeCompositeKey, ToEpochMicros
<1>2. CASE Tick \/ Sync \/ UNCHANGED vars
  <2>1. /\ UNCHANGED <<index, data, counter, cursor, threadVars>>
        /\ durable' = durable \/ durable' = [index |-> index, data |-> data]
    BY <1>2 DEF Tick, Sync, Flush, vars, storageVars
  <2>2. /\ RowsFiled(index', data') /\ RowsFiled(durable'.index, durable'.data)
    BY <2>1
  <2>3. /\ \A t \in Threads : Claim(t)' = Claim(t) /\ (Creating(t)' <=> Creating(t))
        /\ pc' = pc /\ entry' = entry /\ request' = request
    BY <2>1 DEF Claim, Creating, threadVars, PrimaryKey, EncodeCompositeKey, ToEpochMicros
  <2>4. \A t \in Threads : ClaimSound(t)' /\ BirthSound(t)'
    BY <2>1, <2>3 DEF ClaimSound, BirthSound, EncodeIndexKey, Target
  <2>5. ClaimsAgree' /\ IdsCounted'
    BY <2>1, <2>3 DEF ClaimsAgree, IdsCounted, EncodeIndexKey
  <2> QED BY <2>2, <2>4, <2>5
          DEF RowsFiled, EncodeIndexKey, PrimaryKey, EncodeCompositeKey, ToEpochMicros
<1> QED BY <1>1, <1>2

LEMMA BirthsInit == Init => OneBirth
<1> SUFFICES ASSUME Init PROVE OneBirth
  OBVIOUS
<1>1. RowsFiled(index, data) /\ RowsFiled(durable.index, durable.data) /\ IdsCounted
  BY IndexKeyBijection DEF Init, StorageInit, RowsFiled, IdsCounted
<1>2. \A t \in Threads : Claim(t) = None /\ pc[t] = "idle"
  BY DEF Init, StorageInit, Claim
<1> QED BY <1>1, <1>2 DEF OneBirth, ClaimsAgree, ClaimSound, BirthSound, Creating

LEMMA BirthsInvariance ==
  ASSUME CreateIds = {0}
  PROVE  Spec /\ []IdsLeft => [](RequestInv /\ OneBirth)
<1>1. RequestInv /\ OneBirth /\ IdsLeft /\ [Next]_vars => RequestInv' /\ OneBirth'
  <2> SUFFICES ASSUME RequestInv, OneBirth, IdsLeft, [Next]_vars
               PROVE  RequestInv' /\ OneBirth'
    OBVIOUS
  <2>1. RequestInv'
    BY RequestStepInv
  <2>2. CASE \E t \in Threads : ThreadStep(t)
    BY <2>1, <2>2, ThreadKeepsBirths
  <2>3. CASE Tick \/ ProcessRestart \/ MachineRestart \/ Sync \/ UNCHANGED vars
    BY <2>1, <2>3, EnvironmentKeepsBirths
  <2> QED BY <2>1, <2>2, <2>3 DEF Next
<1> QED BY <1>1, RequestInitInv, BirthsInit, PTL DEF Spec

-----------------------------------------------------------------------------
(***************************************************************************)
(* When the server chooses all ids, every row stays reachable through the  *)
(* index: an UPDATE or DELETE that works with what it read earlier finds   *)
(* the row of the one life its id has.                                     *)
(***************************************************************************)
THEOREM RowsNeverOrphaned ==
  ASSUME CreateIds = {0}
  PROVE  Spec /\ []IdsLeft => []NoOrphanRows
<1>1. RequestInv /\ OneBirth => NoOrphanRows
  <2> SUFFICES ASSUME RequestInv, OneBirth, NEW k \in CompositeKeys, data[k] # None
               PROVE  index[EncodeIndexKey(data[k].id)] = k
    BY DEF NoOrphanRows
  <2>1. data[k] \in Entry /\ PrimaryKey(data[k]) = k /\ index[EncodeIndexKey(k[2])] = k
    BY DEF RequestInv, TypeOK, StorageTypeOK, Data, OneBirth, RowsFiled
  <2> QED BY <2>1, PrimaryKeyId
<1> QED BY <1>1, BirthsInvariance, PTL

(***************************************************************************)
(* An id the server generates is nobody else's, however many threads draw  *)
(* ids at once, and also after restarts and power losses.                  *)
(***************************************************************************)
THEOREM GeneratedIdsFresh ==
  ASSUME CreateIds = {0}
  PROVE  Spec /\ []IdsLeft => GeneratedIdFresh
<1>1. RequestInv /\ OneBirth /\ [Next]_vars =>
        [\A t \in Threads :
           Store(t) /\ Generated(t) => Live(entry[t].id) = None]_vars
  BY DEF Store, Generated, OneBirth, BirthSound, Creating, Live
<1> QED BY <1>1, BirthsInvariance, PTL DEF Spec, GeneratedIdFresh

(***************************************************************************)
(* And an id that is deleted leaves no row behind: what the documents say  *)
(* of DELETE, and what fails when clients choose ids, is so when all ids   *)
(* come from the server.                                                   *)
(***************************************************************************)
THEOREM DeletesRemoveRows ==
  ASSUME CreateIds = {0}
  PROVE  Spec /\ []IdsLeft => DeleteRemovesRows
<1>1. RequestInv /\ OneBirth /\ [Next]_vars =>
        [\A t \in Threads :
           Erase(t) => \A key \in CompositeKeys :
                         data'[key] # None => data'[key].id # request[t].id]_vars
  <2> SUFFICES ASSUME RequestInv, OneBirth, NEW t \in Threads, Erase(t),
                      NEW key \in CompositeKeys, data'[key] # None,
                      data'[key].id = request[t].id
               PROVE  FALSE
    OBVIOUS
  <2>1. /\ Claim(t) \in CompositeKeys /\ Claim(t)[2] = Target(request[t]) /\ Claim(t) # None
        /\ cursor[t].primary_key = Claim(t) /\ data \in Data
        /\ request[t].op = "DELETE"
    BY ClaimsTyped DEF ClaimTyped, Erase, RequestInv, TypeOK, StorageTypeOK, ThreadSound
  <2>2. data' = [data EXCEPT ![Claim(t)] = None]
    BY <2>1 DEF Erase, DeleteRows
  <2>3. key # Claim(t) /\ data[key] \in Entry /\ data[key].id = Target(request[t])
    BY <2>1, <2>2 DEF Data, Target
  <2>4. PrimaryKey(data[key]) = key /\ index[EncodeIndexKey(key[2])] = key
    BY <2>2, <2>3 DEF OneBirth, RowsFiled
  <2>5. key[2] = Claim(t)[2] /\ key # None
    BY <2>1, <2>3, <2>4, PrimaryKeyId, CompositeKeyId
  <2>6. index[EncodeIndexKey(Claim(t)[2])] \in {None, Claim(t)}
    BY <2>1 DEF OneBirth, ClaimSound
  <2> QED BY <2>3, <2>4, <2>5, <2>6
<1> QED BY <1>1, BirthsInvariance, PTL DEF Spec, DeleteRemovesRows

(* A primary key determines the creation time. *)
LEMMA PrimaryKeyCreated ==
  ASSUME NEW e \in Entry, NEW f \in Entry, PrimaryKey(e) = PrimaryKey(f)
  PROVE  e.created = f.created
<1>1. PICK m \in Times, n \in Times : e.created = Timestamp(m) /\ f.created = Timestamp(n)
  BY DEF Entry, Timestamps
<1>2. m \in Nat /\ n \in Nat /\ TsMax \in Nat
  BY StorageAssumption
<1>3. TsMax - m = TsMax - n
  BY <1>1, <1>2, TimestampRoundTrip DEF PrimaryKey, EncodeCompositeKey
<1> QED BY <1>1, <1>2, <1>3

(* What a write of the row that t claims does to the entries readers get. *)
LEMMA WriteKeepsOthers ==
  ASSUME RequestInv, OneBirth, NEW t \in Threads,
         NEW k, k = Claim(t), k # None,
         NEW ik, NEW row,
         index' = [index EXCEPT ![EncodeIndexKey(k[2])] = ik],
         data' = [data EXCEPT ![k] = row],
         NEW id \in Ids, id # k[2], Live(id) # None
  PROVE  Live(id)' = Live(id)
<1> DEFINE q == index[EncodeIndexKey(id)]
<1>1. /\ k \in CompositeKeys /\ k[2] \in Ids /\ index \in Index /\ data \in Data
      /\ SoundStore(index, data)
  BY ClaimsTyped, CompositeKeyId
     DEF ClaimTyped, RequestInv, TypeOK, StorageTypeOK, StorageInv, IndexSound
<1>2. q # None /\ q \in CompositeKeys
  BY <1>1, IndexKeyBijection DEF Live, Index
<1>3. data[q] # None /\ data[q].id = id /\ PrimaryKey(data[q]) = q
  BY <1>1, <1>2, IndexKeyBijection DEF SoundStore
<1>4. q[2] = id
  BY <1>1, <1>2, <1>3, PrimaryKeyId DEF Data
<1>5. index'[EncodeIndexKey(id)] = q
  BY <1>1, IndexKeyBijection, IndexKeyInjective DEF Index
<1>6. data'[q] = data[q]
  BY <1>1, <1>2, <1>4 DEF Data
<1> HIDE DEF q
<1>7. Live(id)' = data'[q]
  BY <1>2, <1>5 DEF Live, EncodeIndexKey
<1>8. Live(id) = data[q]
  BY <1>2 DEF Live, q
<1> QED BY <1>6, <1>7, <1>8

LEMMA StepKeepsCreated ==
  ASSUME RequestInv, OneBirth, NEW t \in Threads, ThreadStep(t),
         NEW id \in Ids, Live(id) # None, Live(id)' # None
  PROVE  Live(id)'.created = Live(id).created
<1>0. /\ ClaimTyped(t) /\ index \in Index /\ data \in Data
  BY ClaimsTyped DEF RequestInv, TypeOK, StorageTypeOK
<1>1. CASE UNCHANGED <<index, data>>
  BY <1>1 DEF Live, EncodeIndexKey
<1>2. CASE Store(t)
  <2> DEFINE k == Claim(t)
  <2>1. /\ k = PrimaryKey(entry[t]) /\ k # None /\ entry[t] \in Entry /\ k[2] = entry[t].id
        /\ k \in CompositeKeys /\ k[2] \in Ids
    BY <1>0, <1>2, CompositeKeyId DEF ClaimTyped, Store
  <2>2. /\ index' = [index EXCEPT ![EncodeIndexKey(k[2])] = k]
        /\ data' = [data EXCEPT ![k] = entry[t]]
    BY <1>2, <2>1 DEF Store, StoreEntry
  <2>3. CASE id # k[2]
    BY <2>1, <2>2, <2>3, WriteKeepsOthers
  <2>4. CASE id = k[2]
    <3>1. index[EncodeIndexKey(id)] = k /\ data[k] = Live(id)
      BY <2>1, <2>4 DEF OneBirth, ClaimSound, Live
    <3>2. data[k] \in Entry /\ PrimaryKey(data[k]) = k
      BY <1>0, <2>1, <3>1 DEF OneBirth, RowsFiled, Data
    <3>3. Live(id)' = entry[t]
      <4>1. index'[EncodeIndexKey(id)] = k /\ data'[k] = entry[t]
        BY <1>0, <2>1, <2>2, <2>4, IndexKeyBijection DEF Index, Data
      <4> HIDE DEF k
      <4> QED BY <2>1, <4>1 DEF Live, EncodeIndexKey
    <3> QED BY <2>1, <3>1, <3>2, <3>3, PrimaryKeyCreated
  <2> QED BY <2>3, <2>4
<1>3. CASE Erase(t)
  <2> DEFINE k == Claim(t)
  <2>1. /\ k # None /\ k \in CompositeKeys /\ k[2] \in Ids
        /\ cursor[t].primary_key = k /\ cursor[t].index_key = EncodeIndexKey(k[2])
    BY <1>0, <1>3, CompositeKeyId DEF ClaimTyped, Erase
  <2>2. /\ index' = [index EXCEPT ![EncodeIndexKey(k[2])] = None]
        /\ data' = [data EXCEPT ![k] = None]
    BY <1>3, <2>1 DEF Erase, DeleteRows
  <2>3. CASE id # k[2]
    BY <2>1, <2>2, <2>3, WriteKeepsOthers
  <2>4. CASE id = k[2]
    <3>1. index'[EncodeIndexKey(id)] = None
      BY <1>0, <2>1, <2>2, <2>4, IndexKeyBijection DEF Index
    <3> QED BY <3>1 DEF Live, EncodeIndexKey
  <2> QED BY <2>3, <2>4
<1>4. UNCHANGED <<index, data>> \/ Store(t) \/ Erase(t)
  BY DEF ThreadStep, Proceed, Refuse, Accept, PrepareEntry, AssignId, GetNextId, Miss, Lookup,
         LookupIndex, FetchMiss, FetchRead, FetchOld, FetchRow, Stamp, IoError, storageVars
<1> QED BY <1>1, <1>2, <1>3, <1>4

(***************************************************************************)
(* created_at never changes while an entry lives: no interleaving of       *)
(* UPDATEs and DELETEs of one id gives it the creation time of another     *)
(* life, whatever the clock does.                                          *)
(***************************************************************************)
THEOREM CreationTimesKept ==
  ASSUME CreateIds = {0}
  PROVE  Spec /\ []IdsLeft => CreationTimeKept
<1>1. RequestInv /\ OneBirth =>
        [(\E t \in Threads : ThreadStep(t)) =>
           \A id \in Ids : Live(id) # None /\ Live(id)' # None =>
                             Live(id)'.created = Live(id).created]_vars
  BY StepKeepsCreated
<1> QED BY <1>1, BirthsInvariance, PTL DEF Spec, CreationTimeKept

-----------------------------------------------------------------------------
(* Created no later than updated, and neither after now. *)
InOrder(e, now) ==
  /\ ToEpochMicros(e.created) <= ToEpochMicros(e.updated)
  /\ ToEpochMicros(e.created) <= now
  /\ ToEpochMicros(e.updated) <= now

(***************************************************************************)
(* The inductive invariant about times: an UPDATE stamps what it has read, *)
(* possibly long ago, so the rows, the rows on disk and the entries that   *)
(* threads hold must all be no younger than the clock.                     *)
(***************************************************************************)
TimesInOrder ==
  /\ \A k \in CompositeKeys : /\ data[k] # None => InOrder(data[k], clock)
                              /\ durable.data[k] # None => InOrder(durable.data[k], clock)
  /\ \A t \in Threads : entry[t] # None => InOrder(entry[t], clock)

(* An entry that is in order stays so while the clock does not go back. *)
LEMMA StaysInOrder ==
  ASSUME NEW e \in Entry, NEW now \in Times, NEW later \in Times, now <= later,
         InOrder(e, now)
  PROVE  InOrder(e, later)
<1>1. PICK m \in Times, n \in Times : e.created = Timestamp(m) /\ e.updated = Timestamp(n)
  BY DEF Entry, Timestamps
<1>2. /\ m \in Nat /\ n \in Nat /\ now \in Nat /\ later \in Nat
      /\ ToEpochMicros(e.created) = m /\ ToEpochMicros(e.updated) = n
  BY <1>1, StorageAssumption, TimestampRoundTrip
<1> QED BY <1>2 DEF InOrder

LEMMA ThreadKeepsOrder ==
  ASSUME RequestInv, RequestInv', TimesInOrder, NEW t \in Threads, ThreadStep(t)
  PROVE  TimesInOrder'
<1>0. /\ TypeOK /\ ThreadSound(t) /\ ClaimTyped(t) /\ OthersKept(t) /\ durable' = durable
      /\ data \in Data /\ clock \in Nat /\ clock' = clock
  <2>1. clock' = clock
    BY DEF ThreadStep, Proceed, Refuse, Accept, PrepareEntry, AssignId, Store, Miss, Lookup,
           FetchMiss, FetchRead, FetchOld, Stamp, Erase, IoError
  <2> QED BY <2>1, ClaimsTyped, ThreadFrame, StorageAssumption DEF RequestInv, TypeOK, StorageTypeOK
<1>2. entry'[t] # None => InOrder(entry'[t], clock)
  <2>1. ToEpochMicros(Timestamp(clock)) = clock
    BY <1>0, TimestampRoundTrip
  <2>2. CASE PrepareEntry(t)
    <3>1. entry'[t].created = Timestamp(clock) /\ entry'[t].updated = Timestamp(clock)
      BY <1>0, <2>2 DEF PrepareEntry, TypeOK
    <3> QED BY <1>0, <2>1, <3>1 DEF InOrder
  <2>3. CASE Stamp(t)
    <3>1. entry'[t].created = entry[t].created /\ entry'[t].updated = Timestamp(clock)
      BY <1>0, <2>3 DEF Stamp, TypeOK
    <3>2. ToEpochMicros(entry[t].created) <= clock
      BY <1>0, <2>3 DEF Stamp, ThreadSound, TimesInOrder, InOrder
    <3> QED BY <1>0, <2>1, <3>1, <3>2 DEF InOrder
  <2>4. CASE AssignId(t)
    <3>1. entry[t] \in Entry
      BY <1>0, <2>4 DEF AssignId, ThreadSound, TypeOK
    <3>2. entry'[t].created = entry[t].created /\ entry'[t].updated = entry[t].updated
      BY <1>0, <2>4, <3>1 DEF AssignId, TypeOK, Entry
    <3>3. entry[t] # None
      BY <1>0, <2>4 DEF AssignId, ThreadSound
    <3>4. InOrder(entry[t], clock)
      BY <3>3 DEF TimesInOrder
    <3> QED BY <3>2, <3>4 DEF InOrder
  <2>5. CASE FetchOld(t)
    <3>1. entry'[t] = data[Claim(t)] /\ Claim(t) \in CompositeKeys
      BY <1>0, <2>5 DEF FetchOld, FoundRow, ClaimTyped, TypeOK
    <3> QED BY <3>1 DEF TimesInOrder
  <2>6. ASSUME NEW r \in Requests, Accept(t, r)
        PROVE  entry' = entry
    BY <2>6 DEF Accept
  <2>7. CASE Lookup(t)
    BY <2>7 DEF Lookup, TimesInOrder
  <2>8. ASSUME NEW r \in Requests, Refuse(t, r)
        PROVE  entry'[t] = None
    BY <1>0, <2>8 DEF Refuse, Reply, TypeOK
  <2>9. CASE Store(t) \/ Miss(t) \/ FetchMiss(t) \/ FetchRead(t) \/ Erase(t) \/ IoError(t)
    BY <1>0, <2>9 DEF Store, Miss, FetchMiss, FetchRead, Erase, IoError, Reply, TypeOK
  <2> QED BY <2>2, <2>3, <2>4, <2>5, <2>6, <2>7, <2>8, <2>9 DEF ThreadStep, Proceed, TimesInOrder
<1>3. \A k \in CompositeKeys : data'[k] # None => InOrder(data'[k], clock)
  <2>1. CASE Store(t)
    <3>1. InOrder(entry[t], clock) /\ data' = [data EXCEPT ![PrimaryKey(entry[t])] = entry[t]]
      BY <1>0, <2>1 DEF Store, StoreEntry, ThreadSound, TimesInOrder
    <3> QED BY <1>0, <3>1 DEF TimesInOrder, Data
  <2>2. CASE Erase(t)
    <3>1. data' = [data EXCEPT ![cursor[t].primary_key] = None]
      BY <2>2 DEF Erase, DeleteRows
    <3> QED BY <1>0, <3>1 DEF TimesInOrder, Data
  <2>3. CASE UNCHANGED data
    BY <2>3 DEF TimesInOrder
  <2>4. UNCHANGED data \/ Store(t) \/ Erase(t)
    BY DEF ThreadStep, Proceed, Refuse, Accept, PrepareEntry, AssignId, GetNextId, Miss, Lookup,
           LookupIndex, FetchMiss, FetchRead, FetchOld, FetchRow, Stamp, IoError, storageVars
  <2> QED BY <2>1, <2>2, <2>3, <2>4
<1>4. \A u \in Threads : entry'[u] # None => InOrder(entry'[u], clock)
  BY <1>0, <1>2 DEF OthersKept, TimesInOrder
<1> QED BY <1>0, <1>3, <1>4 DEF TimesInOrder

LEMMA OrderInvariance ==
  ASSUME ClockStepsBack = FALSE
  PROVE  Spec => [](RequestInv /\ TimesInOrder)
<1>1. Init => TimesInOrder
  BY DEF Init, StorageInit, TimesInOrder
<1>2. RequestInv /\ TimesInOrder /\ [Next]_vars => RequestInv' /\ TimesInOrder'
  <2> SUFFICES ASSUME RequestInv, TimesInOrder, [Next]_vars
               PROVE  RequestInv' /\ TimesInOrder'
    OBVIOUS
  <2>1. RequestInv'
    BY RequestStepInv
  <2>2. CASE \E t \in Threads : ThreadStep(t)
    BY <2>1, <2>2, ThreadKeepsOrder
  <2>3. CASE Tick \/ ProcessRestart \/ MachineRestart \/ Sync \/ UNCHANGED vars
    <3>1. clock \in Times /\ clock' \in Times /\ clock <= clock'
      <4>1. clock \in Times /\ clock' \in Times
        BY <2>1 DEF RequestInv, TypeOK
      <4>2. clock' = clock \/ clock' > clock
        BY <2>3 DEF Tick, ProcessRestart, MachineRestart, Die, Sync, vars
      <4> QED BY <4>1, <4>2, StorageAssumption
    <3>2. \A e \in Entry : InOrder(e, clock) => InOrder(e, clock')
      BY <3>1, StaysInOrder
    <3>3. /\ data' \in {data, durable.data}
          /\ durable'.data \in {data, durable.data}
          /\ entry' = entry \/ entry' = [t \in Threads |-> None]
      BY <2>3 DEF Tick, ProcessRestart, MachineRestart, Die, Sync, Reopen, PowerLoss, Flush,
                  vars, storageVars, threadVars
    <3>4. data \in Data /\ durable.data \in Data /\ entry \in [Threads -> Entry \cup {None}]
      BY DEF RequestInv, TypeOK, StorageTypeOK
    <3>5. \A k \in CompositeKeys :
            /\ data'[k] # None => data'[k] \in Entry /\ InOrder(data'[k], clock)
            /\ durable'.data[k] # None => durable'.data[k] \in Entry /\ InOrder(durable'.data[k], clock)
      BY <3>3, <3>4 DEF TimesInOrder, Data
    <3>6. \A t \in Threads : entry'[t] # None => entry'[t] \in Entry /\ InOrder(entry'[t], clock)
      BY <3>3, <3>4 DEF TimesInOrder
    <3>7. TimesInOrder'
      BY <3>2, <3>5, <3>6 DEF TimesInOrder
    <3> QED BY <2>1, <3>7
  <2> QED BY <2>1, <2>2, <2>3 DEF Next
<1> QED BY <1>1, <1>2, RequestInitInv, PTL DEF Spec

(***************************************************************************)
(* As long as the clock is not set back, no reader gets an entry that was  *)
(* updated before it was created: not after races of UPDATEs, DELETEs and  *)
(* CREATEs of one id, not after errors, restarts and power losses.         *)
(***************************************************************************)
THEOREM UpdatesFollowCreation ==
  ASSUME ClockStepsBack = FALSE
  PROVE  Spec => []UpdatedAfterCreated
<1>1. RequestInv /\ TimesInOrder => UpdatedAfterCreated
  <2> SUFFICES ASSUME RequestInv, TimesInOrder, NEW id \in Ids, Live(id) # None
               PROVE  InOrder(Live(id), clock)
    BY DEF UpdatedAfterCreated, InOrder
  <2>1. /\ index[EncodeIndexKey(id)] \in CompositeKeys
        /\ Live(id) = data[index[EncodeIndexKey(id)]]
    BY IndexKeyBijection DEF RequestInv, TypeOK, StorageTypeOK, Index, Live
  <2> QED BY <2>1 DEF TimesInOrder
<1> QED BY <1>1, OrderInvariance, PTL
=============================================================================
