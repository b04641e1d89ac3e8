------------------------ MODULE StorageManagerProofs ------------------------
(***************************************************************************)
(* Theorems about StorageManager, for every number of threads, every width *)
(* of ids and timestamps, and every set of clock readings, under any use   *)
(* of the storage at all; the runs check them as the server uses it.       *)
(***************************************************************************)
EXTENDS StorageManager, WellFoundedInduction, TLAPS

(* A timestamp keeps the microseconds it was made from. *)
LEMMA TimestampRoundTrip ==
  ASSUME NEW m \in Nat
  PROVE  ToEpochMicros(Timestamp(m)) = m
<1>1. /\ m = (m \div 1000000) * 1000000 + (m % 1000000)
      /\ m \div 1000000 \in Nat
      /\ m % 1000000 \in Nat
  OBVIOUS
<1>2. \A r \in Nat : (r * 1000) \div 1000 = r
  OBVIOUS
<1> QED BY <1>1, <1>2 DEF ToEpochMicros, Timestamp

(* Index keys and ids are in bijection. *)
LEMMA IndexKeyBijection ==
  /\ \A id \in Ids : /\ EncodeIndexKey(id) \in IndexKeys
                     /\ DecodeIndexKey(EncodeIndexKey(id)) = id
  /\ \A k \in IndexKeys : /\ DecodeIndexKey(k) \in Ids
                          /\ EncodeIndexKey(DecodeIndexKey(k)) = k
                          /\ k \in Nat
BY StorageAssumption, SMT DEF Ids, IndexKeys, EncodeIndexKey, DecodeIndexKey

(* The primary key of an entry is a key of data_cf. *)
LEMMA PrimaryKeyType ==
  ASSUME NEW e \in Entry
  PROVE  PrimaryKey(e) \in CompositeKeys
BY DEF PrimaryKey, CompositeKeys, Entry

(* The primary key of an entry determines its id. *)
LEMMA PrimaryKeyId ==
  ASSUME NEW e \in Entry
  PROVE  PrimaryKey(e)[2] = e.id
BY DEF PrimaryKey, EncodeCompositeKey

(* A non-empty set of naturals has a least element: the first key that an  *)
(* iterator finds.                                                         *)
LEMMA LeastKey ==
  ASSUME NEW S \in SUBSET Nat, S # {}
  PROVE  /\ Min(S) \in S
         /\ \A k \in S : Min(S) <= k
<1>1. PICK x \in S : \A y \in S : ~ (<<y, x>> \in OpToRel(<, Nat))
  <2>1. IsWellFoundedOn(OpToRel(<, Nat), Nat)
    BY NatLessThanWellFounded
  <2> QED BY <2>1, WFMin
<1>2. ASSUME NEW y \in S PROVE x <= y
  <2>1. ~ (y < x)
    BY <1>1 DEF OpToRel
  <2> QED BY <2>1, SMT
<1>3. \E z \in S : \A y \in S : z =< y
  BY <1>2
<1> QED BY <1>3 DEF Min

-----------------------------------------------------------------------------
(***************************************************************************)
(* The inductive invariant.  IndexSound alone is not inductive: a delete   *)
(* erases the primary key that its lookup remembered, and it is harmless   *)
(* to other ids only because that key carries the id of the lookup, even   *)
(* when the index has moved on.                                            *)
(***************************************************************************)
CursorSound ==
  \A t \in Threads :
    cursor[t] # None =>
      cursor[t].primary_key[2] = DecodeIndexKey(cursor[t].index_key)

StorageInv == StorageTypeOK /\ IndexSound /\ DurableSound /\ CursorSound

(* Storing an entry keeps a store sound: its primary key belongs to its id. *)
LEMMA StoreKeepsSound ==
  ASSUME NEW idx \in Index, NEW rows \in Data, SoundStore(idx, rows),
         NEW e \in Entry
  PROVE  SoundStore([idx EXCEPT ![EncodeIndexKey(e.id)] = PrimaryKey(e)],
                    [rows EXCEPT ![PrimaryKey(e)] = e])
<1> DEFINE pk == PrimaryKey(e)
           ik == EncodeIndexKey(e.id)
           idx2 == [idx EXCEPT ![ik] = pk]
           rows2 == [rows EXCEPT ![pk] = e]
<1>1. /\ pk \in CompositeKeys /\ pk # None /\ pk[2] = e.id
      /\ e.id \in Ids /\ ik \in IndexKeys /\ e # None
  BY PrimaryKeyType, PrimaryKeyId, IndexKeyBijection, StorageAssumption DEF Entry
<1>2. SUFFICES ASSUME NEW k \in IndexKeys, idx2[k] # None
               PROVE  /\ rows2[idx2[k]] # None
                      /\ rows2[idx2[k]].id = DecodeIndexKey(k)
                      /\ PrimaryKey(rows2[idx2[k]]) = idx2[k]
  BY DEF SoundStore
<1>3. CASE k = ik
  <2>1. idx2[k] = pk /\ rows2[pk] = e
    BY <1>1, <1>3 DEF Index, Data
  <2> QED BY <2>1, <1>1, <1>3, IndexKeyBijection
<1>4. CASE k # ik
  <2>1. idx2[k] = idx[k] /\ idx[k] # None /\ idx[k] \in CompositeKeys
    BY <1>1, <1>2, <1>4 DEF Index
  <2>2. /\ rows[idx[k]] # None
        /\ rows[idx[k]].id = DecodeIndexKey(k)
        /\ PrimaryKey(rows[idx[k]]) = idx[k]
    BY <2>1 DEF SoundStore
  <2>3. rows[idx[k]] \in Entry
    BY <2>1, <2>2 DEF Data
  <2>4. idx[k][2] = DecodeIndexKey(k)
    BY <2>2, <2>3, PrimaryKeyId
  <2>5. DecodeIndexKey(k) # e.id
    BY <1>4, IndexKeyBijection
  <2>6. idx[k] # pk
    BY <2>4, <2>5, <1>1
  <2>7. rows2[idx[k]] = rows[idx[k]]
    BY <2>1, <2>6 DEF Data
  <2> QED BY <2>1, <2>2, <2>7
<1> QED BY <1>3, <1>4

(* Erasing an index entry and any row of the same id keeps a store sound. *)
LEMMA EraseKeepsSound ==
  ASSUME NEW idx \in Index, NEW rows \in Data, SoundStore(idx, rows),
         NEW ik \in IndexKeys, NEW pk \in CompositeKeys,
         pk[2] = DecodeIndexKey(ik)
  PROVE  SoundStore([idx EXCEPT ![ik] = None], [rows EXCEPT ![pk] = None])
<1> DEFINE idx2 == [idx EXCEPT ![ik] = None]
           rows2 == [rows EXCEPT ![pk] = None]
<1>1. SUFFICES ASSUME NEW k \in IndexKeys, idx2[k] # None
               PROVE  /\ rows2[idx2[k]] # None
                      /\ rows2[idx2[k]].id = DecodeIndexKey(k)
                      /\ PrimaryKey(rows2[idx2[k]]) = idx2[k]
  BY DEF SoundStore
<1>2. k # ik /\ idx2[k] = idx[k] /\ idx[k] # None /\ idx[k] \in CompositeKeys
  BY <1>1 DEF Index
<1>3. /\ rows[idx[k]] # None
      /\ rows[idx[k]].id = DecodeIndexKey(k)
      /\ PrimaryKey(rows[idx[k]]) = idx[k]
  BY <1>2 DEF SoundStore
<1>4. rows[idx[k]] \in Entry
  BY <1>2, <1>3 DEF Data
<1>5. idx[k][2] = DecodeIndexKey(k)
  BY <1>3, <1>4, PrimaryKeyId
<1>6. DecodeIndexKey(k) # DecodeIndexKey(ik)
  BY <1>2, IndexKeyBijection
<1>7. rows2[idx[k]] = rows[idx[k]]
  BY <1>2, <1>5, <1>6 DEF Data
<1> QED BY <1>2, <1>3, <1>7

(* The counter that a store is opened with: an id, and none below it. *)
LEMMA LastIdBound ==
  ASSUME NEW idx \in Index
  PROVE  /\ LastId(idx) \in Ids
         /\ \A id \in Ids : idx[EncodeIndexKey(id)] # None => id <= LastId(idx)
<1> DEFINE present == {k \in IndexKeys : idx[k] # None}
<1>1. CASE present = {}
  <2>1. LastId(idx) = 0 /\ 0 \in Ids
    BY <1>1, StorageAssumption DEF LastId, Ids
  <2> QED BY <2>1, <1>1, IndexKeyBijection
<1>2. CASE present # {}
  <2>1. present \in SUBSET Nat
    BY IndexKeyBijection
  <2>2. Min(present) \in IndexKeys /\ \A k \in present : Min(present) <= k
    BY <1>2, <2>1, LeastKey
  <2>3. LastId(idx) = DecodeIndexKey(Min(present))
    BY <1>2 DEF LastId
  <2>4. ASSUME NEW id \in Ids, idx[EncodeIndexKey(id)] # None
        PROVE  id <= LastId(idx)
    <3>1. EncodeIndexKey(id) \in present
      BY <2>4, IndexKeyBijection
    <3>2. Min(present) <= EncodeIndexKey(id) /\ Min(present) \in Nat
      BY <3>1, <2>2, IndexKeyBijection
    <3> QED BY <3>2, <2>3, StorageAssumption DEF EncodeIndexKey, DecodeIndexKey, Ids
  <2> QED BY <2>2, <2>3, <2>4, IndexKeyBijection
<1> QED BY <1>1, <1>2

-----------------------------------------------------------------------------
LEMMA StorageInitInv == StorageInit => StorageInv
<1> SUFFICES ASSUME StorageInit PROVE StorageInv
  OBVIOUS
<1> USE DEF StorageInit
<1>1. StorageTypeOK
  BY StorageAssumption DEF StorageTypeOK, Index, Data, Ids
<1>2. IndexSound /\ DurableSound
  BY DEF IndexSound, DurableSound, SoundStore
<1>3. CursorSound
  BY DEF CursorSound
<1> QED BY <1>1, <1>2, <1>3 DEF StorageInv

LEMMA StorageStepInv == StorageInv /\ [StorageNext]_storageVars => StorageInv'
<1> SUFFICES ASSUME StorageInv, [StorageNext]_storageVars
             PROVE  StorageInv'
  OBVIOUS
<1>0. /\ StorageTypeOK /\ IndexSound /\ DurableSound /\ CursorSound
      /\ index \in Index /\ data \in Data
      /\ durable.index \in Index /\ durable.data \in Data
  BY DEF StorageInv, StorageTypeOK
<1>1. ASSUME NEW e \in Entry, StoreEntry(e)
      PROVE  StorageInv'
  <2>1. PrimaryKey(e) \in CompositeKeys /\ EncodeIndexKey(e.id) \in IndexKeys
    BY PrimaryKeyType, IndexKeyBijection DEF Entry
  <2>2. StorageTypeOK'
    BY <1>0, <1>1, <2>1 DEF StorageTypeOK, StoreEntry, Index, Data
  <2>3. IndexSound'
    BY <1>0, <1>1, StoreKeepsSound DEF IndexSound, StoreEntry
  <2>4. DurableSound' /\ CursorSound'
    BY <1>0, <1>1 DEF DurableSound, CursorSound, StoreEntry
  <2> QED BY <2>2, <2>3, <2>4 DEF StorageInv
<1>2. ASSUME NEW t \in Threads, NEW id \in Ids, LookupIndex(t, id)
      PROVE  StorageInv'
  <2> DEFINE ik == EncodeIndexKey(id)
  <2>1. /\ ik \in IndexKeys /\ index[ik] # None
        /\ index[ik] \in CompositeKeys
    BY <1>0, <1>2, IndexKeyBijection DEF LookupIndex, Index
  <2>2. StorageTypeOK'
    BY <1>0, <1>2, <2>1 DEF StorageTypeOK, LookupIndex, Cursor
  <2>3. /\ data[index[ik]] \in Entry
        /\ data[index[ik]].id = DecodeIndexKey(ik)
        /\ PrimaryKey(data[index[ik]]) = index[ik]
    BY <1>0, <2>1 DEF IndexSound, SoundStore, Data
  <2>4. index[ik][2] = DecodeIndexKey(ik)
    BY <2>3, PrimaryKeyId
  <2>5. CursorSound'
    BY <1>0, <1>2, <2>4 DEF CursorSound, LookupIndex, StorageTypeOK
  <2>6. IndexSound' /\ DurableSound'
    BY <1>0, <1>2 DEF IndexSound, DurableSound, LookupIndex
  <2> QED BY <2>2, <2>5, <2>6 DEF StorageInv
<1>3. ASSUME NEW t \in Threads, FetchRow(t)
      PROVE  StorageInv'
  BY <1>0, <1>3
     DEF StorageInv, StorageTypeOK, IndexSound, DurableSound, CursorSound, FetchRow
<1>4. ASSUME NEW t \in Threads, DeleteRows(t)
      PROVE  StorageInv'
  <2>1. /\ cursor[t] \in Cursor
        /\ cursor[t].index_key \in IndexKeys
        /\ cursor[t].primary_key \in CompositeKeys
        /\ cursor[t].primary_key[2] = DecodeIndexKey(cursor[t].index_key)
    BY <1>0, <1>4 DEF StorageTypeOK, CursorSound, DeleteRows, Cursor
  <2>2. StorageTypeOK'
    BY <1>0, <1>4, <2>1 DEF StorageTypeOK, DeleteRows, Index, Data
  <2>3. IndexSound'
    BY <1>0, <1>4, <2>1, EraseKeepsSound DEF IndexSound, DeleteRows
  <2>4. DurableSound' /\ CursorSound'
    BY <1>0, <1>4 DEF DurableSound, CursorSound, DeleteRows, StorageTypeOK
  <2> QED BY <2>2, <2>3, <2>4 DEF StorageInv
<1>5. CASE GetNextId
  <2>1. counter' \in Ids
    BY <1>0, <1>5, StorageAssumption DEF StorageTypeOK, GetNextId, Ids
  <2> QED BY <1>0, <1>5, <2>1
          DEF StorageInv, StorageTypeOK, IndexSound, DurableSound, CursorSound, GetNextId
<1>6. CASE Reopen
  <2>1. counter' \in Ids
    BY <1>0, <1>6, LastIdBound DEF Reopen
  <2> QED BY <1>0, <1>6, <2>1
          DEF StorageInv, StorageTypeOK, IndexSound, DurableSound, CursorSound, Reopen
<1>7. CASE Flush
  BY <1>0, <1>7
     DEF StorageInv, StorageTypeOK, IndexSound, DurableSound, CursorSound, Flush
<1>8. CASE PowerLoss
  <2>1. counter' \in Ids
    BY <1>0, <1>8, LastIdBound DEF PowerLoss
  <2> QED BY <1>0, <1>8, <2>1
          DEF StorageInv, StorageTypeOK, IndexSound, DurableSound, CursorSound, PowerLoss
<1>9. CASE UNCHANGED storageVars
  BY <1>0, <1>9
     DEF StorageInv, StorageTypeOK, IndexSound, DurableSound, CursorSound, storageVars
<1> QED BY <1>1, <1>2, <1>3, <1>4, <1>5, <1>6, <1>7, <1>8, <1>9 DEF StorageNext

LEMMA StorageInvariance == StorageSpec => []StorageInv
BY StorageInitInv, StorageStepInv, PTL DEF StorageSpec

(***************************************************************************)
(* Every value the storage computes has its type: keys stay in the key     *)
(* space, the counter stays an id through wrap-around and recovery.        *)
(***************************************************************************)
THEOREM StorageTypeCorrect == StorageSpec => []StorageTypeOK
<1>1. StorageInv => StorageTypeOK
  BY DEF StorageInv
<1> QED BY <1>1, StorageInvariance, PTL

(***************************************************************************)
(* The index never leads to a missing row or to a row of another id,       *)
(* however the two steps of reads and deletes of any number of threads     *)
(* interleave with writes, restarts and power losses.                      *)
(***************************************************************************)
THEOREM IndexAlwaysSound == StorageSpec => []IndexSound
<1>1. StorageInv => IndexSound
  BY DEF StorageInv
<1> QED BY <1>1, StorageInvariance, PTL

(* What is on disk at any moment is sound, so a power loss leaves a sound store. *)
THEOREM DiskAlwaysSound == StorageSpec => []DurableSound
<1>1. StorageInv => DurableSound
  BY DEF StorageInv
<1> QED BY <1>1, StorageInvariance, PTL

(***************************************************************************)
(* A store that is opened again sets the counter to an id that is not      *)
(* below any id it holds: the constructor's seek to the first index key    *)
(* finds the largest id.                                                   *)
(***************************************************************************)
THEOREM CounterAlwaysRecovered == StorageSpec => CounterRecovered
<1> DEFINE Covered == Reopen \/ PowerLoss =>
                        \A id \in Ids : index'[EncodeIndexKey(id)] # None => id <= counter'
<1>1. StorageInv /\ [StorageNext]_storageVars => [Covered]_storageVars
  <2> SUFFICES ASSUME StorageInv, Reopen \/ PowerLoss
               PROVE  \A id \in Ids : index'[EncodeIndexKey(id)] # None => id <= counter'
    OBVIOUS
  <2>1. index \in Index /\ durable.index \in Index
    BY DEF StorageInv, StorageTypeOK
  <2>2. CASE Reopen
    BY <2>1, <2>2, LastIdBound DEF Reopen
  <2>3. CASE PowerLoss
    BY <2>1, <2>3, LastIdBound DEF PowerLoss
  <2> QED BY <2>2, <2>3
<1> QED BY <1>1, StorageInvariance, PTL DEF StorageSpec, CounterRecovered
=============================================================================
