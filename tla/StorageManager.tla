--------------------------- MODULE StorageManager ---------------------------
(***************************************************************************)
(* The storage layer of RegistaDB (regista_db/src/StorageManager.cpp): two *)
(* RocksDB column families and an id counter, used without any lock by     *)
(* every thread of the process.                                            *)
(*                                                                         *)
(*   index   the column family index_cf: encoded id -> composite key       *)
(*   data    the column family data_cf:  composite key -> Entry            *)
(*   counter global_id_counter_, a std::atomic<uint64_t>                   *)
(*                                                                         *)
(* GetEntryById and DeleteEntryById each make two RocksDB calls, so they   *)
(* are two steps here: other threads run between them.  A WriteBatch is    *)
(* one step.  RocksDB itself is external: Get, Put, Delete and iteration   *)
(* in key order are what StorageManager.cpp relies on, and with            *)
(* WriteOptions() (no sync) a write survives the death of the process but  *)
(* only reaches the disk at some later moment (durable, Flush, PowerLoss). *)
(***************************************************************************)
EXTENDS Integers, FiniteSetsExt

CONSTANTS
  Threads,    \* threads that call the storage: the ZeroMQ loop and Drogon's workers
  IdMax,      \* UINT64_MAX, as the width of an id
  TsMax,      \* UINT64_MAX, as the width of a timestamp in microseconds
  Times,      \* the microseconds since the epoch the system clock may show
  Values,     \* payloads of an entry
  WalMayLag,  \* TRUE: the run also considers power losses
  None        \* no key, no row, no cursor

Ids == 0 .. IdMax

(***************************************************************************)
(* google::protobuf::Timestamp as the server fills it from microseconds,   *)
(* and the way back.                                                       *)
(***************************************************************************)
Timestamp(micros) ==
  [seconds |-> micros \div 1000000, nanos |-> (micros % 1000000) * 1000]

ToEpochMicros(ts) == ts.seconds * 1000000 + ts.nanos \div 1000

Timestamps == {Timestamp(m) : m \in Times}

Entry == [id : Ids, value : Values, created : Timestamps, updated : Timestamps]

-----------------------------------------------------------------------------
(***************************************************************************)
(* Keys.  Both are stored big-endian, so RocksDB's byte order is the order *)
(* of these numbers; ids (index) and timestamps (data) are reversed so     *)
(* that the newest comes first.                                            *)
(***************************************************************************)
EncodeIndexKey(id) == IdMax - id

DecodeIndexKey_Unreversed(key) == key

DecodeIndexKey(key) == IdMax - key

EncodeCompositeKey(ts, id) == <<TsMax - ts, id>>

PrimaryKey_Updated(e) == EncodeCompositeKey(ToEpochMicros(e.updated), e.id)

PrimaryKey(e) == EncodeCompositeKey(ToEpochMicros(e.created), e.id)

IndexKeys == {EncodeIndexKey(id) : id \in Ids}

CompositeKeys ==
  {EncodeCompositeKey(ToEpochMicros(ts), id) : ts \in Timestamps, id \in Ids}

ASSUME StorageAssumption ==
  /\ IdMax \in Nat \ {0}
  /\ TsMax \in Nat
  /\ Times \subseteq 0 .. TsMax
  /\ Times # {}
  /\ Values # {}
  /\ WalMayLag \in BOOLEAN
  /\ None \notin CompositeKeys
  /\ None \notin Entry
  /\ None \notin [index_key : IndexKeys, primary_key : CompositeKeys]

-----------------------------------------------------------------------------
VARIABLES index, data, counter,
          cursor,   \* the locals index_key and primary_key of a call between its two steps
          durable   \* what RocksDB has on disk: index and data as of some batch

storageVars == <<index, data, counter, cursor, durable>>

Cursor == [index_key : IndexKeys, primary_key : CompositeKeys]

Index == [IndexKeys -> CompositeKeys \cup {None}]
Data == [CompositeKeys -> Entry \cup {None}]

StorageTypeOK ==
  /\ index \in Index
  /\ data \in Data
  /\ counter \in Ids
  /\ cursor \in [Threads -> Cursor \cup {None}]
  /\ durable \in [index : Index, data : Data]

(* What a reader that runs alone gets for an id. *)
Live(id) ==
  LET key == index[EncodeIndexKey(id)]
  IN  IF key = None THEN None ELSE data[key]

(* The same in the state that is on disk. *)
LiveOnDisk(id) ==
  LET key == durable.index[EncodeIndexKey(id)]
  IN  IF key = None THEN None ELSE durable.data[key]

StorageInit ==
  /\ index = [k \in IndexKeys |-> None]
  /\ data = [k \in CompositeKeys |-> None]
  /\ counter = 0
  /\ cursor = [t \in Threads |-> None]
  /\ durable = [index |-> index, data |-> data]

-----------------------------------------------------------------------------
(* StoreEntry: one WriteBatch puts the index entry and the row. *)
StoreEntry_NoIndex(e) ==
  /\ data' = [data EXCEPT ![PrimaryKey(e)] = e]
  /\ UNCHANGED <<index, counter, cursor, durable>>

StoreEntry(e) ==
  /\ index' = [index EXCEPT ![EncodeIndexKey(e.id)] = PrimaryKey(e)]
  /\ data' = [data EXCEPT ![PrimaryKey(e)] = e]
  /\ UNCHANGED <<counter, cursor, durable>>

(* GetEntryById and DeleteEntryById, first step: Get on index_cf. *)
LookupIndex(t, id) ==
  /\ index[EncodeIndexKey(id)] # None
  /\ cursor' = [cursor EXCEPT ![t] =
                  [index_key |-> EncodeIndexKey(id),
                   primary_key |-> index[EncodeIndexKey(id)]]]
  /\ UNCHANGED <<index, data, counter, durable>>

(* GetEntryById, second step: Get on data_cf returns FoundRow(t). *)
FoundRow(t) == data[cursor[t].primary_key]

FetchRow(t) ==
  /\ cursor[t] # None
  /\ cursor' = [cursor EXCEPT ![t] = None]
  /\ UNCHANGED <<index, data, counter, durable>>

(* DeleteEntryById, second step: one WriteBatch deletes both. *)
DeleteRows_KeepIndex(t) ==
  /\ cursor[t] # None
  /\ data' = [data EXCEPT ![cursor[t].primary_key] = None]
  /\ cursor' = [cursor EXCEPT ![t] = None]
  /\ UNCHANGED <<index, counter, durable>>

DeleteRows(t) ==
  /\ cursor[t] # None
  /\ index' = [index EXCEPT ![cursor[t].index_key] = None]
  /\ data' = [data EXCEPT ![cursor[t].primary_key] = None]
  /\ cursor' = [cursor EXCEPT ![t] = None]
  /\ UNCHANGED <<counter, durable>>

(* GetNextId: ++global_id_counter_, modulo 2^64. *)
GetNextId ==
  /\ counter' = (counter + 1) % (IdMax + 1)
  /\ UNCHANGED <<index, data, cursor, durable>>

-----------------------------------------------------------------------------
(***************************************************************************)
(* The constructor sets the counter to the first id of index_cf in key     *)
(* order, which the reversal makes the largest id, or to 0.                *)
(***************************************************************************)
LastId(idx) ==
  LET present == {k \in IndexKeys : idx[k] # None}
  IN  IF present = {} THEN 0 ELSE DecodeIndexKey(Min(present))

(* The process dies and a new one opens the store: the log holds every write. *)
Reopen ==
  /\ counter' = LastId(index)
  /\ cursor' = [t \in Threads |-> None]
  /\ UNCHANGED <<index, data, durable>>

(* RocksDB's log reaches the disk, up to the last batch written. *)
Flush ==
  /\ WalMayLag
  /\ durable' = [index |-> index, data |-> data]
  /\ UNCHANGED <<index, data, counter, cursor>>

(* The machine dies: the store is opened on what had reached the disk. *)
PowerLoss ==
  /\ WalMayLag
  /\ index' = durable.index
  /\ data' = durable.data
  /\ counter' = LastId(durable.index)
  /\ cursor' = [t \in Threads |-> None]
  /\ UNCHANGED durable

StorageNext ==
  \/ \E e \in Entry : StoreEntry(e)
  \/ \E t \in Threads : \/ \E id \in Ids : LookupIndex(t, id)
                        \/ FetchRow(t)
                        \/ DeleteRows(t)
  \/ GetNextId
  \/ Reopen
  \/ Flush
  \/ PowerLoss

StorageSpec == StorageInit /\ [][StorageNext]_storageVars

-----------------------------------------------------------------------------
(***************************************************************************)
(* An index entry leads to a row that exists, carries that id, and is      *)
(* filed under its own creation time.  It must survive every interleaving  *)
(* of the two-step calls: a delete that works with a stale primary key may *)
(* remove another row than the one the index names by then.                *)
(***************************************************************************)
SoundStore(idx, rows) ==
  \A k \in IndexKeys :
    idx[k] # None =>
      /\ rows[idx[k]] # None
      /\ rows[idx[k]].id = DecodeIndexKey(k)
      /\ PrimaryKey(rows[idx[k]]) = idx[k]

IndexSound == SoundStore(index, data)

(* What is on disk at any moment is sound too: a batch is all or nothing. *)
DurableSound == SoundStore(durable.index, durable.data)

(***************************************************************************)
(* A newly opened store never starts the counter below an id that is       *)
(* present, so the next generated id is not one of them (unless it wraps). *)
(***************************************************************************)
CounterRecovered ==
  [][Reopen \/ PowerLoss =>
       \A id \in Ids : index'[EncodeIndexKey(id)] # None => id <= counter']_storageVars
=============================================================================
