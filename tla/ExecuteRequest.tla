--------------------------- MODULE ExecuteRequest ---------------------------
(***************************************************************************)
(* RegistaServer::ExecuteRequest and PrepareEntry                          *)
(* (regista_db/src/RegistaServer.cpp).  The ZeroMQ thread runs them for    *)
(* the smart and the performance tunnel, and every Drogon worker runs them *)
(* for a REST call, all on one StorageManager and without a lock.  A step  *)
(* is one access to something shared: the system clock, the id counter,    *)
(* or one RocksDB call.                                                    *)
(***************************************************************************)
EXTENDS StorageManager

CONSTANTS
  CreateIds,      \* ids clients put in a CREATE; 0 asks the server for one
  KeyIds,         \* ids clients READ, UPDATE and DELETE
  MaxCalls,       \* bound: requests accepted
  MaxRestarts,    \* bound: deaths of the process or the machine
  MaxFaults,      \* bound: RocksDB calls that return an error
  ClockStepsBack  \* TRUE: the system clock may be set back

ClientEntry(ids) == [id : ids, value : Values]

Requests ==
       [op : {"CREATE"}, id : {0}, entry : ClientEntry(CreateIds) \cup {None}]
  \cup [op : {"UPDATE"}, id : {0}, entry : ClientEntry(KeyIds) \cup {None}]
  \cup [op : {"READ", "DELETE"}, id : KeyIds, entry : {None}]
  \cup [op : {"UNKNOWN"}, id : {0}, entry : {None}]

Responses ==
       [status : {"OK"}, entry : Entry \cup {None}]
  \cup [status : {"NOT_FOUND", "INVALID_ARGUMENT", "INTERNAL_ERROR"}, entry : {None}]

ASSUME RequestAssumption ==
  /\ CreateIds \subseteq Ids
  /\ KeyIds \subseteq Ids
  /\ MaxCalls \in Nat
  /\ MaxRestarts \in Nat
  /\ MaxFaults \in Nat
  /\ ClockStepsBack \in BOOLEAN
  /\ \A ids \in {CreateIds, KeyIds} : None \notin ClientEntry(ids)
  /\ None \notin Requests
  /\ None \notin Responses

VARIABLES
  clock,     \* std::chrono::system_clock, microseconds
  pc,        \* where each thread is
  request,   \* the Request it executes
  entry,     \* its local entry
  response,  \* the Response of its last request
  seen,      \* history: what Live(id of the request) has been since the call
  calls, restarts, faults   \* counters of the bounds

threadVars == <<pc, request, entry, response>>
bounds == <<calls, restarts, faults>>
vars == <<storageVars, clock, threadVars, seen, bounds>>

Steps == {"idle", "prepare", "nextId", "lookup", "fetch", "stamp", "store", "erase"}

TypeOK ==
  /\ StorageTypeOK
  /\ clock \in Times
  /\ pc \in [Threads -> Steps]
  /\ request \in [Threads -> Requests \cup {None}]
  /\ entry \in [Threads -> Entry \cup {None}]
  /\ response \in [Threads -> Responses \cup {None}]
  /\ seen \in [Threads -> SUBSET (Entry \cup {None})]
  /\ calls \in 0 .. MaxCalls
  /\ restarts \in 0 .. MaxRestarts
  /\ faults \in 0 .. MaxFaults

(* The id a READ, UPDATE or DELETE is about. *)
Target(r) == IF r.op = "UPDATE" THEN r.entry.id ELSE r.id

Reply(t, status, e) ==
  /\ pc' = [pc EXCEPT ![t] = "idle"]
  /\ response' = [response EXCEPT ![t] = [status |-> status, entry |-> e]]
  /\ request' = [request EXCEPT ![t] = None]
  /\ entry' = [entry EXCEPT ![t] = None]

Goto(t, step) ==
  /\ pc' = [pc EXCEPT ![t] = step]
  /\ UNCHANGED <<request, response>>

(* The store changed: every call in progress has now seen the new content  *)
(* of its id; t's own call is over.                                        *)
Observe(t) ==
  seen' = [u \in Threads |->
             CASE u = t -> {}
               [] u # t /\ pc[u] # "idle" /\ request[u].op # "CREATE" ->
                    seen[u] \cup {Live(Target(request[u]))'}
               [] OTHER -> seen[u]]

Forget(t) == seen' = [seen EXCEPT ![t] = {}]

-----------------------------------------------------------------------------
(* The early returns of ExecuteRequest. *)
Refused(r) ==
  \/ r.op \in {"CREATE", "UPDATE"} /\ r.entry = None
  \/ r.op = "UPDATE" /\ r.entry # None /\ r.entry.id = 0
  \/ r.op = "UNKNOWN"

Refuse(t, r) ==
  /\ pc[t] = "idle" /\ calls < MaxCalls
  /\ Refused(r)
  /\ calls' = calls + 1
  /\ Reply(t, "INVALID_ARGUMENT", None)
  /\ UNCHANGED <<storageVars, clock, seen, restarts, faults>>

Accept(t, r) ==
  /\ pc[t] = "idle" /\ calls < MaxCalls
  /\ ~Refused(r)
  /\ calls' = calls + 1
  /\ pc' = [pc EXCEPT ![t] = IF r.op = "CREATE" THEN "prepare" ELSE "lookup"]
  /\ request' = [request EXCEPT ![t] = r]
  /\ response' = [response EXCEPT ![t] = None]
  /\ seen' = [seen EXCEPT ![t] = IF r.op = "CREATE" THEN {} ELSE {Live(Target(r))}]
  /\ UNCHANGED <<storageVars, clock, entry, restarts, faults>>

(* PrepareEntry: the server's clock stamps the entry, whatever the client  *)
(* sent, then id 0 asks for an id.                                         *)
PrepareEntry(t) ==
  /\ pc[t] = "prepare"
  /\ LET new == request[t].entry
         now == Timestamp(clock)
     IN  /\ entry' = [entry EXCEPT ![t] = [id |-> new.id, value |-> new.value,
                                           created |-> now, updated |-> now]]
         /\ Goto(t, IF new.id = 0 THEN "nextId" ELSE "store")
  /\ UNCHANGED <<storageVars, clock, seen, bounds>>

AssignId_NotAtomic(t) ==
  /\ pc[t] = "nextId"
  /\ entry' = [entry EXCEPT ![t].id = (counter + 1) % (IdMax + 1)]
  /\ counter' \in {counter, (counter + 1) % (IdMax + 1)}
  /\ Goto(t, "store")
  /\ UNCHANGED <<index, data, cursor, durable, clock, seen, bounds>>

AssignId(t) ==
  /\ pc[t] = "nextId"
  /\ GetNextId
  /\ entry' = [entry EXCEPT ![t].id = counter']
  /\ Goto(t, "store")
  /\ UNCHANGED <<clock, seen, bounds>>

(* CREATE and UPDATE end with StoreEntry. *)
Store(t) ==
  /\ pc[t] = "store"
  /\ StoreEntry(entry[t])
  /\ Reply(t, "OK", entry[t])
  /\ Observe(t)
  /\ UNCHANGED <<clock, bounds>>

Miss_DeleteOK(t) ==
  /\ pc[t] = "lookup"
  /\ index[EncodeIndexKey(Target(request[t]))] = None
  /\ Reply(t, IF request[t].op = "DELETE" THEN "OK" ELSE "NOT_FOUND", None)
  /\ Forget(t)
  /\ UNCHANGED <<storageVars, clock, bounds>>

(* READ, UPDATE and DELETE start with the index: the entry is not there... *)
Miss(t) ==
  /\ pc[t] = "lookup"
  /\ index[EncodeIndexKey(Target(request[t]))] = None
  /\ Reply(t, "NOT_FOUND", None)
  /\ Forget(t)
  /\ UNCHANGED <<storageVars, clock, bounds>>

(* ...or it is, and its primary key is remembered for the next step. *)
Lookup(t) ==
  /\ pc[t] = "lookup"
  /\ LookupIndex(t, Target(request[t]))
  /\ Goto(t, IF request[t].op = "DELETE" THEN "erase" ELSE "fetch")
  /\ UNCHANGED <<clock, entry, seen, bounds>>

(* The row has gone since the lookup. *)
FetchMiss(t) ==
  /\ pc[t] = "fetch"
  /\ FoundRow(t) = None
  /\ FetchRow(t)
  /\ Reply(t, "NOT_FOUND", None)
  /\ Forget(t)
  /\ UNCHANGED <<clock, bounds>>

FetchRead(t) ==
  /\ pc[t] = "fetch" /\ request[t].op = "READ"
  /\ FoundRow(t) # None
  /\ FetchRow(t)
  /\ Reply(t, "OK", FoundRow(t))
  /\ Forget(t)
  /\ UNCHANGED <<clock, bounds>>

(* UPDATE keeps the row it found as old_entry. *)
FetchOld(t) ==
  /\ pc[t] = "fetch" /\ request[t].op = "UPDATE"
  /\ FoundRow(t) # None
  /\ FetchRow(t)
  /\ entry' = [entry EXCEPT ![t] = FoundRow(t)]
  /\ Goto(t, "stamp")
  /\ UNCHANGED <<clock, seen, bounds>>

(* UPDATE: the client's entry, updated now, created when old_entry was. *)
Stamp_AllNew(t) ==
  /\ pc[t] = "stamp"
  /\ entry' = [entry EXCEPT ![t] =
                 [id |-> request[t].entry.id, value |-> request[t].entry.value,
                  created |-> Timestamp(clock), updated |-> Timestamp(clock)]]
  /\ Goto(t, "store")
  /\ UNCHANGED <<storageVars, clock, seen, bounds>>

Stamp_Swapped(t) ==
  /\ pc[t] = "stamp"
  /\ entry' = [entry EXCEPT ![t] =
                 [id |-> request[t].entry.id, value |-> request[t].entry.value,
                  created |-> Timestamp(clock), updated |-> entry[t].created]]
  /\ Goto(t, "store")
  /\ UNCHANGED <<storageVars, clock, seen, bounds>>

Stamp_WholeSeconds(t) ==
  /\ pc[t] = "stamp"
  /\ entry' = [entry EXCEPT ![t] =
                 [id |-> request[t].entry.id, value |-> request[t].entry.value,
                  created |-> entry[t].created,
                  updated |-> [Timestamp(clock) EXCEPT !.nanos = 0]]]
  /\ Goto(t, "store")
  /\ UNCHANGED <<storageVars, clock, seen, bounds>>

Stamp_NoCreated(t) ==
  /\ pc[t] = "stamp"
  /\ entry' = [entry EXCEPT ![t] =
                 [id |-> request[t].entry.id, value |-> request[t].entry.value,
                  created |-> None, updated |-> Timestamp(clock)]]
  /\ Goto(t, "store")
  /\ UNCHANGED <<storageVars, clock, seen, bounds>>

Stamp(t) ==
  /\ pc[t] = "stamp"
  /\ entry' = [entry EXCEPT ![t] =
                 [id |-> request[t].entry.id, value |-> request[t].entry.value,
                  created |-> entry[t].created, updated |-> Timestamp(clock)]]
  /\ Goto(t, "store")
  /\ UNCHANGED <<storageVars, clock, seen, bounds>>

Erase(t) ==
  /\ pc[t] = "erase"
  /\ DeleteRows(t)
  /\ Reply(t, "OK", None)
  /\ Observe(t)
  /\ UNCHANGED <<clock, bounds>>

(* A RocksDB call returns a status that is not ok: StoreEntry's failure is *)
(* an internal error, every other one is taken for a missing entry.        *)
IoError(t) ==
  /\ pc[t] \in {"lookup", "fetch", "store", "erase"} /\ faults < MaxFaults
  /\ faults' = faults + 1
  /\ cursor' = [cursor EXCEPT ![t] = None]
  /\ Reply(t, IF pc[t] = "store" THEN "INTERNAL_ERROR" ELSE "NOT_FOUND", None)
  /\ Forget(t)
  /\ UNCHANGED <<index, data, counter, durable, clock, calls, restarts>>

-----------------------------------------------------------------------------
(* system_clock may repeat a microsecond and, when it is set, step back. *)
Tick ==
  /\ \E now \in Times :
       /\ \/ now > clock
          \/ ClockStepsBack /\ now < clock
       /\ clock' = now
  /\ UNCHANGED <<storageVars, threadVars, seen, bounds>>

(* The calls in progress die with the process; main() then opens the store. *)
Die ==
  /\ restarts < MaxRestarts
  /\ restarts' = restarts + 1
  /\ pc' = [t \in Threads |-> "idle"]
  /\ request' = [t \in Threads |-> None]
  /\ entry' = [t \in Threads |-> None]
  /\ response' = [t \in Threads |-> None]
  /\ seen' = [t \in Threads |-> {}]
  /\ UNCHANGED <<clock, calls, faults>>

ProcessRestart == Die /\ Reopen

MachineRestart == Die /\ PowerLoss

Sync ==
  /\ restarts < MaxRestarts
  /\ Flush
  /\ UNCHANGED <<clock, threadVars, seen, bounds>>

Init ==
  /\ StorageInit
  /\ clock \in Times
  /\ pc = [t \in Threads |-> "idle"]
  /\ request = [t \in Threads |-> None]
  /\ entry = [t \in Threads |-> None]
  /\ response = [t \in Threads |-> None]
  /\ seen = [t \in Threads |-> {}]
  /\ calls = 0 /\ restarts = 0 /\ faults = 0

(* The rest of ExecuteRequest, once it has begun. *)
Proceed(t) ==
  \/ PrepareEntry(t) \/ AssignId(t) \/ Store(t)
  \/ Miss(t) \/ Lookup(t)
  \/ FetchMiss(t) \/ FetchRead(t) \/ FetchOld(t)
  \/ Stamp(t) \/ Erase(t)
  \/ IoError(t)

ThreadStep(t) ==
  \/ \E r \in Requests : Refuse(t, r) \/ Accept(t, r)
  \/ Proceed(t)

Next ==
  \/ \E t \in Threads : ThreadStep(t)
  \/ Tick
  \/ ProcessRestart \/ MachineRestart \/ Sync

Spec == Init /\ [][Next]_vars

-----------------------------------------------------------------------------
(***************************************************************************)
(* The clients of the two-step, lock-free calls still see a map from ids   *)
(* to entries: every response is one that EntryStore allows.  A READ never *)
(* returns a row the id did not hold during the call, NOT_FOUND is never   *)
(* the answer for an id that held an entry throughout, unless for an I/O   *)
(* error and then once for each, an acknowledged CREATE or UPDATE is       *)
(* visible from then on, a failed one never, an UPDATE keeps a creation    *)
(* time the id really had, and the store a machine comes back with is one  *)
(* it had.                                                                 *)
(***************************************************************************)
Abstract == INSTANCE EntryStore WITH
              store   <- [id \in Ids |-> Live(id)],
              disk    <- [id \in Ids |-> LiveOnDisk(id)],
              pending <- [t \in Threads |-> IF pc[t] = "idle" THEN None ELSE request[t]],
              answer  <- response

ImplementsEntryStore == Abstract!Spec

(***************************************************************************)
(* As long as the clock is not set back, no entry was updated before it    *)
(* was created, also when its UPDATE raced with another UPDATE, a DELETE   *)
(* or a CREATE of the same id.                                             *)
(***************************************************************************)
UpdatedAfterCreated ==
  \A id \in Ids :
    Live(id) # None =>
      ToEpochMicros(Live(id).created) <= ToEpochMicros(Live(id).updated)

(***************************************************************************)
(* Nor does an UPDATE take updated_at back, although the time it stamps is *)
(* older than its store, if its id held one entry from the call to then.   *)
(* (Of two that overlap, the last to store may be the first that stamped.) *)
(***************************************************************************)
UpdatesGoForward ==
  [][\A t \in Threads :
       Store(t) /\ request[t].op = "UPDATE" /\ seen[t] = {Live(entry[t].id)} =>
         ToEpochMicros(Live(entry[t].id).updated) <= ToEpochMicros(entry[t].updated)]_vars

(* The entry is being created under an id of the server's. *)
Generated(t) == request[t].op = "CREATE" /\ request[t].entry.id = 0

(***************************************************************************)
(* An id that the server generates is nobody else's: the entry stored      *)
(* under it replaces none.  Threads draw ids concurrently, and a restart   *)
(* or a power loss sets the counter anew.                                  *)
(***************************************************************************)
GeneratedIdFresh ==
  [][\A t \in Threads :
       Store(t) /\ Generated(t) => Live(entry[t].id) = None]_vars

(***************************************************************************)
(* The row of an entry is found again when the entry is updated or         *)
(* deleted: no row is left that the index does not name, whatever READs,   *)
(* UPDATEs and DELETEs of one id overlap.                                  *)
(***************************************************************************)
NoOrphanRows ==
  \A key \in CompositeKeys :
    data[key] # None => index[EncodeIndexKey(data[key].id)] = key

(***************************************************************************)
(* created_at belongs to the server: while an id holds an entry, no call   *)
(* changes the entry's creation time, whatever the clock does.             *)
(***************************************************************************)
CreationTimeKept ==
  [][(\E t \in Threads : ThreadStep(t)) =>
       \A id \in Ids :
         Live(id) # None /\ Live(id)' # None =>
           Live(id)'.created = Live(id).created]_vars

-----------------------------------------------------------------------------
(* What the documentation says of the program, and the program does not do. *)

(***************************************************************************)
(* "Update an existing entry": an id that holds nothing only comes to hold *)
(* an entry by a CREATE.                                                   *)
(***************************************************************************)
OnlyCreateCreates ==
  [][\A t \in Threads :
       Store(t) /\ request[t].op = "UPDATE" => Live(entry[t].id) # None]_vars

(***************************************************************************)
(* A DELETE deletes "both the index and data entries": once it succeeds,   *)
(* data_cf has no row of that id.                                          *)
(***************************************************************************)
DeleteRemovesRows ==
  [][\A t \in Threads :
       Erase(t) => \A key \in CompositeKeys :
                     data'[key] # None => data'[key].id # request[t].id]_vars
=============================================================================
