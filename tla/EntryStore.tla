----------------------------- MODULE EntryStore -----------------------------
(***************************************************************************)
(* What RegistaDB promises its clients, without indexes, rows or keys: a   *)
(* map from ids to entries.                                                *)
(*                                                                         *)
(* A call takes effect at one moment, with two exceptions that the code    *)
(* makes: an UPDATE and a DELETE only need the entry to have existed at    *)
(* some moment since they were called.  A READ returns what the map held   *)
(* at some moment since it was called, and NOT_FOUND means that the id was *)
(* absent at such a moment.  An I/O error, and nothing else, ends a call   *)
(* without either: then NOT_FOUND may be said of an id that is there.      *)
(***************************************************************************)
EXTENDS Naturals

CONSTANTS Threads, Ids, Entry, Requests, None,
          MaxFaults   \* how many I/O errors there may be

VARIABLES
  store,    \* id -> entry
  disk,     \* the map as it is on disk
  pending,  \* the request of every caller
  answer,   \* the response to its last request
  seen,     \* what its id has held since the call
  faults    \* the I/O errors there have been

vars == <<store, disk, pending, answer, seen, faults>>

Id(r) == IF r.op = "UPDATE" THEN r.entry.id ELSE r.id

Init ==
  /\ store = [i \in Ids |-> None]
  /\ disk = store
  /\ pending = [t \in Threads |-> None]
  /\ answer = [t \in Threads |-> None]
  /\ seen = [t \in Threads |-> {}]
  /\ faults = 0

Answer(t, status, e) ==
  /\ answer' = [answer EXCEPT ![t] = [status |-> status, entry |-> e]]
  /\ pending' = [pending EXCEPT ![t] = None]

Finish(t, status, e) ==
  /\ Answer(t, status, e)
  /\ seen' = [seen EXCEPT ![t] = {}]
  /\ UNCHANGED <<store, disk>>

(* The map changes: calls that wait on the id have seen its new content. *)
Write(t, id, content, e) ==
  /\ store' = [store EXCEPT ![id] = content]
  /\ seen' = [u \in Threads |->
                IF u = t THEN {}
                ELSE seen[u] \cup {c \in {content} : /\ pending[u] # None
                                                     /\ pending[u].op # "CREATE"
                                                     /\ Id(pending[u]) = id}]
  /\ Answer(t, "OK", e)
  /\ UNCHANGED <<disk, faults>>

Call(t) ==
  /\ pending[t] = None
  /\ \E r \in Requests :
       /\ pending' = [pending EXCEPT ![t] = r]
       /\ seen' = [seen EXCEPT ![t] = IF r.op = "CREATE" THEN {} ELSE {store[Id(r)]}]
  /\ answer' = [answer EXCEPT ![t] = None]
  /\ UNCHANGED <<store, disk, faults>>

Refuse(t) ==
  /\ pending[t] = None
  /\ Finish(t, "INVALID_ARGUMENT", None)
  /\ UNCHANGED faults

(* The client's id is kept; the store picks one for id 0. *)
Create(t) ==
  /\ pending[t] # None /\ pending[t].op = "CREATE"
  /\ \E e \in Entry :
       /\ pending[t].entry.id # 0 => e.id = pending[t].entry.id
       /\ e.value = pending[t].entry.value
       /\ e.created = e.updated
       /\ Write(t, e.id, e, e)

Read(t) ==
  /\ pending[t] # None /\ pending[t].op = "READ"
  /\ \E e \in seen[t] \ {None} : Finish(t, "OK", e)
  /\ UNCHANGED faults

(* The new entry has the creation time of an entry the id held. *)
Update(t) ==
  /\ pending[t] # None /\ pending[t].op = "UPDATE"
  /\ \E old \in seen[t] \ {None}, e \in Entry :
       /\ e.id = pending[t].entry.id
       /\ e.value = pending[t].entry.value
       /\ e.created = old.created
       /\ Write(t, e.id, e, e)

Delete(t) ==
  /\ pending[t] # None /\ pending[t].op = "DELETE"
  /\ seen[t] \ {None} # {}
  /\ Write(t, pending[t].id, None, None)

NotFound(t) ==
  /\ pending[t] # None /\ pending[t].op \in {"READ", "UPDATE", "DELETE"}
  /\ None \in seen[t]
  /\ Finish(t, "NOT_FOUND", None)
  /\ UNCHANGED faults

(***************************************************************************)
(* An I/O error changes nothing.  Only the last step of a CREATE or an     *)
(* UPDATE, which has found its entry by then, says that it was one.        *)
(***************************************************************************)
Fail(t) ==
  /\ pending[t] # None /\ faults < MaxFaults
  /\ faults' = faults + 1
  /\ \/ /\ pending[t].op = "CREATE"
        /\ Finish(t, "INTERNAL_ERROR", None)
     \/ /\ pending[t].op = "UPDATE" /\ seen[t] \ {None} # {}
        /\ Finish(t, "INTERNAL_ERROR", None)
     \/ /\ pending[t].op \in {"READ", "UPDATE", "DELETE"}
        /\ Finish(t, "NOT_FOUND", None)

Save ==
  /\ disk' = store
  /\ UNCHANGED <<store, pending, answer, seen, faults>>

(* A death loses the calls in progress; a power loss also what was not saved. *)
Crash ==
  /\ store' \in {store, disk}
  /\ pending' = [t \in Threads |-> None]
  /\ answer' = [t \in Threads |-> None]
  /\ seen' = [t \in Threads |-> {}]
  /\ UNCHANGED <<disk, faults>>

Next ==
  \/ \E t \in Threads : \/ Call(t) \/ Refuse(t)
                        \/ Create(t) \/ Read(t) \/ Update(t) \/ Delete(t)
                        \/ NotFound(t) \/ Fail(t)
  \/ Save
  \/ Crash

Spec == Init /\ [][Next]_vars
=============================================================================
