------------------------------ MODULE Tunnels ------------------------------
(***************************************************************************)
(* What the two tunnels promise the server's clients, without sockets,     *)
(* polls and rounds.                                                       *)
(*                                                                         *)
(* One message is served at a time.  What a client asks is executed once,  *)
(* between the call and its return, and the call returns what that gave.   *)
(* What it pushes is taken once and in the order pushed, a message that    *)
(* does not parse for nothing; only an I/O error, or a client that closes, *)
(* loses what was pushed.                                                  *)
(* Others change the store at any time.  A query that finds its id found   *)
(* it at some moment of its execution, and so does one that does not,      *)
(* unless there is an I/O error.                                           *)
(***************************************************************************)
EXTENDS Sequences, Naturals

CONSTANTS Clients, EntryIds, Garbage, Invalid, Closed, None, MaxFaults

VARIABLES
  call,      \* the call each client is in, or None
  sent,      \* what it has pushed and nobody has taken
  answer,    \* the answer to what it asks, once that is executed
  executing, \* the client whose query is being executed
  seen,      \* whether the query's id has been, or not been, there since
  stored,    \* the ids in the store
  faults     \* the I/O errors there have been

vars == <<call, sent, answer, executing, seen, stored, faults>>

Queries == [op : {"CREATE", "READ", "UPDATE", "DELETE"}, id : EntryIds]

In(c, kind) == call[c] \notin {None, Closed} /\ call[c].kind = kind

Init ==
  /\ call = [c \in Clients |-> None]
  /\ sent = [c \in Clients |-> <<>>]
  /\ answer = [c \in Clients |-> None]
  /\ executing = None /\ seen = {}
  /\ stored = {} /\ faults = 0

Call(c, kind, messages) ==
  /\ call[c] = None
  /\ \E m \in messages : call' = [call EXCEPT ![c] = [kind |-> kind, message |-> m]]
  /\ UNCHANGED <<sent, answer, executing, seen, stored, faults>>

(* A push returns before anybody has taken it. *)
Push(c) ==
  /\ In(c, "push")
  /\ sent' = [sent EXCEPT ![c] = Append(@, call[c].message)]
  /\ call' = [call EXCEPT ![c] = None]
  /\ UNCHANGED <<answer, executing, seen, stored, faults>>

IoError == faults < MaxFaults /\ faults' = faults + 1

Take(c) ==
  /\ executing = None
  /\ sent[c] # <<>>
  /\ sent' = [sent EXCEPT ![c] = Tail(@)]
  /\ \/ stored' = stored \cup ({Head(sent[c])} \ {Garbage}) /\ UNCHANGED faults
     \/ IoError /\ UNCHANGED stored
  /\ UNCHANGED <<call, answer, executing, seen>>

Waits(c) == executing = None /\ In(c, "ask") /\ answer[c] = None

Refuse(c) ==
  /\ Waits(c) /\ call[c].message \notin Queries
  /\ answer' = [answer EXCEPT ![c] = "INVALID_ARGUMENT"]
  /\ UNCHANGED <<call, sent, executing, seen, stored, faults>>

Begin(c) ==
  /\ Waits(c) /\ call[c].message \in Queries
  /\ executing' = c
  /\ seen' = {IF call[c].message.id \in stored THEN "there" ELSE "missing"}
  /\ UNCHANGED <<call, sent, answer, stored, faults>>

(* A CREATE needs nothing, an UPDATE or DELETE to have seen its id. *)
Succeed(q) ==
  /\ q.op = "CREATE" \/ "there" \in seen
  /\ stored' = CASE q.op \in {"CREATE", "UPDATE"} -> stored \cup {q.id}
                 [] q.op = "DELETE"               -> stored \ {q.id}
                 [] OTHER                         -> stored
  /\ UNCHANGED faults

NotFound(q) ==
  /\ q.op # "CREATE"
  /\ ("missing" \in seen /\ UNCHANGED faults) \/ IoError
  /\ UNCHANGED stored

NotWritten(q) ==
  /\ q.op = "CREATE" \/ (q.op = "UPDATE" /\ "there" \in seen)
  /\ IoError
  /\ UNCHANGED stored

Execute(c) ==
  /\ executing = c
  /\ LET q == call[c].message
     IN  \E status \in {"OK", "NOT_FOUND", "INTERNAL_ERROR"} :
           /\ answer' = [answer EXCEPT ![c] = status]
           /\ status = "OK" => Succeed(q)
           /\ status = "NOT_FOUND" => NotFound(q)
           /\ status = "INTERNAL_ERROR" => NotWritten(q)
  /\ executing' = None /\ seen' = {}
  /\ UNCHANGED <<call, sent>>

Return(c) ==
  /\ answer[c] # None
  /\ answer' = [answer EXCEPT ![c] = None]
  /\ call' = [call EXCEPT ![c] = None]
  /\ UNCHANGED <<sent, executing, seen, stored, faults>>

Close(c) ==
  /\ call[c] = None
  /\ call' = [call EXCEPT ![c] = Closed]
  /\ \E n \in 0 .. Len(sent[c]) : sent' = [sent EXCEPT ![c] = SubSeq(@, 1, n)]
  /\ UNCHANGED <<answer, executing, seen, stored, faults>>

(* An id comes or goes; a query on it may have met it before and after. *)
Other(id) ==
  /\ stored' \in {stored \cup {id}, stored \ {id}} \ {stored}
  /\ seen' = IF executing # None /\ call[executing].message.id = id
             THEN {"there", "missing"}
             ELSE seen
  /\ UNCHANGED <<call, sent, answer, executing, faults>>

Next ==
  \/ \E c \in Clients :
       \/ Call(c, "push", EntryIds \cup {Garbage}) \/ Push(c) \/ Take(c)
       \/ Call(c, "ask", Queries \cup {Invalid, Garbage}) \/ Refuse(c)
       \/ Begin(c) \/ Execute(c) \/ Return(c)
       \/ Close(c)
  \/ \E id \in EntryIds : Other(id)

Spec == Init /\ [][Next]_vars
=============================================================================
