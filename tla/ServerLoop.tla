----------------------------- MODULE ServerLoop -----------------------------
(***************************************************************************)
(* The two tunnels: RegistaServer::Run, HandleIngest and HandleQuery       *)
(* (regista_db/src/RegistaServer.cpp) and the calls of RegistaClient.java. *)
(*                                                                         *)
(* ZeroMQ is external.  A client's PUSH socket and the server's PULL       *)
(* socket share one queue per client, which blocks the sender when it is   *)
(* full; a REQ socket has one request under way at most; PULL and REP take *)
(* from their peers in a fair order.                                       *)
(* The store is reduced to the ids it holds.  The HTTP workers change it   *)
(* too, so that a query meets it as the calls of EntryStore do: it finds   *)
(* an id that was there at some moment since it began.  How it works the   *)
(* rows is the module ExecuteRequest, how the loop ends Lifecycle.         *)
(***************************************************************************)
EXTENDS Naturals, Sequences

CONSTANTS
  Clients,
  Foreign,   \* those that are not the Java client and may send garbage
  EntryIds,  \* the ids clients put in their entries
  Hwm,       \* messages a client's PUSH queue holds
  Garbage,   \* a message that does not parse
  Invalid,   \* a request that parses, with no entry, no id or no known operation
  MaxFaults, \* how many I/O errors there may be
  Closed,    \* the call of a client that closed its sockets
  None

Queries == [op : {"CREATE", "READ", "UPDATE", "DELETE"}, id : EntryIds]

Pushes(c) == EntryIds \cup (IF c \in Foreign THEN {Garbage} ELSE {})
Asks(c) == Queries \cup {Invalid} \cup (IF c \in Foreign THEN {Garbage} ELSE {})

Calls ==
       [kind : {"push"}, message : EntryIds \cup {Garbage}]
  \cup [kind : {"ask"}, message : Queries \cup {Invalid, Garbage}]

Statuses == {"OK", "NOT_FOUND", "INVALID_ARGUMENT", "INTERNAL_ERROR"}

ASSUME LoopAssumption ==
  /\ Foreign \subseteq Clients
  /\ Hwm \in Nat \ {0}
  /\ MaxFaults \in Nat
  /\ Garbage \notin EntryIds \cup Queries
  /\ Invalid \notin Queries
  /\ Closed \notin Calls \cup {None}
  /\ None \notin Clients \cup Calls \cup Statuses \cup Queries \cup {Invalid, Garbage}

VARIABLES
  call,      \* the call each client is in, or None
  ingest,    \* each client's queue to the PULL socket
  query,     \* its request on the way to the REP socket
  reply,     \* its reply on the way back
  loop,      \* where the loop is
  revents,   \* what the last poll found, until its last handler is entered
  serving,   \* the client whose request REP has received and not yet answered
  request,   \* that request
  response,  \* the response to it
  stored,    \* the ids in the store
  seen,      \* whether the request's id has been there, and not there, since
             \* its execution began
  faults,    \* the I/O errors there have been
  keep_running, running_

clientVars == <<call, ingest, query, reply>>
flags == <<keep_running, running_>>
loopVars == <<loop, revents, serving, request, response>>
storeVars == <<stored, seen, faults>>
tunnelVars == <<clientVars, loopVars, storeVars, flags>>

LoopTypeOK ==
  /\ call \in [Clients -> Calls \cup {None, Closed}]
  /\ ingest \in [Clients -> Seq(EntryIds \cup {Garbage})]
  /\ \A c \in Clients : Len(ingest[c]) <= Hwm
  /\ query \in [Clients -> Queries \cup {Invalid, Garbage, None}]
  /\ reply \in [Clients -> Statuses \cup {None}]
  /\ loop \in {"none", "poll", "ingest", "query", "execute", "reply", "stopped"}
  /\ revents \in [ingest : BOOLEAN, query : BOOLEAN]
  /\ serving \in Clients \cup {None}
  /\ request \in Queries \cup {Invalid, Garbage, None}
  /\ response \in Statuses \cup {None}
  /\ stored \subseteq EntryIds
  /\ seen \subseteq {"there", "missing"}
  /\ faults \in 0 .. MaxFaults
  /\ keep_running \in BOOLEAN /\ running_ \in BOOLEAN

Nothing == [ingest |-> FALSE, query |-> FALSE]

TunnelInit ==
  /\ call = [c \in Clients |-> None]
  /\ ingest = [c \in Clients |-> <<>>]
  /\ query = [c \in Clients |-> None]
  /\ reply = [c \in Clients |-> None]
  /\ revents = Nothing
  /\ serving = None /\ request = None /\ response = None
  /\ stored = {} /\ seen = {} /\ faults = 0
  /\ keep_running = TRUE /\ running_ = TRUE

LoopInit == TunnelInit /\ loop = "poll"

-----------------------------------------------------------------------------
In(c, kind) == call[c] \notin {None, Closed} /\ call[c].kind = kind

(* createNoReply blocks in send while the queue is full. *)
CreateNoReply(c) ==
  /\ call[c] = None
  /\ \E m \in Pushes(c) : call' = [call EXCEPT ![c] = [kind |-> "push", message |-> m]]
  /\ UNCHANGED <<ingest, query, reply, loopVars, storeVars, flags>>

Pushed(c) ==
  /\ In(c, "push")
  /\ Len(ingest[c]) < Hwm
  /\ ingest' = [ingest EXCEPT ![c] = Append(@, call[c].message)]
  /\ call' = [call EXCEPT ![c] = None]
  /\ UNCHANGED <<query, reply, loopVars, storeVars, flags>>

(* create, read, update and delete: sendWithReply sends, then receives. *)
SendRequest(c) ==
  /\ call[c] = None
  /\ \E m \in Asks(c) :
       /\ call' = [call EXCEPT ![c] = [kind |-> "ask", message |-> m]]
       /\ query' = [query EXCEPT ![c] = m]
  /\ UNCHANGED <<ingest, reply, loopVars, storeVars, flags>>

ReceiveReply(c) ==
  /\ reply[c] # None
  /\ reply' = [reply EXCEPT ![c] = None]
  /\ call' = [call EXCEPT ![c] = None]
  /\ UNCHANGED <<ingest, query, loopVars, storeVars, flags>>

(***************************************************************************)
(* The context lingers for no time: pushed entries that have not reached   *)
(* the server are lost.  What a poll has found has reached it.             *)
(***************************************************************************)
Close(c) ==
  /\ call[c] = None
  /\ call' = [call EXCEPT ![c] = Closed]
  /\ \E n \in 0 .. Len(ingest[c]) :
       /\ loop = "ingest" /\ ingest[c] # <<>> => n > 0
       /\ ingest' = [ingest EXCEPT ![c] = SubSeq(@, 1, n)]
  /\ UNCHANGED <<query, reply, loopVars, storeVars, flags>>

-----------------------------------------------------------------------------
(* A poll that finds nothing within 100 ms changes nothing. *)
Ready ==
  [ingest |-> \E c \in Clients : ingest[c] # <<>>,
   query  |-> \E c \in Clients : query[c] # None]

FirstHandler_QueriesOnly == IF Ready.query THEN "query" ELSE "ingest"

FirstHandler == IF Ready.ingest THEN "ingest" ELSE "query"

Running == keep_running /\ running_

Poll ==
  /\ loop = "poll"
  /\ Running
  /\ Ready.ingest \/ Ready.query
  /\ revents' = Ready
  /\ loop' = FirstHandler
  /\ UNCHANGED <<clientVars, serving, request, response, storeVars, flags>>

AfterIngest_ElseIf == "poll"

AfterIngest_Untested == "query"

AfterIngest == IF revents.query THEN "query" ELSE "poll"

IoError == faults < MaxFaults /\ faults' = faults + 1

HandleIngest_Unparsed(c) ==
  /\ loop = "ingest"
  /\ ingest[c] # <<>>
  /\ ingest' = [ingest EXCEPT ![c] = Tail(@)]
  /\ stored' = stored \cup {Head(ingest[c])}
  /\ loop' = AfterIngest
  /\ revents' = Nothing
  /\ UNCHANGED <<call, query, reply, serving, request, response, seen, faults, flags>>

(***************************************************************************)
(* One pushed entry a round; PrepareEntry and StoreEntry if it parses.     *)
(* Whether StoreEntry succeeds is not looked at: nobody is told.           *)
(***************************************************************************)
HandleIngest(c) ==
  /\ loop = "ingest"
  /\ ingest[c] # <<>>
  /\ ingest' = [ingest EXCEPT ![c] = Tail(@)]
  /\ \/ stored' = stored \cup ({Head(ingest[c])} \ {Garbage}) /\ UNCHANGED faults
     \/ /\ Head(ingest[c]) # Garbage /\ IoError
        /\ UNCHANGED stored
  /\ loop' = AfterIngest
  /\ revents' = Nothing
  /\ UNCHANGED <<call, query, reply, serving, request, response, seen, flags>>

-----------------------------------------------------------------------------
SeenAtStart(m) ==
  IF m \in Queries THEN {IF m.id \in stored THEN "there" ELSE "missing"} ELSE {}

HandleQuery_NoReply(c) ==
  /\ loop = "query"
  /\ serving = None
  /\ query[c] # None
  /\ query' = [query EXCEPT ![c] = None]
  /\ IF query[c] = Garbage
     THEN loop' = "poll" /\ UNCHANGED <<serving, request, seen>>
     ELSE /\ loop' = "execute"
          /\ serving' = c /\ request' = query[c]
          /\ seen' = SeenAtStart(query[c])
  /\ revents' = Nothing
  /\ UNCHANGED <<call, ingest, reply, response, stored, faults, flags>>

(***************************************************************************)
(* recv is an error while a reply is due, so REP must owe none.  What does *)
(* not parse is answered, the rest is for ExecuteRequest.                  *)
(***************************************************************************)
HandleQuery(c) ==
  /\ loop = "query"
  /\ serving = None
  /\ query[c] # None
  /\ query' = [query EXCEPT ![c] = None]
  /\ serving' = c /\ request' = query[c]
  /\ IF query[c] = Garbage
     THEN response' = "INVALID_ARGUMENT" /\ loop' = "reply"
     ELSE loop' = "execute" /\ UNCHANGED response
  /\ seen' = SeenAtStart(query[c])
  /\ revents' = Nothing
  /\ UNCHANGED <<call, ingest, reply, stored, faults, flags>>

Respond(status) ==
  /\ loop = "execute"
  /\ response' = status
  /\ loop' = "reply"
  /\ seen' = {}
  /\ UNCHANGED <<clientVars, revents, serving, request, flags>>

Refuse ==
  /\ request = Invalid
  /\ Respond("INVALID_ARGUMENT")
  /\ UNCHANGED <<stored, faults>>

StoreAfter(q) ==
  CASE q.op \in {"CREATE", "UPDATE"} -> stored \cup {q.id}
    [] q.op = "DELETE"               -> stored \ {q.id}
    [] OTHER                         -> stored

Succeed_Upsert ==
  /\ request \in Queries
  /\ request.op \in {"CREATE", "UPDATE"} \/ "there" \in seen
  /\ Respond("OK")
  /\ stored' = StoreAfter(request)
  /\ UNCHANGED faults

Succeed ==
  /\ request \in Queries
  /\ request.op = "CREATE" \/ "there" \in seen
  /\ Respond("OK")
  /\ stored' = StoreAfter(request)
  /\ UNCHANGED faults

NotFound ==
  /\ request \in Queries /\ request.op # "CREATE"
  /\ "missing" \in seen
  /\ Respond("NOT_FOUND")
  /\ UNCHANGED <<stored, faults>>

(* Only StoreEntry's result is told apart from an id that is not there. *)
Fail ==
  /\ request \in Queries /\ IoError
  /\ \/ /\ request.op = "CREATE" \/ (request.op = "UPDATE" /\ "there" \in seen)
        /\ Respond("INTERNAL_ERROR")
     \/ request.op # "CREATE" /\ Respond("NOT_FOUND")
  /\ UNCHANGED stored

ExecuteRequest == Refuse \/ Succeed \/ NotFound \/ Fail

SendResponse ==
  /\ loop = "reply"
  /\ reply' = [reply EXCEPT ![serving] = response]
  /\ serving' = None /\ request' = None /\ response' = None
  /\ loop' = "poll"
  /\ UNCHANGED <<call, ingest, query, revents, storeVars, flags>>

(* What HTTP clients have the gateway's workers do with the store. *)
OtherCall ==
  /\ \E id \in EntryIds :
       /\ stored' \in {stored \cup {id}, stored \ {id}} \ {stored}
       /\ seen' = IF seen # {} /\ request.id = id THEN {"there", "missing"} ELSE seen
  /\ UNCHANGED <<clientVars, loopVars, faults, flags>>

LoopStep ==
  \/ Poll
  \/ \E c \in Clients : HandleIngest(c) \/ HandleQuery(c)
  \/ ExecuteRequest
  \/ SendResponse

ClientStep(c) ==
  CreateNoReply(c) \/ Pushed(c) \/ SendRequest(c) \/ ReceiveReply(c) \/ Close(c)

LoopNext == LoopStep \/ OtherCall \/ \E c \in Clients : ClientStep(c)

(***************************************************************************)
(* The thread of the loop runs; PULL and REP serve every peer in turn; a   *)
(* client's thread that can go on does.  Nothing makes a client call.      *)
(***************************************************************************)
LoopFairness ==
  /\ WF_tunnelVars(LoopStep)
  /\ \A c \in Clients :
       /\ SF_tunnelVars(HandleIngest(c)) /\ SF_tunnelVars(HandleQuery(c))
       /\ WF_tunnelVars(Pushed(c)) /\ WF_tunnelVars(ReceiveReply(c))

LoopSpec == LoopInit /\ [][LoopNext]_tunnelVars /\ LoopFairness

-----------------------------------------------------------------------------
Count(P) == IF P THEN 1 ELSE 0

(* What the server may say of a message. *)
Fits(m, status) ==
  \/ status = "OK" /\ m \in Queries
  \/ status = "NOT_FOUND" /\ m \in Queries /\ m.op # "CREATE"
  \/ status = "INTERNAL_ERROR" /\ m \in Queries /\ m.op \in {"CREATE", "UPDATE"}
  \/ status = "INVALID_ARGUMENT" /\ m \notin Queries

(***************************************************************************)
(* A client that waits for a reply has exactly one request under way: on   *)
(* the way to the loop, being served, or answered; nobody else has one.    *)
(* What it gets is a reply to its own message.  A path through HandleQuery *)
(* that does not reply, or replies twice, breaks this.                     *)
(***************************************************************************)
OneReplyEach ==
  \A c \in Clients :
    /\ Count(query[c] # None) + Count(serving = c) + Count(reply[c] # None)
         = Count(In(c, "ask"))
    /\ reply[c] # None => Fits(call[c].message, reply[c])

(***************************************************************************)
(* The loop's thread never waits in a recv, where it would see no flag and *)
(* serve nobody: a handler is entered only while a message waits for it,   *)
(* and HandleQuery only while REP owes no reply.  What a poll found must   *)
(* still be there when its turn comes, after the other socket was served.  *)
(***************************************************************************)
RecvNeverBlocks ==
  /\ loop = "ingest" => \E c \in Clients : ingest[c] # <<>>
  /\ loop = "query" => serving = None /\ \E c \in Clients : query[c] # None

(***************************************************************************)
(* The two sockets, the poll and the order of the handlers together give   *)
(* the clients what Tunnels promises: one message at a time is served;     *)
(* each query is executed once, between its call and its return, and       *)
(* returns what that execution gave; pushes are taken once and in order,   *)
(* and stored unless there is an I/O error.                                *)
(***************************************************************************)
Promise == INSTANCE Tunnels WITH
             sent      <- ingest,
             executing <- IF seen = {} THEN None ELSE serving,
             answer    <- [c \in Clients |-> IF serving = c THEN response ELSE reply[c]]

ImplementsTunnels == Promise!Spec

(***************************************************************************)
(* Every call of a client returns: a query is answered however much is     *)
(* pushed, a push that blocks on a full queue goes on however many queries *)
(* are asked (Run handles both sockets in one round).                      *)
(***************************************************************************)
CallsReturn ==
  \A c \in Clients :
    /\ In(c, "ask") ~> ~In(c, "ask")
    /\ In(c, "push") ~> ~In(c, "push")

(***************************************************************************)
(* What a client pushes is taken, although nobody waits for that and       *)
(* queries may keep coming: its queue runs empty again and again, or       *)
(* HandleIngest takes from it for ever.                                    *)
(***************************************************************************)
PushedIsTaken ==
  \A c \in Clients :
    []<>(ingest[c] = <<>>) \/ []<><<HandleIngest(c)>>_tunnelVars

=============================================================================
