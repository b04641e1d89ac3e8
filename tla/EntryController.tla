--------------------------- MODULE EntryController ---------------------------
(***************************************************************************)
(* The REST gateway (regista_db/src/controllers/EntryController.cpp).      *)
(* Drogon's workers turn HTTP requests into Requests, run ExecuteRequest   *)
(* themselves, and turn the Response into an HTTP status; the ZeroMQ       *)
(* thread runs ExecuteRequest at the same time.                            *)
(*                                                                         *)
(* A body is what the parsers make of it: an Entry, something they refuse  *)
(* (also for its media type), or JSON that is no Entry, which jsoncpp      *)
(* accepts and JsonStringToMessage does not.  g_regista_server is set      *)
(* before the workers start and never reset, so the branches for a null    *)
(* pointer are not taken.                                                  *)
(***************************************************************************)
EXTENDS ExecuteRequest

CONSTANTS
  Workers,  \* the threads that are Drogon's
  Unset     \* the payload of an Entry whose data field is not set

Bodies ==
       [kind : {"entry"}, entry : ClientEntry(CreateIds)]
  \cup [kind : {"malformed", "mismatch"}, entry : {None}]

HttpRequests ==
       [method : {"GET", "DELETE"}, id : KeyIds, body : {None}]
  \cup [method : {"PUT"}, id : KeyIds, body : Bodies]
  \cup [method : {"POST"}, id : {0}, body : Bodies]

HttpResponses ==
  [to : HttpRequests, code : {200, 201, 204, 400, 404, 500}, entry : Entry \cup {None}]

ASSUME ControllerAssumption ==
  /\ Workers \subseteq Threads
  /\ Unset \in Values
  /\ 0 \in CreateIds
  /\ None \notin Bodies \cup HttpRequests \cup HttpResponses

(***************************************************************************)
(* A call has stored its entry, or erased one that readers found until     *)
(* then; or it is a DELETE that was overtaken: its id held an entry during *)
(* the call and held none any more when the call ended.                    *)
(***************************************************************************)
Effects == {"none", "stored", "erased", "overtaken"}

VARIABLES
  http,    \* the HTTP request each worker serves
  reply,   \* the HTTP response to its last one
  effect   \* history: what has become of the entry a worker's request is about

httpVars == <<http, reply, effect>>
allVars == <<vars, httpVars>>

HttpTypeOK ==
  /\ TypeOK
  /\ http \in [Threads -> HttpRequests \cup {None}]
  /\ reply \in [Threads -> HttpResponses \cup {None}]
  /\ effect \in [Threads -> Effects]

-----------------------------------------------------------------------------
(***************************************************************************)
(* What is in the request's entry once the body is parsed; None if the     *)
(* handler gives up.  The status of JsonStringToMessage is dropped, and    *)
(* where it fails the entry is there and empty.                            *)
(***************************************************************************)
Parsed(body) ==
  CASE body.kind = "entry"     -> body.entry
    [] body.kind = "mismatch"  -> [id |-> 0, value |-> Unset]
    [] body.kind = "malformed" -> None

HasBody(h) == h.method \in {"PUT", "POST"}

BadBody(h) == HasBody(h) /\ Parsed(h.body) = None

Operation(method) ==
  CASE method = "GET"  -> "READ"    [] method = "DELETE" -> "DELETE"
    [] method = "POST" -> "CREATE"  [] method = "PUT"    -> "UPDATE"

(* The Request that is executed; a PUT's id is the one of the path. *)
ToRequest_BodyId(h) ==
  [op    |-> Operation(h.method),
   id    |-> IF HasBody(h) THEN 0 ELSE h.id,
   entry |-> IF HasBody(h) THEN Parsed(h.body) ELSE None]

ToRequest(h) ==
  [op    |-> Operation(h.method),
   id    |-> IF HasBody(h) THEN 0 ELSE h.id,
   entry |-> CASE h.method = "POST" -> Parsed(h.body)
               [] h.method = "PUT"  -> [Parsed(h.body) EXCEPT !.id = h.id]
               [] OTHER             -> None]

mapStatus_Unmapped(status) ==
  CASE status = "OK"               -> 0
    [] status = "NOT_FOUND"        -> 1
    [] status = "INVALID_ARGUMENT" -> 2
    [] OTHER                       -> 3

mapStatus(status) ==
  CASE status = "OK"               -> 200
    [] status = "NOT_FOUND"        -> 404
    [] status = "INVALID_ARGUMENT" -> 400
    [] OTHER                       -> 500

HttpCode(h, status) ==
  CASE status = "OK" /\ h.method = "POST"   -> 201
    [] status = "OK" /\ h.method = "DELETE" -> 204
    [] OTHER                                -> mapStatus(status)

-----------------------------------------------------------------------------
(* A body that does not parse is answered without ExecuteRequest. *)
RejectBody(t, h) ==
  /\ http[t] = None
  /\ BadBody(h)
  /\ reply' = [reply EXCEPT ![t] = [to |-> h, code |-> 400, entry |-> None]]
  /\ effect' = [effect EXCEPT ![t] = "none"]
  /\ UNCHANGED <<vars, http>>

(* The handler calls ExecuteRequest... *)
Handle(t, h) ==
  /\ http[t] = None
  /\ ~BadBody(h)
  /\ Accept(t, ToRequest(h)) \/ Refuse(t, ToRequest(h))
  /\ http' = [http EXCEPT ![t] = h]
  /\ reply' = [reply EXCEPT ![t] = None]
  /\ effect' = [effect EXCEPT ![t] = "none"]

(* The ids that readers find. *)
Held == {id \in Ids : Live(id) # None}

Overtaken(t) ==
  /\ request[t].op = "DELETE" /\ pc'[t] = "idle"
  /\ Target(request[t]) \notin Held
  /\ seen[t] \ {None} # {}

(* ...which runs... *)
Execute(t) ==
  /\ Proceed(t)
  /\ effect' = [effect EXCEPT ![t] = IF Store(t) THEN "stored"
                                     ELSE IF Held \ Held' # {} THEN "erased"
                                     ELSE IF Overtaken(t) THEN "overtaken"
                                     ELSE @]
  /\ UNCHANGED <<http, reply>>

(* ...and answers with what it returned. *)
Respond(t) ==
  /\ http[t] # None /\ pc[t] = "idle"
  /\ reply' = [reply EXCEPT ![t] = [to    |-> http[t],
                                    code  |-> HttpCode(http[t], response[t].status),
                                    entry |-> response[t].entry]]
  /\ http' = [http EXCEPT ![t] = None]
  /\ UNCHANGED <<vars, effect>>

HttpInit ==
  /\ Init
  /\ http = [t \in Threads |-> None]
  /\ reply = [t \in Threads |-> None]
  /\ effect = [t \in Threads |-> "none"]

HttpDeath ==
  /\ ProcessRestart \/ MachineRestart
  /\ http' = [t \in Threads |-> None]
  /\ reply' = [t \in Threads |-> None]
  /\ effect' = [t \in Threads |-> "none"]

HttpNext ==
  \/ \E t \in Workers : \/ \E h \in HttpRequests : RejectBody(t, h) \/ Handle(t, h)
                        \/ Execute(t)
                        \/ Respond(t)
  \/ /\ \E t \in Threads \ Workers : ThreadStep(t)
     /\ UNCHANGED httpVars
  \/ /\ Tick \/ Sync
     /\ UNCHANGED httpVars
  \/ HttpDeath

HttpSpec == HttpInit /\ [][HttpNext]_allVars

-----------------------------------------------------------------------------
(***************************************************************************)
(* The status of a reply tells what became of the entry: 201, or 200 to a  *)
(* PUT, if and only if this very call wrote it; who removed an entry says  *)
(* 204, and nobody says 204 of an id that held no entry during his call:   *)
(* he removed it, or a call that overlapped his did.  No error code covers *)
(* a change of the store.                                                  *)
(***************************************************************************)
Tells(h, code, did) ==
  /\ did = "stored" <=> HasBody(h) /\ code \in {200, 201}
  /\ did = "erased" => code = 204
  /\ code = 204 => did \in {"erased", "overtaken"}

StatusTellsEffect ==
  \A t \in Workers : reply[t] # None => Tells(reply[t].to, reply[t].code, effect[t])

(***************************************************************************)
(* "The ID provided in the URL path will overwrite any ID provided in the  *)
(* request body": a PUT or DELETE changes what a reader gets for the id of *)
(* its path and for no other, although it runs on what an earlier lookup   *)
(* found; a GET changes nothing.                                           *)
(***************************************************************************)
OnlyPathTouched ==
  [][\A t \in Workers : Execute(t) =>
       \A id \in Ids : Live(id)' # Live(id) =>
         \/ http[t].method = "POST"
         \/ http[t].method \in {"PUT", "DELETE"} /\ id = http[t].id]_allVars

-----------------------------------------------------------------------------
(***************************************************************************)
(* "Invalid Argument (e.g., Malformed JSON or Protobuf)": a body that is   *)
(* no Entry is refused.  The documentation says so; the code stores an     *)
(* empty entry and answers 201 or 200.                                     *)
(***************************************************************************)
MismatchRefused ==
  \A t \in Workers :
    reply[t] # None /\ HasBody(reply[t].to) /\ reply[t].code \in {200, 201} =>
      reply[t].to.body.kind # "mismatch"
=============================================================================
