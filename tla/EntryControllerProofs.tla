----------------------- MODULE EntryControllerProofs -----------------------
(***************************************************************************)
(* Theorems about the gateway, for every number of workers, every request  *)
(* and every fault: it uses the server only as its specification allows,   *)
(* and its status codes tell the truth.                                    *)
(***************************************************************************)
EXTENDS EntryController, EntryStoreProofs

(* What a status says of the call that returns it. *)
Did(h, status, did) ==
  /\ did = "stored" <=> HasBody(h) /\ status = "OK"
  /\ did = "erased" => h.method = "DELETE" /\ status = "OK"
  /\ h.method = "DELETE" /\ status = "OK" => did \in {"erased", "overtaken"}

(***************************************************************************)
(* What a worker holds while it serves a request: the call that runs is    *)
(* the one the request translates to, it has not touched the store before  *)
(* its last step, and an UPDATE stores under the id it was asked for.      *)
(***************************************************************************)
WorkerSound(t) ==
  /\ http[t] # None => ~BadBody(http[t]) /\ reply[t] = None
  /\ pc[t] # "idle" => /\ http[t] # None
                       /\ effect[t] = "none"
                       /\ request[t] = ToRequest(http[t])
  /\ pc[t] = "store" /\ request[t].op = "UPDATE" => entry[t].id = request[t].entry.id
  /\ pc[t] = "idle" /\ http[t] # None =>
       /\ response[t] # None
       /\ Did(http[t], response[t].status, effect[t])
  /\ reply[t] # None => Tells(reply[t].to, reply[t].code, effect[t])

GatewayInv ==
  /\ HttpTypeOK
  /\ RefinementInv
  /\ \A t \in Workers : WorkerSound(t)

-----------------------------------------------------------------------------
(* What the handlers execute is a Request, for the operation of the method. *)
LEMMA RequestOfHttp ==
  ASSUME NEW h \in HttpRequests, ~BadBody(h)
  PROVE  /\ ToRequest(h) \in Requests
         /\ h.method \in {"GET", "PUT", "POST", "DELETE"}
         /\ ToRequest(h).op = Operation(h.method)
         /\ h.method \in {"PUT", "DELETE"} => Target(ToRequest(h)) = h.id
<1>1. CASE h \in [method : {"GET", "DELETE"}, id : KeyIds, body : {None}]
  <2>1. h.method \in {"GET", "DELETE"} /\ h.id \in KeyIds /\ ~HasBody(h)
    BY <1>1 DEF HasBody
  <2>2. ToRequest(h) = [op |-> Operation(h.method), id |-> h.id, entry |-> None]
    BY <2>1 DEF ToRequest
  <2>3. Operation(h.method) = IF h.method = "GET" THEN "READ" ELSE "DELETE"
    BY <2>1 DEF Operation
  <2>4. Operation(h.method) \in {"READ", "DELETE"}
    BY <2>3
  <2>5. ToRequest(h) \in Requests
    BY <2>1, <2>2, <2>4 DEF Requests
  <2>6. ToRequest(h).op = Operation(h.method) /\ ToRequest(h).id = h.id
    BY <2>2
  <2>7. Target(ToRequest(h)) = h.id
    BY <2>4, <2>6 DEF Target
  <2> QED BY <2>1, <2>5, <2>6, <2>7
<1>2. ASSUME HasBody(h), h.body \in Bodies
      PROVE  Parsed(h.body) \in ClientEntry(CreateIds)
  BY <1>2, ControllerAssumption DEF BadBody, Parsed, Bodies, ClientEntry
<1>3. CASE h \in [method : {"POST"}, id : {0}, body : Bodies]
  <2>1. HasBody(h) /\ h.method = "POST" /\ h.body \in Bodies
    BY <1>3 DEF HasBody
  <2> QED BY <1>2, <2>1 DEF ToRequest, Operation, Requests
<1>4. CASE h \in [method : {"PUT"}, id : KeyIds, body : Bodies]
  <2>1. HasBody(h) /\ h.method = "PUT" /\ h.body \in Bodies /\ h.id \in KeyIds
    BY <1>4 DEF HasBody
  <2> DEFINE e == [Parsed(h.body) EXCEPT !.id = h.id]
  <2>2. e \in ClientEntry(KeyIds) /\ e.id = h.id
    BY <1>2, <2>1 DEF ClientEntry
  <2>3. ToRequest(h) = [op |-> "UPDATE", id |-> 0, entry |-> e]
    BY <2>1 DEF ToRequest, Operation
  <2> HIDE DEF e
  <2>4. ToRequest(h) \in Requests
    BY <2>2, <2>3 DEF Requests
  <2>5. ToRequest(h).op = Operation(h.method)
    BY <2>1, <2>3 DEF Operation
  <2>6. ToRequest(h).op = "UPDATE" /\ ToRequest(h).entry = e
    BY <2>3
  <2>7. Target(ToRequest(h)) = h.id
    BY <2>2, <2>6 DEF Target
  <2> QED BY <2>1, <2>4, <2>5, <2>7
<1> QED BY <1>1, <1>3, <1>4 DEF HttpRequests

(* Every step of the gateway is a step of the server, or none of its. *)
LEMMA GatewayStep == GatewayInv /\ [HttpNext]_allVars => [Next]_vars
<1> SUFFICES ASSUME GatewayInv, HttpNext
             PROVE  [Next]_vars
  BY DEF allVars
<1>1. ASSUME NEW t \in Workers, NEW h \in HttpRequests, RejectBody(t, h)
      PROVE  [Next]_vars
  BY <1>1 DEF RejectBody
<1>2. ASSUME NEW t \in Workers, NEW h \in HttpRequests, Handle(t, h)
      PROVE  Next
  <2>1. ToRequest(h) \in Requests
    BY <1>2, RequestOfHttp DEF Handle
  <2> QED BY <1>2, <2>1, ControllerAssumption DEF Handle, Next, ThreadStep
<1>3. ASSUME NEW t \in Workers, Execute(t)
      PROVE  Next
  BY <1>3, ControllerAssumption DEF Execute, Next, ThreadStep
<1>4. ASSUME NEW t \in Workers, Respond(t)
      PROVE  [Next]_vars
  BY <1>4 DEF Respond
<1>5. CASE (\E t \in Threads \ Workers : ThreadStep(t)) \/ Tick \/ Sync \/ HttpDeath
  BY <1>5 DEF Next, HttpDeath
<1> QED BY <1>1, <1>2, <1>3, <1>4, <1>5 DEF HttpNext

-----------------------------------------------------------------------------
(* A call goes on without touching the store, or ends in one of four ways. *)
LEMMA ProceedStep ==
  ASSUME RequestInv, NEW t \in Threads, Proceed(t)
  PROVE  /\ pc[t] # "idle" /\ response' \in [Threads -> Responses \cup {None}]
         /\ \A u \in Threads \ {t} : /\ pc'[u] = pc[u] /\ request'[u] = request[u]
                                     /\ entry'[u] = entry[u] /\ response'[u] = response[u]
         /\ \/ /\ pc'[t] # "idle" /\ request'[t] = request[t]
               /\ ~Store(t) /\ ~Erase(t)
            \/ /\ pc'[t] = "idle" /\ response'[t] # None
               /\ \/ /\ Store(t) /\ ~Erase(t) /\ response'[t].status = "OK"
                     /\ request[t].op \in {"CREATE", "UPDATE"}
                  \/ /\ Erase(t) /\ ~Store(t) /\ response'[t].status = "OK"
                     /\ request[t].op = "DELETE"
                  \/ /\ ~Store(t) /\ ~Erase(t)
                     /\ response'[t].status = "OK" => request[t].op = "READ"
         /\ pc'[t] = "store" /\ request'[t].op = "UPDATE" =>
              entry'[t].id = request'[t].entry.id
<1>0. /\ TypeOK /\ ThreadSound(t)
      /\ pc \in [Threads -> Steps] /\ entry \in [Threads -> Entry \cup {None}]
      /\ request \in [Threads -> Requests \cup {None}]
      /\ response \in [Threads -> Responses \cup {None}]
  BY DEF RequestInv, TypeOK
<1>1. RequestInv'
  BY RequestStepInv DEF Next, ThreadStep
<1>2. /\ response' \in [Threads -> Responses \cup {None}]
      /\ ThreadSound(t)'
  BY <1>1 DEF RequestInv, TypeOK
<1>3. None \notin Responses
  BY RequestAssumption
<1>4. /\ Store(t) => pc[t] = "store" /\ pc'[t] = "idle" /\ faults' = faults
      /\ Erase(t) => pc[t] = "erase" /\ pc'[t] = "idle" /\ faults' = faults
  BY <1>0 DEF Store, Erase, Reply, bounds
<1>5. CASE PrepareEntry(t) \/ AssignId(t) \/ Lookup(t) \/ FetchOld(t) \/ Stamp(t)
  <2>1. /\ pc[t] # "idle" /\ pc'[t] # "idle" /\ request' = request /\ response' = response
        /\ \A u \in Threads \ {t} : pc'[u] = pc[u] /\ entry'[u] = entry[u]
    BY <1>0, <1>5 DEF PrepareEntry, AssignId, Lookup, FetchOld, Stamp, Goto
  <2>2. ~Store(t) /\ ~Erase(t)
    BY <1>4, <2>1
  <2>3. pc'[t] = "store" /\ request'[t].op = "UPDATE" =>
              entry'[t].id = request'[t].entry.id
    <3>1. CASE Stamp(t)
      BY <1>0, <2>1, <3>1 DEF Stamp
    <3>2. CASE PrepareEntry(t) \/ AssignId(t)
      BY <1>0, <2>1, <3>2 DEF PrepareEntry, AssignId, ThreadSound
    <3>3. CASE Lookup(t) \/ FetchOld(t)
      BY <1>0, <3>3 DEF Lookup, FetchOld, Goto
    <3> QED BY <1>5, <3>1, <3>2, <3>3
  <2> QED BY <1>2, <2>1, <2>2, <2>3
<1>6. CASE \/ Store(t) \/ Miss(t) \/ FetchMiss(t) \/ FetchRead(t) \/ Erase(t)
           \/ IoError(t)
  <2>1. PICK status, e : /\ Reply(t, status, e)
                         /\ [status |-> status, entry |-> e] \in Responses
    <3>1. CASE Store(t)
      BY <1>0, <3>1 DEF Store, Responses
    <3>2. CASE FetchRead(t)
      <4>1. FoundRow(t) \in Entry \cup {None}
        BY <1>0, <3>2 DEF FetchRead, FetchRow, FoundRow, TypeOK, StorageTypeOK, Cursor, Data
      <4> QED BY <3>2, <4>1 DEF FetchRead, Responses
    <3>3. CASE Miss(t) \/ FetchMiss(t) \/ Erase(t) \/ IoError(t)
      BY <3>3 DEF Miss, FetchMiss, Erase, IoError, Responses
    <3> QED BY <1>6, <3>1, <3>2, <3>3
  <2>2. /\ pc[t] # "idle" /\ pc'[t] = "idle"
        /\ \A u \in Threads \ {t} : /\ pc'[u] = pc[u] /\ request'[u] = request[u]
                                    /\ entry'[u] = entry[u] /\ response'[u] = response[u]
    BY <1>0, <1>6, <2>1 DEF Reply, Store, Miss, FetchMiss, FetchRead, Erase, IoError
  <2>3. response'[t] # None
    BY <1>0, <1>2, <2>1, <1>3 DEF Reply
  <2>4. CASE Store(t)
    <3>1. ~Erase(t) /\ request[t].op \in {"CREATE", "UPDATE"}
      BY <1>0, <1>4, <2>4 DEF ThreadSound
    <3>2. response'[t].status = "OK"
      BY <1>0, <2>4 DEF Store, Reply
    <3> QED BY <1>2, <2>2, <2>3, <2>4, <3>1, <3>2
  <2>5. CASE Erase(t)
    <3>1. ~Store(t) /\ request[t].op = "DELETE"
      BY <1>0, <1>4, <2>5 DEF ThreadSound
    <3>2. response'[t].status = "OK"
      BY <1>0, <2>5 DEF Erase, Reply
    <3> QED BY <1>2, <2>2, <2>3, <2>5, <3>1, <3>2
  <2>6. CASE Miss(t) \/ FetchMiss(t) \/ FetchRead(t)
    <3>1. ~Store(t) /\ ~Erase(t)
      BY <1>4, <2>6 DEF Miss, FetchMiss, FetchRead
    <3>2. response'[t].status = "OK" => request[t].op = "READ"
      BY <1>0, <2>6 DEF Miss, FetchMiss, FetchRead, Reply
    <3> QED BY <1>2, <2>2, <2>3, <3>1, <3>2
  <2>7. CASE IoError(t)
    <3>1. ~Store(t) /\ ~Erase(t)
      BY <1>0, <1>4, <2>7 DEF IoError, TypeOK
    <3>2. response'[t].status # "OK"
      BY <1>0, <2>7 DEF IoError, Reply
    <3> QED BY <1>2, <2>2, <2>3, <3>1, <3>2
  <2> QED BY <1>6, <2>4, <2>5, <2>6, <2>7
<1> QED BY <1>5, <1>6 DEF Proceed

-----------------------------------------------------------------------------
(* A status and its HTTP code say the same. *)
LEMMA CodeTells ==
  ASSUME NEW h \in HttpRequests, NEW status, NEW did, Did(h, status, did)
  PROVE  Tells(h, HttpCode(h, status), did)
<1>1. h.method \in {"GET", "PUT", "POST", "DELETE"}
  BY DEF HttpRequests
<1> QED BY <1>1 DEF Did, Tells, HttpCode, mapStatus, HasBody

(* A reply is an HttpResponse. *)
LEMMA ReplyType ==
  ASSUME NEW h \in HttpRequests, NEW r \in Responses
  PROVE  [to |-> h, code |-> HttpCode(h, r.status), entry |-> r.entry] \in HttpResponses
<1>1. r.entry \in Entry \cup {None}
  BY DEF Responses
<1>2. HttpCode(h, r.status) \in {200, 201, 204, 400, 404, 500}
  BY DEF HttpCode, mapStatus
<1> QED BY <1>1, <1>2 DEF HttpResponses

LEMMA GatewayInitInv == HttpInit => GatewayInv
<1> SUFFICES ASSUME HttpInit PROVE GatewayInv
  OBVIOUS
<1>1. RefinementInv
  BY RefinementInitInv DEF HttpInit
<1>2. HttpTypeOK
  BY <1>1 DEF HttpInit, HttpTypeOK, RefinementInv, RequestInv, Effects
<1>3. \A t \in Workers : WorkerSound(t)
  BY ControllerAssumption DEF HttpInit, WorkerSound, Init
<1> QED BY <1>1, <1>2, <1>3 DEF GatewayInv

(***************************************************************************)
(* What is left of WorkerSound to prove for a step of one thread: nobody   *)
(* else's part of it changes.                                              *)
(***************************************************************************)
Untouched(u) ==
  /\ pc'[u] = pc[u] /\ request'[u] = request[u] /\ entry'[u] = entry[u]
  /\ response'[u] = response[u] /\ http'[u] = http[u]
  /\ reply'[u] = reply[u] /\ effect'[u] = effect[u]

LEMMA UntouchedSound ==
  ASSUME NEW u \in Workers, WorkerSound(u), Untouched(u)
  PROVE  WorkerSound(u)'
<1>1. /\ BadBody(http[u])' = BadBody(http[u])
      /\ ToRequest(http[u])' = ToRequest(http[u])
      /\ Did(http[u], response[u].status, effect[u])'
           = Did(http[u], response[u].status, effect[u])
      /\ Tells(reply[u].to, reply[u].code, effect[u])'
           = Tells(reply[u].to, reply[u].code, effect[u])
  BY DEF Untouched, BadBody, ToRequest, Did, Tells, HasBody, Parsed, Operation
<1> QED BY <1>1 DEF Untouched, WorkerSound

(***************************************************************************)
(* What the history records: a store by Store; that an id is left without  *)
(* its entry by no other step than Erase; and of an Erase that finds none, *)
(* that the id had one during the call, which is why it came to erase.     *)
(***************************************************************************)
LEMMA EffectStep ==
  ASSUME GatewayInv, NEW t \in Workers, Execute(t), effect[t] = "none"
  PROVE  /\ effect'[t] = "stored" <=> Store(t)
         /\ effect'[t] = "erased" => Erase(t)
         /\ Erase(t) => effect'[t] \in {"erased", "overtaken"}
         /\ pc'[t] # "idle" => effect'[t] = effect[t]
<1>0. /\ RefinementInv /\ RequestInv /\ t \in Threads /\ Proceed(t)
      /\ pc \in [Threads -> Steps]
  BY ControllerAssumption DEF GatewayInv, RefinementInv, RequestInv, TypeOK, Execute
<1>1. effect'[t] = IF Store(t) THEN "stored"
                   ELSE IF Held \ Held' # {} THEN "erased"
                   ELSE IF Overtaken(t) THEN "overtaken" ELSE "none"
  BY <1>0 DEF GatewayInv, HttpTypeOK, Execute
<1>2. /\ Held = {id \in Ids : Map[id] # None}
      /\ Held' = {id \in Ids : Map'[id] # None}
  BY MapIs DEF Held, Live, LiveAt, EncodeIndexKey
<1>3. ~Store(t) /\ ~Erase(t) => Held' = Held
  <2> SUFFICES ASSUME ~Store(t), ~Erase(t) PROVE Held' = Held
    OBVIOUS
  <2>1. index' = index /\ data' = data
    BY <1>0 DEF Proceed, PrepareEntry, AssignId, GetNextId, Miss, Lookup, LookupIndex,
                FetchMiss, FetchRead, FetchOld, FetchRow, Stamp, IoError, storageVars
  <2> QED BY <1>2, <2>1, MapIs
<1>4. ASSUME Erase(t)
      PROVE  Held \ Held' # {} \/ Overtaken(t)
  <2>1. /\ Target(request[t]) \in Ids
        /\ Map' = [Map EXCEPT ![Target(request[t])] = None]
        /\ pc[t] = "erase" /\ pc'[t] = "idle"
    BY <1>0, <1>4, EraseChangesMap DEF Erase, Reply
  <2>2. seen[t] \ {None} # {} /\ request[t].op = "DELETE"
    BY <1>0, <2>1 DEF RefinementInv, SeenSound, RequestInv, ThreadSound
  <2>3. Target(request[t]) \in Held => Target(request[t]) \in Held \ Held'
    BY <1>2, <2>1 DEF Map
  <2> QED BY <2>1, <2>2, <2>3 DEF Overtaken
<1>5. Store(t) => ~Erase(t)
  BY DEF Store, Erase
<1>6. Store(t) \/ Erase(t) \/ Overtaken(t) => pc'[t] = "idle"
  BY <1>0 DEF Store, Erase, Reply, Overtaken
<1>7. effect'[t] = "erased" => Erase(t)
  BY <1>1, <1>3
<1>8. Erase(t) => effect'[t] \in {"erased", "overtaken"}
  BY <1>1, <1>4, <1>5
<1>9. pc'[t] # "idle" => effect'[t] = effect[t]
  BY <1>1, <1>3, <1>6
<1> QED BY <1>1, <1>7, <1>8, <1>9

(* A worker's call goes on or ends. *)
LEMMA ExecutePreserves ==
  ASSUME GatewayInv, RefinementInv', NEW t \in Workers, Execute(t)
  PROVE  GatewayInv'
<1>0. /\ HttpTypeOK /\ RefinementInv /\ RequestInv /\ \A u \in Workers : WorkerSound(u)
      /\ t \in Threads /\ Proceed(t)
      /\ http' = http /\ reply' = reply
      /\ effect' \in [Threads -> Effects]
      /\ \A u \in Threads \ {t} : effect'[u] = effect[u]
  BY ControllerAssumption DEF GatewayInv, RefinementInv, Execute, HttpTypeOK, Effects
<1>1. /\ pc[t] # "idle"
      /\ \A u \in Threads \ {t} : /\ pc'[u] = pc[u] /\ request'[u] = request[u]
                                  /\ entry'[u] = entry[u] /\ response'[u] = response[u]
      /\ pc'[t] = "store" /\ request'[t].op = "UPDATE" =>
           entry'[t].id = request'[t].entry.id
  BY <1>0, ProceedStep
<1>2. /\ http[t] \in HttpRequests /\ ~BadBody(http[t])
      /\ effect[t] = "none" /\ request[t] = ToRequest(http[t])
      /\ request[t].op = Operation(http[t].method)
      /\ http[t].method \in {"GET", "PUT", "POST", "DELETE"}
  BY <1>0, <1>1, RequestOfHttp DEF WorkerSound, HttpTypeOK
<1>3. /\ BadBody(http[t])' = BadBody(http[t])
      /\ ToRequest(http[t])' = ToRequest(http[t])
  BY <1>0 DEF BadBody, ToRequest, HasBody, Parsed, Operation
<1>4. WorkerSound(t)'
  <2>1. reply'[t] = None
    BY <1>0, <1>2, ControllerAssumption DEF WorkerSound
  <2>2. CASE pc'[t] # "idle"
    <3>1. request'[t] = request[t] /\ effect'[t] = effect[t]
      BY <1>0, <1>2, <2>2, ProceedStep, EffectStep
    <3> QED BY <1>0, <1>1, <1>2, <1>3, <2>1, <2>2, <3>1 DEF WorkerSound
  <2>3. CASE pc'[t] = "idle"
    <3>1. response'[t] # None
      BY <1>0, <2>3, ProceedStep
    <3>2. Did(http[t], response'[t].status, effect'[t])
      BY <1>0, <1>2, <2>3, ProceedStep, EffectStep DEF Did, HasBody, Operation
    <3>3. Did(http[t], response[t].status, effect[t])'
      BY <1>0, <3>2 DEF Did, HasBody
    <3> QED BY <1>0, <1>2, <1>3, <2>1, <2>3, <3>1, <3>3 DEF WorkerSound
  <2> QED BY <2>2, <2>3
<1>5. ASSUME NEW u \in Workers \ {t}
      PROVE  WorkerSound(u)'
  <2>1. Untouched(u)
    BY <1>0, <1>1, ControllerAssumption DEF Untouched
  <2> QED BY <1>0, <2>1, UntouchedSound
<1>6. HttpTypeOK'
  BY <1>0 DEF HttpTypeOK, RefinementInv, RequestInv, Effects
<1> QED BY <1>4, <1>5, <1>6 DEF GatewayInv

(* A worker takes an HTTP request. *)
LEMMA HandlePreserves ==
  ASSUME GatewayInv, RefinementInv', NEW t \in Workers, NEW h \in HttpRequests, Handle(t, h)
  PROVE  GatewayInv'
<1> DEFINE r == ToRequest(h)
<1>0. /\ HttpTypeOK /\ RefinementInv /\ RequestInv /\ \A u \in Workers : WorkerSound(u)
      /\ t \in Threads /\ ~BadBody(h) /\ h # None
      /\ http' = [http EXCEPT ![t] = h]
      /\ reply' = [reply EXCEPT ![t] = None]
      /\ effect' = [effect EXCEPT ![t] = "none"]
  BY ControllerAssumption DEF GatewayInv, RefinementInv, Handle
<1>1. /\ pc \in [Threads -> Steps] /\ entry \in [Threads -> Entry \cup {None}]
      /\ request \in [Threads -> Requests \cup {None}]
      /\ response \in [Threads -> Responses \cup {None}]
  BY <1>0 DEF RequestInv, TypeOK
<1>2. HttpTypeOK'
  BY <1>0 DEF HttpTypeOK, RefinementInv, RequestInv, Effects
<1>3. /\ BadBody(h)' = BadBody(h) /\ r' = r
      /\ http'[t] = h /\ reply'[t] = None /\ effect'[t] = "none"
  BY <1>0 DEF HttpTypeOK, BadBody, ToRequest, HasBody, Parsed, Operation
<1>4. WorkerSound(t)'
  <2>1. CASE Accept(t, r)
    <3>1. pc'[t] \in {"prepare", "lookup"} /\ request'[t] = r
      BY <1>0, <1>1, <2>1 DEF Accept
    <3> QED BY <1>0, <1>3, <3>1 DEF WorkerSound, BadBody, ToRequest
  <2>2. CASE Refuse(t, r)
    <3>1. pc'[t] = "idle" /\ response'[t] = [status |-> "INVALID_ARGUMENT", entry |-> None]
      BY <1>0, <1>1, <2>2 DEF Refuse, Reply
    <3>2. response'[t] # None
      <4>1. [status |-> "INVALID_ARGUMENT", entry |-> None] \in Responses
        BY DEF Responses
      <4> QED BY <3>1, <4>1, RequestAssumption
    <3>3. Did(http[t], response[t].status, effect[t])'
      BY <1>3, <3>1 DEF Did, HasBody
    <3> QED BY <1>0, <1>3, <3>1, <3>2, <3>3 DEF WorkerSound, BadBody
  <2> QED BY <2>1, <2>2 DEF Handle
<1>5. ASSUME NEW u \in Workers \ {t}
      PROVE  WorkerSound(u)'
  <2>1. /\ pc'[u] = pc[u] /\ request'[u] = request[u] /\ entry'[u] = entry[u]
        /\ response'[u] = response[u]
    BY <1>0, <1>1, ControllerAssumption DEF Handle, Accept, Refuse, Reply
  <2>2. Untouched(u)
    BY <1>0, <2>1, ControllerAssumption DEF Untouched, HttpTypeOK
  <2> QED BY <1>0, <2>2, UntouchedSound
<1> QED BY <1>2, <1>4, <1>5 DEF GatewayInv

(* A worker answers, with or without having called ExecuteRequest. *)
LEMMA AnswerPreserves ==
  ASSUME GatewayInv, RefinementInv', NEW t \in Workers,
         Respond(t) \/ \E h \in HttpRequests : RejectBody(t, h)
  PROVE  GatewayInv'
<1>0. /\ HttpTypeOK /\ RefinementInv /\ RequestInv /\ \A u \in Workers : WorkerSound(u)
      /\ t \in Threads
      /\ pc' = pc /\ request' = request /\ entry' = entry /\ response' = response
  BY ControllerAssumption DEF GatewayInv, RefinementInv, Respond, RejectBody, vars, threadVars
<1>1. response \in [Threads -> Responses \cup {None}]
  BY <1>0 DEF RequestInv, TypeOK
<1>2. /\ http' \in [Threads -> HttpRequests \cup {None}] /\ http'[t] = None
      /\ reply' \in [Threads -> HttpResponses \cup {None}]
      /\ effect' \in [Threads -> Effects]
      /\ \A u \in Threads \ {t} : /\ http'[u] = http[u] /\ reply'[u] = reply[u]
                                  /\ effect'[u] = effect[u]
      /\ pc[t] = "idle"
      /\ Tells(reply'[t].to, reply'[t].code, effect'[t])
  <2>1. CASE Respond(t)
    <3>1. /\ pc[t] = "idle" /\ http[t] \in HttpRequests
          /\ response[t] \in Responses
          /\ Did(http[t], response[t].status, effect[t])
      BY <1>0, <1>1, <2>1 DEF Respond, WorkerSound, HttpTypeOK
    <3> DEFINE answer == [to |-> http[t], code |-> HttpCode(http[t], response[t].status),
                          entry |-> response[t].entry]
    <3>2. answer \in HttpResponses
      BY <3>1, ReplyType
    <3>3. /\ reply' = [reply EXCEPT ![t] = answer] /\ effect' = effect
          /\ http' = [http EXCEPT ![t] = None]
      BY <2>1 DEF Respond
    <3>4. Tells(http[t], answer.code, effect[t])
      BY <3>1, CodeTells
    <3>5. /\ reply'[t] = answer /\ answer.to = http[t] /\ effect'[t] = effect[t]
      BY <1>0, <3>3 DEF HttpTypeOK
    <3> HIDE DEF answer
    <3> QED BY <1>0, <3>1, <3>2, <3>3, <3>4, <3>5 DEF HttpTypeOK
  <2>2. CASE \E h \in HttpRequests : RejectBody(t, h)
    <3>1. PICK h \in HttpRequests : RejectBody(t, h)
      BY <2>2
    <3> DEFINE answer == [to |-> h, code |-> 400, entry |-> None]
    <3>2. answer \in HttpResponses
      BY DEF HttpResponses
    <3>3. /\ reply' = [reply EXCEPT ![t] = answer] /\ effect' = [effect EXCEPT ![t] = "none"]
          /\ http' = http /\ http[t] = None
      BY <3>1 DEF RejectBody
    <3>4. /\ reply'[t] = answer /\ answer.code = 400 /\ effect'[t] = "none"
      BY <1>0, <3>3 DEF HttpTypeOK
    <3>5. pc[t] = "idle"
      BY <1>0, <3>3 DEF WorkerSound
    <3>6. Tells(reply'[t].to, reply'[t].code, effect'[t])
      BY <3>4 DEF Tells
    <3> HIDE DEF answer
    <3> QED BY <1>0, <3>2, <3>3, <3>5, <3>6 DEF HttpTypeOK, Effects
  <2> QED BY <2>1, <2>2
<1>3. HttpTypeOK'
  BY <1>2 DEF HttpTypeOK, RefinementInv, RequestInv, Effects
<1>4. WorkerSound(t)'
  <2>1. Tells(reply[t].to, reply[t].code, effect[t])'
    BY <1>2 DEF Tells, HasBody
  <2> QED BY <1>0, <1>2, <2>1 DEF WorkerSound
<1>5. ASSUME NEW u \in Workers \ {t}
      PROVE  WorkerSound(u)'
  <2>1. Untouched(u)
    BY <1>0, <1>2, ControllerAssumption DEF Untouched
  <2> QED BY <1>0, <2>1, UntouchedSound
<1> QED BY <1>3, <1>4, <1>5 DEF GatewayInv

LEMMA GatewayStepInv == GatewayInv /\ [HttpNext]_allVars => GatewayInv' /\ [Next]_vars
<1> SUFFICES ASSUME GatewayInv, [HttpNext]_allVars
             PROVE  GatewayInv' /\ [Next]_vars
  OBVIOUS
<1>1. [Next]_vars
  BY GatewayStep
<1> SUFFICES GatewayInv'
  BY <1>1
<1>2. RefinementInv'
  BY <1>1, RefinementStepInv DEF GatewayInv
<1>3. CASE \E t \in Workers : \/ \E h \in HttpRequests : RejectBody(t, h) \/ Handle(t, h)
                              \/ Execute(t) \/ Respond(t)
  BY <1>2, <1>3, HandlePreserves, AnswerPreserves, ExecutePreserves
<1>4. CASE HttpDeath
  <2>1. \A t \in Workers : WorkerSound(t)'
    BY <1>4, ControllerAssumption
       DEF HttpDeath, ProcessRestart, MachineRestart, Die, WorkerSound
  <2>2. HttpTypeOK'
    BY <1>2, <1>4 DEF HttpDeath, HttpTypeOK, RefinementInv, RequestInv, Effects
  <2> QED BY <1>2, <2>1, <2>2 DEF GatewayInv
<1>5. CASE UNCHANGED httpVars
           /\ \/ \E t \in Threads \ Workers : ThreadStep(t)
              \/ Tick \/ Sync \/ UNCHANGED vars
  <2>1. ASSUME NEW u \in Workers
        PROVE  WorkerSound(u)'
    <3>1. /\ pc'[u] = pc[u] /\ request'[u] = request[u] /\ entry'[u] = entry[u]
          /\ response'[u] = response[u]
      <4>1. CASE Tick \/ Sync \/ UNCHANGED vars
        BY <4>1 DEF Tick, Sync, vars, threadVars
      <4>2. CASE \E t \in Threads \ Workers : ThreadStep(t)
        <5>1. PICK t \in Threads \ Workers : ThreadStep(t)
          BY <4>2
        <5>2. CASE Proceed(t)
          BY <5>1, <5>2, ProceedStep, ControllerAssumption DEF GatewayInv, RefinementInv
        <5>3. CASE \E r \in Requests : Refuse(t, r) \/ Accept(t, r)
          BY <5>3, ControllerAssumption
             DEF GatewayInv, RefinementInv, RequestInv, TypeOK, Refuse, Accept, Reply
        <5> QED BY <5>1, <5>2, <5>3 DEF ThreadStep
      <4> QED BY <1>5, <4>1, <4>2
    <3>2. Untouched(u)
      BY <1>5, <3>1 DEF Untouched, httpVars
    <3> QED BY <3>2, UntouchedSound DEF GatewayInv
  <2>2. HttpTypeOK'
    BY <1>2, <1>5 DEF GatewayInv, HttpTypeOK, RefinementInv, RequestInv, httpVars
  <2> QED BY <1>2, <2>1, <2>2 DEF GatewayInv
<1> QED BY <1>3, <1>4, <1>5 DEF HttpNext, allVars

LEMMA GatewayInvariance == HttpSpec => []GatewayInv
BY GatewayInitInv, GatewayStepInv, PTL DEF HttpSpec

-----------------------------------------------------------------------------
(***************************************************************************)
(* Every reply is a well-formed one, and what the workers hold has its     *)
(* type, in particular every request they execute is one for an id of the  *)
(* path or of the body.                                                    *)
(***************************************************************************)
THEOREM HttpTypeCorrect == HttpSpec => []HttpTypeOK
<1>1. GatewayInv => HttpTypeOK
  BY DEF GatewayInv
<1> QED BY <1>1, GatewayInvariance, PTL

(***************************************************************************)
(* The gateway calls ExecuteRequest only with requests and in the order    *)
(* that the server's specification allows: what holds of Spec holds of     *)
(* the server behind the gateway.                                          *)
(***************************************************************************)
THEOREM GatewayUsesServer == HttpSpec => Spec
<1>1. HttpInit => Init
  BY DEF HttpInit
<1> QED BY <1>1, GatewayInvariance, GatewayStepInv, PTL DEF HttpSpec, Spec

(***************************************************************************)
(* So clients of the gateway and of the tunnels together see one map from  *)
(* ids to entries, whichever way each call came.                           *)
(***************************************************************************)
THEOREM GatewayImplementsEntryStore == HttpSpec => ImplementsEntryStore
BY GatewayUsesServer, ServerImplementsEntryStore, PTL

(***************************************************************************)
(* Under the workers' concurrent calls the index never leads to a missing  *)
(* row or to another id's, nor would it after a power loss.                *)
(***************************************************************************)
THEOREM GatewayIndexSound == HttpSpec => [](IndexSound /\ DurableSound)
<1>1. StorageInv => IndexSound /\ DurableSound
  BY DEF StorageInv
<1> QED BY <1>1, GatewayUsesServer, UsesStorage, StorageInvariance, PTL

(***************************************************************************)
(* Nobody reads an entry that was updated before it was created, whatever  *)
(* PUTs race with POSTs and DELETEs, as long as the clock is not set back. *)
(***************************************************************************)
THEOREM GatewayUpdatesFollowCreation ==
  ASSUME ClockStepsBack = FALSE
  PROVE  HttpSpec => []UpdatedAfterCreated
<1>1. Spec => []UpdatedAfterCreated
  BY UpdatesFollowCreation
<1> QED BY <1>1, GatewayUsesServer, PTL

(***************************************************************************)
(* For any number of workers, requests, I/O errors and restarts: a reply   *)
(* says 201, or 200 to a PUT, exactly if its call stored the entry, a call *)
(* that took an entry from the readers says 204, and 204 is only said if   *)
(* this call or one that overlapped it took the entry away.                *)
(***************************************************************************)
THEOREM StatusAlwaysTells == HttpSpec => []StatusTellsEffect
<1>1. GatewayInv => StatusTellsEffect
  BY DEF GatewayInv, WorkerSound, StatusTellsEffect
<1> QED BY <1>1, GatewayInvariance, PTL

-----------------------------------------------------------------------------
(* The key that the index holds for an id is of that id. *)
LEMMA IndexedKey ==
  ASSUME StorageInv, NEW id \in Ids, index[EncodeIndexKey(id)] # None
  PROVE  /\ index[EncodeIndexKey(id)] \in CompositeKeys
         /\ index[EncodeIndexKey(id)][2] = id
<1> DEFINE key == index[EncodeIndexKey(id)]
<1>1. /\ EncodeIndexKey(id) \in IndexKeys /\ DecodeIndexKey(EncodeIndexKey(id)) = id
  BY IndexKeyBijection
<1>2. key \in CompositeKeys /\ data[key] \in Entry \cup {None}
  BY <1>1 DEF StorageInv, StorageTypeOK, Index, Data
<1>3. data[key] # None /\ data[key].id = id /\ PrimaryKey(data[key]) = key
  BY <1>1 DEF StorageInv, IndexSound, SoundStore
<1> QED BY <1>2, <1>3, PrimaryKeyId

(***************************************************************************)
(* Storing or erasing changes what a reader gets for one id: no other id's *)
(* index entry or row is at the keys that are written.                     *)
(***************************************************************************)
LEMMA WriteTouchesOneId ==
  ASSUME StorageInv, NEW own \in Ids, NEW id \in Ids, id # own,
         NEW pk, pk[2] = own, NEW k, NEW row,
         index' = [index EXCEPT ![EncodeIndexKey(own)] = k],
         data' = [data EXCEPT ![pk] = row]
  PROVE  Live(id)' = Live(id)
<1>1. /\ EncodeIndexKey(id) \in IndexKeys /\ EncodeIndexKey(own) # EncodeIndexKey(id)
      /\ EncodeIndexKey(id)' = EncodeIndexKey(id)
  BY IndexKeyBijection DEF EncodeIndexKey
<1>2. index'[EncodeIndexKey(id)] = index[EncodeIndexKey(id)]
  BY <1>1 DEF StorageInv, StorageTypeOK, Index
<1>3. CASE index[EncodeIndexKey(id)] = None
  BY <1>1, <1>2, <1>3 DEF Live
<1>4. CASE index[EncodeIndexKey(id)] # None
  <2>1. index[EncodeIndexKey(id)] # pk /\ index[EncodeIndexKey(id)] \in CompositeKeys
    BY <1>4, IndexedKey
  <2>2. data'[index[EncodeIndexKey(id)]] = data[index[EncodeIndexKey(id)]]
    BY <2>1 DEF StorageInv, StorageTypeOK, Data
  <2> QED BY <1>1, <1>2, <2>2 DEF Live
<1> QED BY <1>3, <1>4

(* A step of a call changes at most what a reader gets for its own id. *)
LEMMA CallTouchesOneId ==
  ASSUME RequestInv, NEW t \in Threads, Proceed(t), NEW id \in Ids, Live(id)' # Live(id)
  PROVE  \/ Store(t) /\ id = entry[t].id
         \/ Erase(t) /\ id = Target(request[t])
<1>0. /\ StorageInv /\ TypeOK /\ ThreadSound(t)
  BY DEF RequestInv
<1>1. CASE Store(t)
  <2>1. entry[t] \in Entry
    BY <1>0, <1>1 DEF Store, ThreadSound, TypeOK
  <2>2. entry[t].id \in Ids /\ PrimaryKey(entry[t])[2] = entry[t].id
    BY <2>1, PrimaryKeyId DEF Entry
  <2>3. /\ index' = [index EXCEPT ![EncodeIndexKey(entry[t].id)] = PrimaryKey(entry[t])]
        /\ data' = [data EXCEPT ![PrimaryKey(entry[t])] = entry[t]]
    BY <1>1 DEF Store, StoreEntry
  <2> QED BY <1>0, <1>1, <2>2, <2>3, WriteTouchesOneId
<1>2. CASE Erase(t)
  <2> DEFINE own == Target(request[t])
             pk == cursor[t].primary_key
  <2>1. /\ request[t] \in Requests /\ ~Refused(request[t]) /\ request[t].op = "DELETE"
    BY <1>0, <1>2 DEF Erase, ThreadSound, TypeOK
  <2>2. own \in Ids
    BY <2>1, RequestFields
  <2>3. /\ cursor[t] # None /\ cursor[t].index_key = EncodeIndexKey(own)
    BY <1>0, <1>2 DEF Erase, DeleteRows, ThreadSound
  <2>4. pk[2] = own
    BY <1>0, <2>2, <2>3, IndexKeyBijection DEF StorageInv, CursorSound
  <2>5. /\ index' = [index EXCEPT ![EncodeIndexKey(own)] = None]
        /\ data' = [data EXCEPT ![pk] = None]
    BY <1>2, <2>3 DEF Erase, DeleteRows
  <2> HIDE DEF own, pk
  <2>6. id = own
    BY <1>0, <2>2, <2>4, <2>5, WriteTouchesOneId
  <2> QED BY <1>2, <2>6 DEF own
<1>3. CASE ~Store(t) /\ ~Erase(t)
  <2>1. index' = index /\ data' = data
    BY <1>3 DEF Proceed, PrepareEntry, AssignId, GetNextId, Miss, Lookup, LookupIndex,
                FetchMiss, FetchRead, FetchOld, FetchRow, Stamp, IoError, storageVars
  <2>2. Live(id)' = Live(id)
    BY <2>1 DEF Live, EncodeIndexKey
  <2> QED BY <2>2
<1> QED BY <1>1, <1>2, <1>3

(***************************************************************************)
(* The id of the path is the only one that a PUT or a DELETE changes, for  *)
(* any number of workers and whatever other calls do between its lookup    *)
(* and its write.                                                          *)
(***************************************************************************)
THEOREM OnlyPathAlwaysTouched == HttpSpec => OnlyPathTouched
<1> DEFINE Touches(t) ==
             Execute(t) =>
               \A id \in Ids : Live(id)' # Live(id) =>
                 \/ http[t].method = "POST"
                 \/ http[t].method \in {"PUT", "DELETE"} /\ id = http[t].id
<1>1. GatewayInv /\ [HttpNext]_allVars => [\A t \in Workers : Touches(t)]_allVars
  <2> SUFFICES ASSUME GatewayInv, NEW t \in Workers, Execute(t),
                      NEW id \in Ids, Live(id)' # Live(id)
               PROVE  \/ http[t].method = "POST"
                      \/ http[t].method \in {"PUT", "DELETE"} /\ id = http[t].id
    OBVIOUS
  <2>1. /\ HttpTypeOK /\ RequestInv /\ WorkerSound(t) /\ t \in Threads /\ Proceed(t)
    BY ControllerAssumption DEF GatewayInv, RefinementInv, Execute
  <2>2. /\ http[t] \in HttpRequests /\ ~BadBody(http[t])
        /\ request[t] = ToRequest(http[t])
    BY <2>1, ProceedStep DEF WorkerSound, HttpTypeOK
  <2>3. /\ http[t].method \in {"GET", "PUT", "POST", "DELETE"}
        /\ request[t].op = Operation(http[t].method)
        /\ http[t].method \in {"PUT", "DELETE"} => Target(request[t]) = http[t].id
    BY <2>2, RequestOfHttp
  <2>4. CASE Store(t) /\ id = entry[t].id
    <3>1. request[t].op \in {"CREATE", "UPDATE"} /\ pc[t] = "store"
      BY <2>1, <2>4 DEF Store, RequestInv, ThreadSound
    <3>2. request[t].op = "UPDATE" => id = Target(request[t])
      BY <2>1, <2>4, <3>1 DEF WorkerSound, Target
    <3> QED BY <2>3, <3>1, <3>2 DEF Operation
  <2>5. CASE Erase(t) /\ id = Target(request[t])
    <3>1. request[t].op = "DELETE"
      BY <2>1, <2>5 DEF Erase, RequestInv, ThreadSound
    <3> QED BY <2>3, <2>5, <3>1 DEF Operation
  <2> QED BY <2>1, <2>4, <2>5, CallTouchesOneId
<1> QED BY <1>1, GatewayInvariance, PTL DEF HttpSpec, OnlyPathTouched
=============================================================================
