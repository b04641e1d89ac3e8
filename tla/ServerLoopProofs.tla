-------------------------- MODULE ServerLoopProofs --------------------------
(***************************************************************************)
(* For any number of clients, entries and places in a queue: the types of  *)
(* the loop's state, and OneReplyEach.                                     *)
(*                                                                         *)
(* OneReplyEach is not inductive: that SendResponse makes one reply, and   *)
(* to the right message, depends on whom the loop serves where, and on     *)
(* what HandleQuery has made of the message.  Paired says that.            *)
(***************************************************************************)
EXTENDS ServerLoop, TLAPS

Served == loop \in {"execute", "reply"}

(***************************************************************************)
(* What a client asks is what travels, what the loop executes and what its *)
(* response is to; only what it executes has anything in seen.             *)
(***************************************************************************)
Paired ==
  /\ Served <=> serving # None
  /\ serving # None => request = call[serving].message
  /\ loop # "reply" => response = None
  /\ loop = "execute" => request \in Queries \cup {Invalid}
  /\ loop = "reply" => Fits(request, response)
  /\ seen # {} <=> loop = "execute" /\ request \in Queries
  /\ \A c \in Clients :
       /\ query[c] # None => query[c] = call[c].message
       /\ call[c] \notin {None, Closed} => call[c] \in Calls

LoopInv == LoopTypeOK /\ Paired /\ OneReplyEach

-----------------------------------------------------------------------------
(* The sentinels are told apart from what they stand next to. *)
LEMMA Sentinels ==
  /\ None \notin Clients \cup Calls \cup Statuses \cup Queries \cup {Invalid, Garbage, Closed}
  /\ Closed \notin Calls
  /\ Garbage \notin EntryIds \cup Queries
  /\ Invalid \notin Queries
  /\ Hwm \in Nat /\ MaxFaults \in Nat
BY LoopAssumption

(* A message on either tunnel is of its sort. *)
LEMMA Messages ==
  ASSUME NEW c \in Clients
  PROVE  /\ Pushes(c) \subseteq EntryIds \cup {Garbage}
         /\ Asks(c) \subseteq Queries \cup {Invalid, Garbage}
BY DEF Pushes, Asks

LEMMA TunnelInvInit ==
  ASSUME TunnelInit, loop \in {"none", "poll"}
  PROVE  LoopInv
<1> USE DEF TunnelInit
<1>1. LoopTypeOK
  BY Sentinels DEF LoopTypeOK, Nothing
<1>2. Paired
  BY Sentinels DEF Paired, Served
<1>3. OneReplyEach
  <2> SUFFICES ASSUME NEW c \in Clients
               PROVE  /\ Count(query[c] # None) + Count(serving = c) + Count(reply[c] # None)
                           = Count(In(c, "ask"))
                      /\ reply[c] = None
    BY DEF OneReplyEach
  <2>1. query[c] = None /\ serving # c /\ reply[c] = None /\ ~In(c, "ask")
    BY Sentinels DEF In
  <2> QED BY <2>1 DEF Count
<1> QED BY <1>1, <1>2, <1>3 DEF LoopInv

LEMMA LoopInvInit == LoopInit => LoopInv
BY TunnelInvInit DEF LoopInit

(***************************************************************************)
(* A step of the push tunnel, or of the gateway, leaves the query tunnel   *)
(* as it is, and the calls that wait for a reply.                          *)
(***************************************************************************)
QueriesKept ==
  /\ UNCHANGED <<query, reply, serving, request, response>>
  /\ loop' = loop \/ ~(Served \/ Served')
  /\ seen' = {} <=> seen = {}
  /\ \A c \in Clients :
       /\ call'[c] # call[c] => ~In(c, "ask") /\ ~In(c, "ask")'
       /\ call'[c] \notin {None, Closed} => call'[c] \in Calls

LEMMA KeptPaired ==
  ASSUME LoopInv, QueriesKept
  PROVE  Paired' /\ OneReplyEach'
<1> USE DEF LoopInv, QueriesKept
<1>1. \A c \in Clients : In(c, "ask")' <=> In(c, "ask")
  BY DEF In
<1>2. \A c \in Clients : query[c] # None \/ serving = c \/ reply[c] # None => In(c, "ask")
  BY DEF OneReplyEach, Count
<1>3. \A c \in Clients : query[c] # None \/ serving = c \/ reply[c] # None => call'[c] = call[c]
  BY <1>2
<1>4. serving # None => serving \in Clients /\ call'[serving] = call[serving]
  BY <1>3 DEF LoopTypeOK
<1>5. Paired'
  BY <1>3, <1>4 DEF Paired, Served
<1>6. OneReplyEach'
  BY <1>1, <1>3 DEF OneReplyEach, Count
<1> QED BY <1>5, <1>6

-----------------------------------------------------------------------------
(* The clients' steps. *)
LEMMA PushStep ==
  ASSUME LoopInv, NEW c \in Clients, CreateNoReply(c) \/ Pushed(c) \/ Close(c)
  PROVE  LoopInv'
<1> USE DEF LoopInv
<1>1. CASE CreateNoReply(c)
  <2> PICK m \in Pushes(c) : call' = [call EXCEPT ![c] = [kind |-> "push", message |-> m]]
    BY <1>1 DEF CreateNoReply
  <2>1. [kind |-> "push", message |-> m] \in Calls
    BY Messages DEF Calls
  <2>2. LoopTypeOK'
    BY <1>1, <2>1 DEF CreateNoReply, LoopTypeOK, loopVars, storeVars, flags
  <2>3. QueriesKept
    BY <1>1, <2>1, Sentinels DEF CreateNoReply, LoopTypeOK, Paired, QueriesKept, In, loopVars, storeVars
  <2> QED BY <2>2, <2>3, KeptPaired
<1>2. CASE Pushed(c)
  <2>1. call[c] \in Calls /\ call[c].kind = "push"
    BY <1>2 DEF Pushed, In, LoopTypeOK
  <2>2. call[c].message \in EntryIds \cup {Garbage}
    BY <2>1 DEF Calls
  <2>3. /\ Append(ingest[c], call[c].message) \in Seq(EntryIds \cup {Garbage})
        /\ Len(Append(ingest[c], call[c].message)) <= Hwm
    BY <1>2, <2>2, Sentinels DEF Pushed, LoopTypeOK
  <2>4. LoopTypeOK'
    BY <1>2, <2>3 DEF Pushed, LoopTypeOK, loopVars, storeVars, flags
  <2>5. QueriesKept
    BY <1>2, <2>1, Sentinels DEF Pushed, LoopTypeOK, Paired, QueriesKept, In, loopVars, storeVars
  <2> QED BY <2>4, <2>5, KeptPaired
<1>3. CASE Close(c)
  <2> PICK n \in 0 .. Len(ingest[c]) : ingest' = [ingest EXCEPT ![c] = SubSeq(@, 1, n)]
    BY <1>3 DEF Close
  <2>1. /\ SubSeq(ingest[c], 1, n) \in Seq(EntryIds \cup {Garbage})
        /\ Len(SubSeq(ingest[c], 1, n)) <= Hwm
    BY Sentinels DEF LoopTypeOK
  <2>2. LoopTypeOK'
    BY <1>3, <2>1 DEF Close, LoopTypeOK, loopVars, storeVars, flags
  <2>3. QueriesKept
    BY <1>3, Sentinels DEF Close, LoopTypeOK, Paired, QueriesKept, In, loopVars, storeVars
  <2> QED BY <2>2, <2>3, KeptPaired
<1> QED BY <1>1, <1>2, <1>3

LEMMA SendStep ==
  ASSUME LoopInv, NEW c \in Clients, SendRequest(c)
  PROVE  LoopInv'
<1> USE DEF LoopInv
<1> PICK m \in Asks(c) :
      /\ call' = [call EXCEPT ![c] = [kind |-> "ask", message |-> m]]
      /\ query' = [query EXCEPT ![c] = m]
  BY DEF SendRequest
<1>1. m \in Queries \cup {Invalid, Garbage} /\ m # None
  BY Messages, Sentinels
<1>2. [kind |-> "ask", message |-> m] \in Calls
  BY <1>1 DEF Calls
<1>3. LoopTypeOK'
  BY <1>1, <1>2 DEF SendRequest, LoopTypeOK, loopVars, storeVars, flags
<1>4. call[c] = None /\ query[c] = None /\ serving # c /\ reply[c] = None
  BY Sentinels DEF SendRequest, OneReplyEach, In, Count, LoopTypeOK
<1>5. call'[c] = [kind |-> "ask", message |-> m] /\ query'[c] = m
  BY DEF LoopTypeOK
<1>6. \A d \in Clients \ {c} : call'[d] = call[d] /\ query'[d] = query[d]
  BY DEF LoopTypeOK
<1>7. UNCHANGED <<reply, loop, serving, request, response, seen>>
  BY DEF SendRequest, loopVars, storeVars
<1>8. Paired'
  BY <1>2, <1>4, <1>5, <1>6, <1>7 DEF Paired, Served, LoopTypeOK
<1>9. In(c, "ask")'
  BY <1>2, <1>5, Sentinels DEF In
<1>10. OneReplyEach'
  BY <1>1, <1>4, <1>5, <1>6, <1>7, <1>9 DEF OneReplyEach, In, Count
<1> QED BY <1>3, <1>8, <1>10

LEMMA ReceiveStep ==
  ASSUME LoopInv, NEW c \in Clients, ReceiveReply(c)
  PROVE  LoopInv'
<1> USE DEF LoopInv
<1>1. LoopTypeOK'
  BY DEF ReceiveReply, LoopTypeOK, loopVars, storeVars, flags
<1>2. query[c] = None /\ serving # c
  BY DEF ReceiveReply, OneReplyEach, Count
<1>3. call'[c] = None /\ reply'[c] = None
  BY DEF ReceiveReply, LoopTypeOK
<1>4. \A d \in Clients \ {c} : call'[d] = call[d] /\ reply'[d] = reply[d]
  BY DEF ReceiveReply, LoopTypeOK
<1>5. UNCHANGED <<query, loop, serving, request, response, seen>>
  BY DEF ReceiveReply, loopVars, storeVars
<1>6. Paired'
  BY <1>2, <1>3, <1>4, <1>5 DEF Paired, Served, LoopTypeOK
<1>7. OneReplyEach'
  BY <1>2, <1>3, <1>4, <1>5 DEF OneReplyEach, In, Count
<1> QED BY <1>1, <1>6, <1>7

-----------------------------------------------------------------------------
(* The loop's steps. *)
LEMMA IngestStep ==
  ASSUME LoopInv, NEW c \in Clients, HandleIngest(c)
  PROVE  LoopInv'
<1> USE DEF LoopInv
<1>1. /\ Head(ingest[c]) \in EntryIds \cup {Garbage}
      /\ Tail(ingest[c]) \in Seq(EntryIds \cup {Garbage})
      /\ Len(Tail(ingest[c])) <= Hwm
  BY Sentinels DEF HandleIngest, LoopTypeOK
<1>2. loop' \in {"poll", "query"}
  BY DEF HandleIngest, AfterIngest
<1>3. stored' \subseteq EntryIds /\ faults' \in 0 .. MaxFaults
  BY <1>1, Sentinels DEF HandleIngest, IoError, LoopTypeOK
<1>4. LoopTypeOK'
  BY <1>1, <1>2, <1>3 DEF HandleIngest, Nothing, LoopTypeOK, flags
<1>5. QueriesKept
  BY <1>2 DEF HandleIngest, QueriesKept, Paired, Served
<1> QED BY <1>4, <1>5, KeptPaired

(* The message goes from its way into the loop's hands. *)
LEMMA QueryStep ==
  ASSUME LoopInv, NEW c \in Clients, HandleQuery(c)
  PROVE  LoopInv'
<1> USE DEF LoopInv
<1>1. query[c] \in Queries \cup {Invalid, Garbage} /\ query[c] # None
  BY DEF HandleQuery, LoopTypeOK
<1>2. SeenAtStart(query[c]) \subseteq {"there", "missing"} /\ (SeenAtStart(query[c]) # {} <=> query[c] \in Queries)
  BY DEF SeenAtStart
<1>3. LoopTypeOK'
  BY <1>1, <1>2 DEF HandleQuery, Statuses, Nothing, LoopTypeOK, flags
<1>4. query'[c] = None /\ serving' = c /\ serving = None /\ request' = query[c] /\ response = None
  BY DEF HandleQuery, LoopTypeOK, Paired, Served
<1>5. \A d \in Clients \ {c} : query'[d] = query[d]
  BY DEF HandleQuery, LoopTypeOK
<1>6. UNCHANGED <<call, reply>>
  BY DEF HandleQuery
<1>7. Paired'
  <2>1. c # None /\ loop' \in {"execute", "reply"}
    BY Sentinels DEF HandleQuery
  <2>2. loop' = "execute" => response' = None /\ query[c] \in Queries \cup {Invalid}
    BY <1>1, <1>4 DEF HandleQuery
  <2>3. loop' = "reply" => query[c] = Garbage /\ response' = "INVALID_ARGUMENT"
    BY DEF HandleQuery
  <2>4. Fits(Garbage, "INVALID_ARGUMENT")
    BY Sentinels DEF Fits
  <2>5. seen' # {} <=> loop' = "execute" /\ query[c] \in Queries
    BY <1>2, Sentinels DEF HandleQuery
  <2>6. query[c] = call[c].message
    BY <1>1 DEF Paired
  <2>7. loop' = "reply" => Fits(request', response')
    BY <1>4, <2>3, <2>4
  <2>8. \A d \in Clients : /\ query'[d] # None => query'[d] = call[d].message
                           /\ call[d] \notin {None, Closed} => call[d] \in Calls
    BY <1>4, <1>5 DEF Paired
  <2> QED BY <1>4, <1>6, <2>1, <2>2, <2>5, <2>6, <2>7, <2>8 DEF Paired, Served
<1>8. OneReplyEach'
  <2> SUFFICES ASSUME NEW d \in Clients
               PROVE  Count(query'[d] # None) + Count(c = d) + Count(reply[d] # None)
                        = Count(In(d, "ask"))
    BY <1>4, <1>6 DEF OneReplyEach, In, Count
  <2>1. Count(query'[d] # None) + Count(c = d) = Count(query[d] # None) + Count(serving = d)
    <3>1. serving # d
      BY <1>4, Sentinels
    <3>2. CASE d = c
      BY <3>1, <3>2, <1>1, <1>4 DEF Count
    <3>3. CASE d # c
      BY <3>1, <3>3, <1>5 DEF Count
    <3> QED BY <3>2, <3>3
  <2> QED BY <2>1 DEF OneReplyEach, Count
<1> QED BY <1>3, <1>7, <1>8

(* The response that ExecuteRequest makes is one to the loop's request. *)
LEMMA ExecuteStep ==
  ASSUME LoopInv, ExecuteRequest
  PROVE  LoopInv'
<1> USE DEF LoopInv
<1>1. /\ loop = "execute" /\ loop' = "reply" /\ seen' = {}
      /\ UNCHANGED <<clientVars, revents, serving, request, flags>>
  BY DEF ExecuteRequest, Refuse, Succeed, NotFound, Fail, Respond
<1>2. Fits(request, response') /\ response' \in Statuses
  BY Sentinels DEF ExecuteRequest, Refuse, Succeed, NotFound, Fail, Respond, Fits, Statuses
<1>3. stored' \subseteq EntryIds
  <2>1. request \in Queries => StoreAfter(request) \subseteq EntryIds
    BY DEF StoreAfter, Queries, LoopTypeOK
  <2> QED BY <2>1 DEF ExecuteRequest, Refuse, Succeed, NotFound, Fail, LoopTypeOK
<1>4. faults' \in 0 .. MaxFaults
  <2>1. faults' = faults \/ IoError
    BY DEF ExecuteRequest, Refuse, Succeed, NotFound, Fail
  <2> QED BY <2>1, Sentinels DEF IoError, LoopTypeOK
<1>5. LoopTypeOK'
  BY <1>1, <1>2, <1>3, <1>4 DEF LoopTypeOK, clientVars, flags
<1>6. Paired'
  BY <1>1, <1>2 DEF Paired, Served, clientVars
<1>7. OneReplyEach'
  BY <1>1 DEF OneReplyEach, In, Count, clientVars
<1> QED BY <1>5, <1>6, <1>7

LEMMA SendResponseStep ==
  ASSUME LoopInv, SendResponse
  PROVE  LoopInv'
<1> USE DEF LoopInv
<1>1. serving \in Clients /\ Fits(request, response) /\ request = call[serving].message
  BY DEF SendResponse, Paired, Served, LoopTypeOK
<1>2. response \in Statuses
  BY <1>1 DEF Fits, Statuses
<1>3. LoopTypeOK'
  BY <1>1, <1>2 DEF SendResponse, LoopTypeOK, storeVars, flags
<1>4. reply'[serving] = response /\ response # None /\ reply[serving] = None
  BY <1>1, <1>2, Sentinels DEF SendResponse, LoopTypeOK, OneReplyEach, Count
<1>5. \A d \in Clients \ {serving} : reply'[d] = reply[d]
  BY <1>1 DEF SendResponse, LoopTypeOK
<1>6. /\ UNCHANGED <<call, query, seen>>
      /\ loop' = "poll" /\ serving' = None /\ response' = None
  BY DEF SendResponse, storeVars
<1>7. seen = {} /\ None \notin Clients
  BY Sentinels DEF SendResponse, Paired
<1>8. Paired'
  BY <1>6, <1>7 DEF Paired, Served
<1>9. OneReplyEach'
  <2> SUFFICES ASSUME NEW d \in Clients
               PROVE  /\ Count(query[d] # None) + Count(d = None) + Count(reply'[d] # None)
                           = Count(In(d, "ask"))
                      /\ reply'[d] # None => Fits(call[d].message, reply'[d])
    BY <1>6 DEF OneReplyEach, In, Count
  <2>1. CASE d = serving
    BY <2>1, <1>1, <1>4, <1>7 DEF OneReplyEach, Count
  <2>2. CASE d # serving
    BY <2>2, <1>5, <1>7 DEF OneReplyEach, Count
  <2> QED BY <2>1, <2>2
<1> QED BY <1>3, <1>8, <1>9

(* The gateway's workers change what is stored, and nothing of the loop's. *)
LEMMA OtherStep ==
  ASSUME LoopInv, OtherCall
  PROVE  LoopInv'
<1> USE DEF LoopInv
<1>1. UNCHANGED <<clientVars, loopVars, flags>>
  BY DEF OtherCall
<1>2. stored' \subseteq EntryIds /\ seen' \subseteq {"there", "missing"} /\ (seen' = {} <=> seen = {})
  BY DEF OtherCall, LoopTypeOK
<1>3. LoopTypeOK'
  BY <1>1, <1>2 DEF OtherCall, LoopTypeOK, clientVars, loopVars, flags
<1>4. QueriesKept
  BY <1>1, <1>2 DEF QueriesKept, Paired, clientVars, loopVars
<1> QED BY <1>3, <1>4, KeptPaired

(* The poll touches no message. *)
LEMMA PollStep ==
  ASSUME LoopInv, Poll
  PROVE  LoopInv'
<1> USE DEF LoopInv
<1>1. Ready \in [ingest : BOOLEAN, query : BOOLEAN]
  BY DEF Ready
<1>2. FirstHandler \in {"ingest", "query"}
  BY DEF FirstHandler
<1>3. LoopTypeOK'
  BY <1>1, <1>2 DEF Poll, LoopTypeOK, clientVars, storeVars, flags
<1>4. QueriesKept
  BY <1>2 DEF Poll, QueriesKept, Paired, Served, clientVars, storeVars
<1> QED BY <1>3, <1>4, KeptPaired

LEMMA LoopInvNext == LoopInv /\ [LoopNext]_tunnelVars => LoopInv'
<1> SUFFICES ASSUME LoopInv, [LoopNext]_tunnelVars PROVE LoopInv'
  OBVIOUS
<1>1. CASE LoopStep
  BY <1>1, PollStep, IngestStep, QueryStep, ExecuteStep, SendResponseStep DEF LoopStep
<1>2. ASSUME NEW c \in Clients, ClientStep(c) PROVE LoopInv'
  BY <1>2, PushStep, SendStep, ReceiveStep DEF ClientStep
<1>3. CASE UNCHANGED tunnelVars
  <2>1. LoopTypeOK'
    BY <1>3 DEF LoopInv, LoopTypeOK, tunnelVars, clientVars, loopVars, storeVars, flags
  <2>2. QueriesKept
    BY <1>3 DEF LoopInv, QueriesKept, Paired, tunnelVars, clientVars, loopVars, storeVars
  <2> QED BY <2>1, <2>2, KeptPaired DEF LoopInv
<1> QED BY <1>1, <1>2, <1>3, OtherStep DEF LoopNext

-----------------------------------------------------------------------------
(***************************************************************************)
(* RecvNeverBlocks is not inductive either: the query that a poll found is *)
(* taken in the same round, but only after HandleIngest.                   *)
(***************************************************************************)
Pushing == \E c \in Clients : ingest[c] # <<>>

Asking == \E c \in Clients : query[c] # None

Awaited ==
  /\ loop = "ingest" => Pushing
  /\ loop = "ingest" /\ revents.query => Asking
  /\ loop = "query" => Asking

LEMMA AwaitedIsEnough == LoopInv /\ Awaited => RecvNeverBlocks
BY DEF LoopInv, Paired, Served, Awaited, Pushing, Asking, RecvNeverBlocks

(* No client takes back what the poll has found. *)
LEMMA ClientsStay ==
  ASSUME LoopInv, Awaited, NEW c \in Clients, ClientStep(c)
  PROVE  Awaited'
<1> USE DEF LoopInv
<1>1. UNCHANGED <<loop, revents>>
  BY DEF ClientStep, CreateNoReply, Pushed, SendRequest, ReceiveReply, Close, loopVars
<1>2. loop = "ingest" /\ Pushing => Pushing'
  <2>1. CASE CreateNoReply(c) \/ SendRequest(c) \/ ReceiveReply(c)
    BY <2>1 DEF CreateNoReply, SendRequest, ReceiveReply, Pushing
  <2>2. CASE Pushed(c)
    <3>1. call[c].message \in EntryIds \cup {Garbage}
      BY <2>2 DEF Pushed, In, LoopTypeOK, Calls
    <3>2. ingest[c] \in Seq(EntryIds \cup {Garbage}) /\ ingest'[c] = Append(ingest[c], call[c].message)
      BY <2>2 DEF Pushed, LoopTypeOK
    <3>3. Len(ingest'[c]) > 0
      BY <3>1, <3>2
    <3>4. ingest'[c] # <<>>
      BY <3>3
    <3> QED BY <3>4 DEF Pushing
  <2>3. CASE Close(c)
    <3>1. \A d \in Clients \ {c} : ingest'[d] = ingest[d]
      BY <2>3 DEF Close, LoopTypeOK
    <3>2. loop = "ingest" /\ ingest[c] # <<>> => ingest'[c] # <<>>
      <4> SUFFICES ASSUME loop = "ingest", ingest[c] # <<>>
                   PROVE  ingest'[c] # <<>>
        OBVIOUS
      <4>1. PICK n \in 0 .. Len(ingest[c]) :
              n > 0 /\ ingest' = [ingest EXCEPT ![c] = SubSeq(@, 1, n)]
        BY <2>3 DEF Close
      <4>2. ingest[c] \in Seq(EntryIds \cup {Garbage}) /\ ingest'[c] = SubSeq(ingest[c], 1, n)
        BY <4>1 DEF LoopTypeOK
      <4>3. Len(ingest'[c]) = n
        BY <4>1, <4>2
      <4> QED BY <4>1, <4>3
    <3> QED BY <3>1, <3>2 DEF Pushing
  <2> QED BY <2>1, <2>2, <2>3 DEF ClientStep
<1>3. Asking => Asking'
  <2>1. CASE SendRequest(c)
    <3>1. query'[c] # None
      BY <2>1, Messages, Sentinels DEF SendRequest, LoopTypeOK
    <3> QED BY <3>1 DEF Asking
  <2>2. CASE CreateNoReply(c) \/ Pushed(c) \/ ReceiveReply(c) \/ Close(c)
    BY <2>2 DEF CreateNoReply, Pushed, ReceiveReply, Close, Asking
  <2> QED BY <2>1, <2>2 DEF ClientStep
<1> QED BY <1>1, <1>2, <1>3 DEF Awaited

LEMMA AwaitedNext ==
  ASSUME LoopInv, Awaited, [LoopNext]_tunnelVars
  PROVE  Awaited'
<1>1. CASE Poll
  BY <1>1 DEF Poll, FirstHandler, Ready, Awaited, Pushing, Asking, clientVars
<1>2. ASSUME NEW c \in Clients, HandleIngest(c) PROVE Awaited'
  BY <1>2 DEF HandleIngest, AfterIngest, Awaited, Asking
<1>3. ASSUME NEW c \in Clients, HandleQuery(c) PROVE Awaited'
  BY <1>3 DEF HandleQuery, Awaited
<1>4. CASE ExecuteRequest \/ SendResponse
  BY <1>4 DEF ExecuteRequest, Refuse, Succeed, NotFound, Fail, Respond, SendResponse, Awaited
<1>5. CASE OtherCall \/ UNCHANGED tunnelVars
  BY <1>5 DEF OtherCall, Awaited, Pushing, Asking, tunnelVars, clientVars, loopVars
<1> QED BY <1>1, <1>2, <1>3, <1>4, <1>5, ClientsStay DEF LoopNext, LoopStep

-----------------------------------------------------------------------------
(***************************************************************************)
(* Each step is one of Tunnels', or a stutter.                             *)
(***************************************************************************)
Answers == [c \in Clients |-> IF serving = c THEN response ELSE reply[c]]

Executing == IF seen = {} THEN None ELSE serving

(* What Tunnels sees of a step that leaves the query tunnel alone. *)
LEMMA QueriesKeptTunnels ==
  ASSUME UNCHANGED <<reply, serving, response, seen>>
  PROVE  UNCHANGED <<Answers, Executing>>
BY DEF Answers, Executing

LEMMA QuietTunnels ==
  ASSUME UNCHANGED <<call, ingest, reply, serving, response, storeVars>>
  PROVE  UNCHANGED Promise!vars
BY DEF Promise!vars, storeVars

LEMMA PushTunnels ==
  ASSUME LoopInv, NEW c \in Clients, CreateNoReply(c) \/ Pushed(c) \/ Close(c)
  PROVE  Promise!Next
<1>1. UNCHANGED <<reply, serving, response, seen, stored, faults>>
  BY DEF CreateNoReply, Pushed, Close, loopVars, storeVars
<1>2. UNCHANGED <<Answers, Executing>>
  BY <1>1, QueriesKeptTunnels
<1>3. CASE CreateNoReply(c)
  <2>1. Promise!Call(c, "push", EntryIds \cup {Garbage})
    BY <1>1, <1>2, <1>3, Messages DEF CreateNoReply, Promise!Call, Answers, Executing
  <2> QED BY <2>1 DEF Promise!Next
<1>4. CASE Pushed(c)
  <2>1. Promise!Push(c)
    BY <1>1, <1>2, <1>4 DEF Pushed, Promise!Push, In, Promise!In, Answers, Executing
  <2> QED BY <2>1 DEF Promise!Next
<1>5. CASE Close(c)
  <2>1. Promise!Close(c)
    BY <1>1, <1>2, <1>5 DEF Close, Promise!Close, Answers, Executing
  <2> QED BY <2>1 DEF Promise!Next
<1> QED BY <1>3, <1>4, <1>5

LEMMA AskTunnels ==
  ASSUME LoopInv, NEW c \in Clients, SendRequest(c)
  PROVE  Promise!Next
<1>1. UNCHANGED <<ingest, reply, serving, response, seen, stored, faults>>
  BY DEF SendRequest, loopVars, storeVars
<1>2. UNCHANGED <<Answers, Executing>>
  BY <1>1, QueriesKeptTunnels
<1>3. Promise!Queries = Queries
  BY DEF Queries, Promise!Queries
<1>4. Promise!Call(c, "ask", Queries \cup {Invalid, Garbage})
  BY <1>1, <1>2, Messages DEF SendRequest, Promise!Call, Answers, Executing
<1> QED BY <1>3, <1>4 DEF Promise!Next

LEMMA ReturnTunnels ==
  ASSUME LoopInv, NEW c \in Clients, ReceiveReply(c)
  PROVE  Promise!Next
<1>1. reply[c] # None /\ reply \in [Clients -> Statuses \cup {None}]
  BY DEF ReceiveReply, LoopInv, LoopTypeOK
<1>2. /\ reply' = [reply EXCEPT ![c] = None]
      /\ UNCHANGED <<ingest, serving, response, seen, stored, faults>>
  BY DEF ReceiveReply, loopVars, storeVars
<1>3. Answers' = [Answers EXCEPT ![c] = None] /\ Answers[c] = reply[c]
  <2>1. serving # c
    BY <1>1 DEF LoopInv, OneReplyEach, Count
  <2> QED BY <1>1, <1>2, <2>1 DEF Answers
<1>4. UNCHANGED Executing
  BY <1>2 DEF Executing
<1>5. Promise!Return(c)
  BY <1>1, <1>2, <1>3, <1>4 DEF ReceiveReply, Promise!Return, Answers, Executing
<1> QED BY <1>5 DEF Promise!Next

LEMMA IngestTunnels ==
  ASSUME LoopInv, NEW c \in Clients, HandleIngest(c)
  PROVE  Promise!Next
<1>1. seen = {}
  BY DEF HandleIngest, LoopInv, Paired
<1>2. Executing = None /\ UNCHANGED <<Answers, Executing>>
  BY <1>1 DEF HandleIngest, Answers, Executing
<1>3. Promise!Take(c)
  BY <1>2 DEF HandleIngest, IoError, Promise!Take, Promise!IoError, Answers, Executing
<1> QED BY <1>3 DEF Promise!Next

(* Taking a query begins its execution, or refuses what does not parse. *)
LEMMA QueryTunnels ==
  ASSUME LoopInv, NEW c \in Clients, HandleQuery(c)
  PROVE  [Promise!Next]_(Promise!vars)
<1>1. /\ query[c] = call[c].message /\ In(c, "ask") /\ reply[c] = None
      /\ serving = None /\ response = None /\ seen = {} /\ c # None
  BY Sentinels DEF HandleQuery, LoopInv, LoopTypeOK, Paired, Served, OneReplyEach, Count
<1>2. /\ serving' = c /\ seen' = SeenAtStart(query[c])
      /\ UNCHANGED <<call, ingest, reply, stored, faults>>
  BY DEF HandleQuery
<1>3. Answers[c] = None /\ Executing = None
  BY <1>1 DEF Answers, Executing
<1>4. Answers' = [Answers EXCEPT ![c] = response']
  BY <1>1, <1>2, Sentinels DEF Answers
<1>5. Promise!Queries = Queries /\ Promise!In(c, "ask")
  BY <1>1 DEF Queries, Promise!Queries, In, Promise!In
<1>6. Promise!Waits(c)
  BY <1>3, <1>5 DEF Promise!Waits, Answers, Executing
<1>7. CASE query[c] = Garbage
  <2>1. query[c] \notin Queries /\ seen' = {} /\ response' = "INVALID_ARGUMENT"
    BY <1>2, <1>7, Sentinels DEF HandleQuery, SeenAtStart
  <2>2. Executing' = Executing
    BY <1>1, <2>1 DEF Executing
  <2>3. Promise!Refuse(c)
    BY <1>1, <1>2, <1>4, <1>5, <1>6, <2>1, <2>2 DEF Promise!Refuse, Answers, Executing
  <2> QED BY <2>3 DEF Promise!Next
<1>8. CASE query[c] = Invalid /\ query[c] # Garbage
  <2>1. seen' = {} /\ response' = None
    BY <1>1, <1>2, <1>8, Sentinels DEF HandleQuery, SeenAtStart
  <2>2. Answers' = Answers /\ Executing' = Executing
    BY <1>1, <1>2, <1>4, <2>1 DEF Answers, Executing
  <2> QED BY <1>1, <1>2, <2>1, <2>2 DEF Promise!vars, Answers, Executing
<1>9. CASE query[c] \notin {Garbage, Invalid}
  <2>1. query[c] \in Queries /\ response' = None
    BY <1>1, <1>9 DEF HandleQuery, LoopInv, LoopTypeOK
  <2>2. /\ seen' = {IF query[c].id \in stored THEN "there" ELSE "missing"}
        /\ Executing' = c
    BY <1>2, <2>1 DEF SeenAtStart, Executing
  <2>3. Answers' = Answers
    BY <1>3, <1>4, <2>1 DEF Answers
  <2>4. Promise!Begin(c)
    BY <1>1, <1>2, <1>5, <1>6, <2>1, <2>2, <2>3 DEF Promise!Begin, Answers, Executing
  <2> QED BY <2>4 DEF Promise!Next
<1> QED BY <1>7, <1>8, <1>9

(* The client had asked what the loop executes, and gets what that gives. *)
LEMMA ExecuteTunnels ==
  ASSUME LoopInv, NEW c \in Clients, c = serving, ExecuteRequest
  PROVE  Promise!Next
<1>1. /\ loop = "execute" /\ seen' = {}
      /\ UNCHANGED <<call, ingest, reply, serving, request>>
  BY DEF ExecuteRequest, Refuse, Succeed, NotFound, Fail, Respond, clientVars
<1>2. c # None /\ request = call[c].message /\ response = None
  BY <1>1, Sentinels DEF LoopInv, LoopTypeOK, Paired, Served
<1>3. In(c, "ask") /\ reply[c] = None
  BY <1>2 DEF LoopInv, OneReplyEach, Count
<1>4. Answers[c] = None /\ Answers' = [Answers EXCEPT ![c] = response'] /\ Executing' = None
  BY <1>1, <1>2 DEF Answers, Executing
<1>5. Promise!Queries = Queries /\ Promise!In(c, "ask")
  BY <1>3 DEF Queries, Promise!Queries, In, Promise!In
<1>6. CASE Refuse
  <2>1. request \notin Queries /\ response' = "INVALID_ARGUMENT" /\ UNCHANGED <<stored, faults>>
    BY <1>6, Sentinels DEF Refuse, Respond
  <2>2. seen = {} /\ Executing = None
    BY <2>1 DEF LoopInv, Paired, Executing
  <2>3. Promise!Waits(c)
    BY <1>4, <1>5, <2>2 DEF Promise!Waits, Answers, Executing
  <2>4. Promise!Refuse(c)
    BY <1>1, <1>2, <1>4, <1>5, <2>1, <2>2, <2>3 DEF Promise!Refuse, Answers, Executing
  <2> QED BY <2>4 DEF Promise!Next
<1>7. CASE Succeed \/ NotFound \/ Fail
  <2>1. request \in Queries /\ Executing = c
    BY <1>1, <1>7 DEF Succeed, NotFound, Fail, LoopInv, Paired, Executing
  <2>2. response' \in {"OK", "NOT_FOUND", "INTERNAL_ERROR"}
    BY <1>7 DEF Succeed, NotFound, Fail, Respond
  <2>3. response' = "OK" => Promise!Succeed(request)
    BY <1>7 DEF Succeed, NotFound, Fail, Respond, StoreAfter, Promise!Succeed
  <2>4. response' = "NOT_FOUND" => Promise!NotFound(request)
    BY <1>7 DEF Succeed, NotFound, Fail, Respond, IoError, Promise!NotFound, Promise!IoError
  <2>5. response' = "INTERNAL_ERROR" => Promise!NotWritten(request)
    BY <1>7 DEF Succeed, NotFound, Fail, Respond, IoError, Promise!NotWritten, Promise!IoError
  <2>6. Promise!Execute(c)
    BY <1>1, <1>2, <1>4, <2>1, <2>2, <2>3, <2>4, <2>5 DEF Promise!Execute, Answers, Executing
  <2> QED BY <2>6 DEF Promise!Next
<1> QED BY <1>6, <1>7 DEF ExecuteRequest

(* The answer was given before; it only goes on its way. *)
LEMMA SendResponseTunnels ==
  ASSUME LoopInv, SendResponse
  PROVE  UNCHANGED Promise!vars
<1>1. /\ serving \in Clients /\ None \notin Clients /\ seen = {}
      /\ reply \in [Clients -> Statuses \cup {None}]
  BY Sentinels DEF SendResponse, LoopInv, LoopTypeOK, Paired, Served
<1>2. Answers' = Answers /\ UNCHANGED <<Executing, stored, seen, faults>>
  BY <1>1 DEF SendResponse, Answers, Executing, storeVars
<1> QED BY <1>2 DEF SendResponse, Promise!vars, Answers, Executing

LEMMA OtherTunnels ==
  ASSUME LoopInv, OtherCall
  PROVE  Promise!Next
<1> PICK id \in EntryIds :
      /\ stored' \in {stored \cup {id}, stored \ {id}} \ {stored}
      /\ seen' = IF seen # {} /\ request.id = id THEN {"there", "missing"} ELSE seen
  BY DEF OtherCall
<1>1. UNCHANGED <<call, ingest, reply, serving, request, response, faults>>
  BY DEF OtherCall, clientVars, loopVars
<1>2. UNCHANGED <<Answers, Executing>>
  BY <1>1 DEF Answers, Executing
<1>3. seen # {} => serving # None /\ request = call[serving].message
  BY DEF LoopInv, Paired, Served
<1>4. Executing # None <=> seen # {}
  BY <1>3 DEF Executing
<1>5. Executing # None => Executing = serving
  BY DEF Executing
<1>6. Promise!Other(id)
  BY <1>1, <1>2, <1>3, <1>4, <1>5 DEF Promise!Other, Answers, Executing
<1> QED BY <1>6 DEF Promise!Next

LEMMA LoopStepTunnels ==
  ASSUME LoopInv, [LoopNext]_tunnelVars
  PROVE  [Promise!Next]_(Promise!vars)
<1>1. CASE Poll \/ UNCHANGED tunnelVars
  BY <1>1, QuietTunnels DEF Poll, tunnelVars, clientVars, loopVars
<1>2. ASSUME NEW c \in Clients, HandleIngest(c) \/ HandleQuery(c)
      PROVE  [Promise!Next]_(Promise!vars)
  BY <1>2, IngestTunnels, QueryTunnels
<1>3. ASSUME NEW c \in Clients, ClientStep(c)
      PROVE  Promise!Next
  BY <1>3, PushTunnels, AskTunnels, ReturnTunnels DEF ClientStep
<1>4. CASE ExecuteRequest
  <2>1. serving \in Clients
    BY <1>4 DEF ExecuteRequest, Refuse, Succeed, NotFound, Fail, Respond, LoopInv, LoopTypeOK,
                Paired, Served
  <2> QED BY <1>4, <2>1, ExecuteTunnels
<1> QED BY <1>1, <1>2, <1>3, <1>4, SendResponseTunnels, OtherTunnels DEF LoopNext, LoopStep

LEMMA InitTunnels == TunnelInit => Promise!Init
<1> SUFFICES ASSUME TunnelInit PROVE Promise!Init
  OBVIOUS
<1>1. Answers = [c \in Clients |-> None] /\ Executing = None
  BY DEF TunnelInit, Answers, Executing
<1> QED BY <1>1 DEF TunnelInit, Promise!Init, Answers, Executing

-----------------------------------------------------------------------------
(* Queues stay within their bound and hold messages; the store holds ids. *)
THEOREM LoopTypeCorrect == LoopSpec => []LoopTypeOK
<1>1. LoopInv => LoopTypeOK
  BY DEF LoopInv
<1> QED BY <1>1, LoopInvInit, LoopInvNext, PTL DEF LoopSpec

(***************************************************************************)
(* However many clients ask and push at once, each that waits has exactly  *)
(* one request under way, and what it gets is the answer to it: REP's rule *)
(* of one reply for each request is kept on every path of HandleQuery.     *)
(***************************************************************************)
THEOREM AlwaysOneReplyEach == LoopSpec => []OneReplyEach
<1>1. LoopInv => OneReplyEach
  BY DEF LoopInv
<1> QED BY <1>1, LoopInvInit, LoopInvNext, PTL DEF LoopSpec

(***************************************************************************)
(* With any number of clients the loop never blocks in a recv: nobody      *)
(* takes back the message the poll has found, and the query that is served *)
(* second in a round is still there after the first.                       *)
(***************************************************************************)
THEOREM RecvNeverEverBlocks == LoopSpec => []RecvNeverBlocks
<1>1. LoopInit => Awaited
  BY DEF LoopInit, Awaited
<1>2. LoopInv /\ Awaited /\ [LoopNext]_tunnelVars => Awaited'
  BY AwaitedNext
<1> QED BY <1>1, <1>2, LoopInvInit, LoopInvNext, AwaitedIsEnough, PTL DEF LoopSpec

(***************************************************************************)
(* The loop implements Tunnels: the rounds and the two sockets show only   *)
(* as the moment at which a query is executed.                             *)
(***************************************************************************)
THEOREM LoopImplementsTunnels == LoopSpec => ImplementsTunnels
<1>1. LoopInit => Promise!Init
  BY InitTunnels DEF LoopInit
<1>2. LoopInv /\ [LoopNext]_tunnelVars => [Promise!Next]_(Promise!vars)
  BY LoopStepTunnels
<1> QED BY <1>1, <1>2, LoopInvInit, LoopInvNext, PTL
        DEF LoopSpec, ImplementsTunnels, Promise!Spec
=============================================================================
