-------------------------- MODULE LifecycleProofs --------------------------
(***************************************************************************)
(* For any number of clients, messages and signals: the loop ends before   *)
(* its server does, with nothing half served, and only signals end it.     *)
(*                                                                         *)
(* The loop leaves when a flag is FALSE.  To conclude that the process has *)
(* received a signal one has to know who clears the flags: the handler, or *)
(* main after Drogon has quit, which again takes a signal.  Signalled says *)
(* that; Joined says where the loop is before its start and from the join  *)
(* on, and what main has told it by then.                                  *)
(***************************************************************************)
EXTENDS Lifecycle, ServerLoopProofs

AfterDrogon == {"returned", "stopping", "joining", "joined", "ending", "done"}

Signalled ==
  ~Running \/ quit \/ loop = "stopped" \/ main \in AfterDrogon => interrupted

Joined ==
  /\ main \in {"opening", "opened"} => loop = "none"
  /\ main \notin {"opening", "opened"} => loop # "none"
  /\ main = "joining" => ~running_
  /\ main \in {"joined", "ending", "done"} => loop = "stopped"

LifeInv == LoopInv /\ Awaited /\ LifeTypeOK /\ Signalled /\ Joined

allVars == <<processVars, tunnelVars>>

-----------------------------------------------------------------------------
LEMMA LifeInvInit == LifeInit => LifeInv
<1> SUFFICES ASSUME LifeInit PROVE LifeInv
  OBVIOUS
<1>1. LoopInv
  BY TunnelInvInit DEF LifeInit
<1>2. Awaited
  BY DEF LifeInit, Awaited
<1> QED
  BY <1>1, <1>2 DEF LifeInit, TunnelInit, LifeInv, LoopInv, LifeTypeOK, Signalled, Joined,
              AfterDrogon, Running

(* What the process does to the loop between two of its rounds. *)
LEMMA ProcessKeepsLoopInv ==
  ASSUME LoopInv,
         UNCHANGED <<clientVars, revents, serving, request, response, storeVars>>,
         loop' = loop \/ (loop \in {"none", "poll"} /\ loop' \in {"poll", "stopped"}),
         keep_running' \in BOOLEAN, running_' \in BOOLEAN
  PROVE  LoopInv' /\ (Awaited => Awaited')
<1>1. LoopTypeOK'
  BY DEF LoopInv, LoopTypeOK, clientVars, storeVars
<1>2. QueriesKept
  BY DEF LoopInv, QueriesKept, Paired, Served, clientVars, storeVars
<1>3. Awaited => Awaited'
  BY DEF Awaited, Pushing, Asking, clientVars
<1> QED BY <1>1, <1>2, <1>3, KeptPaired DEF LoopInv

LEMMA InterruptStep ==
  ASSUME LifeInv, Interrupt
  PROVE  LifeInv'
<1> USE DEF LifeInv, Interrupt
<1>1. LoopInv' /\ Awaited'
  BY ProcessKeepsLoopInv DEF LoopInv, LoopTypeOK
<1> QED
  BY <1>1 DEF LoopInv, LifeTypeOK, Signalled, Joined

LEMMA MainKeeps ==
  ASSUME LifeInv, MainStep
  PROVE  LifeInv'
<1> USE DEF LifeInv
<1>1. CASE StartLoop
  <2>1. LoopInv' /\ Awaited'
    BY <1>1, ProcessKeepsLoopInv DEF StartLoop, LoopInv, LoopTypeOK, Joined, flags
  <2> QED
    BY <1>1, <2>1 DEF StartLoop, LoopInv, LifeTypeOK, Signalled, Joined, AfterDrogon, Running, flags
<1>2. CASE ClearKeepRunning \/ Stop
  <2>1. LoopInv' /\ Awaited'
    BY <1>2, ProcessKeepsLoopInv DEF ClearKeepRunning, Stop, LoopInv, LoopTypeOK, loopVars
  <2> QED
    BY <1>2, <2>1 DEF ClearKeepRunning, Stop, LoopInv, LifeTypeOK, Signalled, Joined,
                      AfterDrogon, loopVars
<1>3. CASE OpenStorage \/ RunDrogon \/ DrogonReturns \/ Join \/ StopMetricsBridge \/ Return
  <2>1. UNCHANGED tunnelVars
    BY <1>3 DEF OpenStorage, RunDrogon, DrogonReturns, Join, StopMetricsBridge, Return
  <2>2. LoopInv' /\ Awaited'
    BY <2>1, ProcessKeepsLoopInv DEF LoopInv, LoopTypeOK, tunnelVars, loopVars, flags
  <2>3. UNCHANGED <<loop, keep_running, running_, interrupted, quit>>
    BY <1>3, <2>1 DEF OpenStorage, RunDrogon, DrogonReturns, Join, StopMetricsBridge, Return,
         tunnelVars, loopVars, flags
  <2>4. LifeTypeOK'
    BY <1>3, <2>2, <2>3 DEF OpenStorage, RunDrogon, DrogonReturns, Join, StopMetricsBridge,
         Return, LoopInv, LifeTypeOK
  <2>5. Signalled'
    BY <1>3, <2>3 DEF OpenStorage, RunDrogon, DrogonReturns, Join, StopMetricsBridge, Return,
         Signalled, AfterDrogon, Running
  <2>6. Joined'
    BY <1>3, <2>3 DEF OpenStorage, RunDrogon, DrogonReturns, Join, StopMetricsBridge, Return,
         Joined
  <2> QED BY <2>2, <2>4, <2>5, <2>6
<1> QED BY <1>1, <1>2, <1>3 DEF MainStep

(* A step of the loop or of a client: a loop that has ended stays ended. *)
LEMMA TunnelKeeps ==
  ASSUME LifeInv, LoopThreadStep \/ WorkerStep \/ ClientsStep
  PROVE  LifeInv'
<1> USE DEF LifeInv
<1>1. LoopInv' /\ Awaited'
  <2>1. CASE LeaveLoop
    BY <2>1, ProcessKeepsLoopInv DEF LeaveLoop, LoopInv, LoopTypeOK, flags
  <2>2. CASE LoopNext
    BY <2>2, LoopInvNext, AwaitedNext
  <2> QED BY <2>1, <2>2 DEF LoopThreadStep, WorkerStep, ClientsStep, LoopNext
<1>2. /\ UNCHANGED <<flags, processVars>>
      /\ loop \in {"none", "stopped"} => loop' = loop
      /\ loop' = "stopped" => loop = "stopped" \/ ~Running
      /\ loop' = "none" => loop = "none"
  BY DEF LoopThreadStep, WorkerStep, ClientsStep, LoopStep, ClientStep, Poll, HandleIngest,
         HandleQuery, ExecuteRequest, Refuse, Succeed, NotFound, Fail, Respond, SendResponse,
         OtherCall, LeaveLoop, CreateNoReply, Pushed, SendRequest, ReceiveReply, Close,
         FirstHandler, AfterIngest, loopVars, flags
<1> QED
  BY <1>1, <1>2 DEF LoopInv, LifeTypeOK, Signalled, Joined, Running, processVars, flags

LEMMA LifeInvNext == LifeInv /\ [LifeNext]_allVars => LifeInv'
<1> SUFFICES ASSUME LifeInv, [LifeNext]_allVars PROVE LifeInv'
  OBVIOUS
<1>1. CASE UNCHANGED allVars
  <2>1. LoopInv' /\ Awaited'
    BY <1>1, LoopInvNext, AwaitedNext DEF LifeInv, allVars
  <2> QED
    BY <1>1, <2>1 DEF LifeInv, LoopInv, LifeTypeOK, Signalled, Joined, Running,
         allVars, processVars, tunnelVars, loopVars, flags
<1> QED BY <1>1, InterruptStep, MainKeeps, TunnelKeeps DEF LifeNext

LEMMA LifeInvAlways == LifeSpec => []LifeInv
BY LifeInvInit, LifeInvNext, PTL DEF LifeSpec, allVars

-----------------------------------------------------------------------------
(* The state of the process and of its tunnels has its type. *)
THEOREM LifeTypeCorrect == LifeSpec => []LifeTypeOK
<1>1. LifeInv => LifeTypeOK
  BY DEF LifeInv
<1> QED BY <1>1, LifeInvAlways, PTL

(***************************************************************************)
(* When main goes on to return and the server object to its end, the loop  *)
(* has ended; and a loop that has ended owes nobody the reply to a query   *)
(* that it took.                                                           *)
(***************************************************************************)
THEOREM LoopAlwaysEndsFirst == LifeSpec => []LoopEndsFirst
<1>1. LifeInv => LoopEndsFirst
  BY DEF LifeInv, LoopInv, Paired, Served, Joined, LoopEndsFirst
<1> QED BY <1>1, LifeInvAlways, PTL

(* No message and no lack of messages ends the loop. *)
THEOREM OnlySignalsEverStop == LifeSpec => []OnlySignalsStop
<1>1. LifeInv => OnlySignalsStop
  BY DEF LifeInv, Signalled, OnlySignalsStop
<1> QED BY <1>1, LifeInvAlways, PTL

(***************************************************************************)
(* The safety half of ShutdownCompletes, for any number of clients: when   *)
(* main joins the loop's thread, nothing but its own steps keeps that      *)
(* thread from its flags, and these are cleared.                           *)
(***************************************************************************)
THEOREM JoinNeverEverHangs == LifeSpec => []JoinNeverHangs
<1>1. LifeInv => JoinNeverHangs
  BY AwaitedIsEnough DEF LifeInv, Joined, JoinNeverHangs, Running
<1> QED BY <1>1, LifeInvAlways, PTL

(***************************************************************************)
(* A process that is interrupted, quits and ends owes its clients nothing  *)
(* more than one that runs for ever: under every signal and in every phase *)
(* of the shutdown the tunnels do only what Tunnels allows, so that no     *)
(* query is executed twice and none is answered unexecuted.                *)
(***************************************************************************)
THEOREM ProcessImplementsTunnels == LifeSpec => ImplementsTunnels
<1>1. LifeInit => Promise!Init
  BY InitTunnels DEF LifeInit
<1>2. LifeInv /\ [LifeNext]_allVars => [Promise!Next]_(Promise!vars)
  <2> SUFFICES ASSUME LifeInv, [LifeNext]_allVars
               PROVE  [Promise!Next]_(Promise!vars)
    OBVIOUS
  <2>1. CASE LoopNext
    BY <2>1, LoopStepTunnels DEF LifeInv
  <2>2. CASE Interrupt \/ MainStep \/ LeaveLoop \/ UNCHANGED allVars
    <3>1. UNCHANGED <<call, ingest, reply, serving, response, storeVars>>
      BY <2>2 DEF Interrupt, MainStep, LeaveLoop, OpenStorage, StartLoop, RunDrogon,
         DrogonReturns, ClearKeepRunning, Stop, Join, StopMetricsBridge, Return,
         allVars, tunnelVars, clientVars, loopVars
    <3> QED BY <3>1, QuietTunnels
  <2> QED BY <2>1, <2>2 DEF LifeNext, LoopThreadStep, WorkerStep, ClientsStep, LoopNext
<1> QED BY <1>1, <1>2, LifeInvAlways, PTL
        DEF LifeSpec, ImplementsTunnels, Promise!Spec, allVars
=============================================================================
