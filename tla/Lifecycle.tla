----------------------------- MODULE Lifecycle -----------------------------
(***************************************************************************)
(* The process: main (regista_db/src/main.cpp), its signal handler, the    *)
(* thread of the ZeroMQ loop and the metrics bridge (MetricsExporter.cpp). *)
(*                                                                         *)
(* Drogon is external: run() installs a handler of its own for SIGINT and  *)
(* returns after a signal, once its workers have ended.                    *)
(***************************************************************************)
EXTENDS ServerLoop

VARIABLES
  main,         \* where main is
  interrupted,  \* the process has received SIGINT
  quit,         \* Drogon has been told to quit
  bridge        \* whether the thread that sets the gauges is alive

processVars == <<main, interrupted, quit, bridge>>

LifeTypeOK ==
  /\ LoopTypeOK
  /\ main \in {"opening", "opened", "started", "serving", "returned", "stopping",
               "joining", "joined", "ending", "done"}
  /\ interrupted \in BOOLEAN /\ quit \in BOOLEAN /\ bridge \in BOOLEAN

LifeInit ==
  /\ TunnelInit
  /\ loop = "none"
  /\ main = "opening"
  /\ interrupted = FALSE /\ quit = FALSE /\ bridge = FALSE

-----------------------------------------------------------------------------
(***************************************************************************)
(* Until Drogon runs, SIGINT finds main's handler, which sets keep_running *)
(* and nothing else.  The kernel may pick any thread to handle a signal,   *)
(* and a poll that is interrupted makes Run leave its loop.                *)
(***************************************************************************)
Interrupt ==
  /\ main # "done"
  /\ interrupted' = TRUE
  /\ IF main \in {"opening", "opened", "started"}
     THEN keep_running' = FALSE /\ UNCHANGED quit
     ELSE quit' = TRUE /\ UNCHANGED keep_running
  /\ loop' \in {loop} \cup (IF loop = "poll" THEN {"stopped"} ELSE {})
  /\ UNCHANGED <<main, bridge, clientVars, revents, serving, request, response, storeVars,
                 running_>>

(* The metrics bridge starts if statistics are enabled. *)
OpenStorage ==
  /\ main = "opening"
  /\ main' = "opened"
  /\ bridge' \in BOOLEAN
  /\ UNCHANGED <<interrupted, quit, tunnelVars>>

StartLoop ==
  /\ main = "opened"
  /\ main' = "started"
  /\ loop' = "poll"
  /\ UNCHANGED <<interrupted, quit, bridge, clientVars, revents, serving, request, response,
                 storeVars, flags>>

LeaveLoop_WhenIdle ==
  /\ loop = "poll"
  /\ ~Running \/ ~(Ready.ingest \/ Ready.query)
  /\ loop' = "stopped"
  /\ UNCHANGED <<processVars, clientVars, revents, serving, request, response, storeVars,
                 flags>>

(* The loop ends and closes its sockets: nobody takes what they hold. *)
LeaveLoop ==
  /\ loop = "poll"
  /\ ~Running
  /\ loop' = "stopped"
  /\ UNCHANGED <<processVars, clientVars, revents, serving, request, response, storeVars,
                 flags>>

RunDrogon ==
  /\ main = "started"
  /\ main' = "serving"
  /\ UNCHANGED <<interrupted, quit, bridge, tunnelVars>>

DrogonReturns ==
  /\ main = "serving"
  /\ quit
  /\ main' = "returned"
  /\ UNCHANGED <<interrupted, quit, bridge, tunnelVars>>

ClearKeepRunning ==
  /\ main = "returned"
  /\ main' = "stopping"
  /\ keep_running' = FALSE
  /\ UNCHANGED <<interrupted, quit, bridge, clientVars, loopVars, storeVars, running_>>

Stop ==
  /\ main = "stopping"
  /\ main' = "joining"
  /\ running_' = FALSE
  /\ UNCHANGED <<interrupted, quit, bridge, clientVars, loopVars, storeVars, keep_running>>

Join_Detach ==
  /\ main = "joining"
  /\ main' = "joined"
  /\ UNCHANGED <<interrupted, quit, bridge, tunnelVars>>

Join ==
  /\ main = "joining"
  /\ loop = "stopped"
  /\ main' = "joined"
  /\ UNCHANGED <<interrupted, quit, bridge, tunnelVars>>

(* Its keep_running is its own and nobody reads it; worker_thread is null. *)
StopMetricsBridge ==
  /\ main = "joined"
  /\ main' = "ending"
  /\ UNCHANGED <<interrupted, quit, bridge, tunnelVars>>

(* main returns; the process ends with the threads that are left. *)
Return ==
  /\ main = "ending"
  /\ main' = "done"
  /\ bridge' = FALSE
  /\ UNCHANGED <<interrupted, quit, tunnelVars>>

MainStep ==
  \/ OpenStorage \/ StartLoop \/ RunDrogon \/ DrogonReturns \/ ClearKeepRunning
  \/ Stop \/ Join \/ StopMetricsBridge \/ Return

LoopThreadStep ==
  \/ LoopStep /\ UNCHANGED processVars
  \/ LeaveLoop

(* The gateway's workers are Drogon's: there are none before and after run. *)
WorkerStep == main = "serving" /\ OtherCall /\ UNCHANGED processVars

ClientsStep == (\E c \in Clients : ClientStep(c)) /\ UNCHANGED processVars

LifeNext == Interrupt \/ MainStep \/ LoopThreadStep \/ WorkerStep \/ ClientsStep

(* main's thread and the loop's run; nobody has to send a signal. *)
LifeSpec ==
  /\ LifeInit /\ [][LifeNext]_<<processVars, tunnelVars>>
  /\ WF_<<processVars, tunnelVars>>(MainStep)
  /\ WF_<<processVars, tunnelVars>>(LoopThreadStep)

-----------------------------------------------------------------------------
(***************************************************************************)
(* The server object and the storage are destroyed when main returns: by   *)
(* then the loop has ended, and it has ended with every query that it took *)
(* answered, whatever it was doing when it was told to stop (Run looks at  *)
(* its flags between rounds only, main joins the thread).                  *)
(***************************************************************************)
LoopEndsFirst ==
  /\ main \in {"joined", "ending", "done"} => loop = "stopped"
  /\ loop = "stopped" => serving = None /\ OneReplyEach

(***************************************************************************)
(* The loop does not end by itself: no message, and no lack of them, makes *)
(* Run leave its loop before the process has received a signal.            *)
(***************************************************************************)
OnlySignalsStop == loop = "stopped" => interrupted

(***************************************************************************)
(* main joins the loop's thread without a timeout, so it must wait for a   *)
(* loop that has been started and told to stop, and that is not in a recv  *)
(* for a message nobody may ever send: there it would not see its flags.   *)
(***************************************************************************)
JoinNeverHangs ==
  main = "joining" => loop # "none" /\ ~Running /\ RecvNeverBlocks

(***************************************************************************)
(* Once Drogon has been told to quit the process ends, however many        *)
(* messages keep arriving at the loop and wherever the signal found it.    *)
(***************************************************************************)
ShutdownCompletes == quit ~> main = "done"

(***************************************************************************)
(* What the comment on signal_handler (main.cpp:17) says, "Handles system  *)
(* signals (e.g., SIGINT) to gracefully shut down the server": not so for  *)
(* a signal that arrives before Drogon runs, which ends the loop alone.    *)
(***************************************************************************)
InterruptEndsServer == interrupted ~> main = "done"

(***************************************************************************)
(* What the comment on StopMetricsBridge (MetricsExporter.cpp:75) says,    *)
(* "Stops the metrics bridge gracefully": the detached thread goes on      *)
(* while main returns and the gauges it sets are destroyed.                *)
(***************************************************************************)
BridgeStopped == main = "ending" => ~bridge
=============================================================================
