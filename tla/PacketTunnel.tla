---------------------------- MODULE PacketTunnel ----------------------------
(***************************************************************************)
(* PacketTunnelProvider, the network extension of the iOS app: startTunnel *)
(* launches one block that runs the embedded core and one that waits until *)
(* its log says that it is ready, configures the interface and connects    *)
(* the bridge; stopTunnel may come at any time. The blocks, the callbacks  *)
(* and stopTunnel run on different queues; only startCompletion and the    *)
(* readiness state have locks.                                             *)
(*                                                                         *)
(* The system ends the process of a tunnel that is over and makes a new    *)
(* one for the next start.                                                 *)
(***************************************************************************)
EXTENDS Naturals

CONSTANT ActiveLines   \* active lines in a row: 3

ASSUME ActiveAssumption == ActiveLines \in Nat \ {0}

VARIABLES
  isRunning, started,  \* started: isCoreStarted
  completion,         \* startCompletion is there
  answer, answers,    \* what it was called with last, and how often
  tunnelIP, consecutive, exited,  \* CoreReadinessState
  runner,             \* the block of runCore
  told,               \* csqtt_stop has reached the running core
  starter,            \* the waiting block, and the callbacks that follow it
  connection,         \* udpConnection: "none", "open", "cancelled", "lost"
  stopper,            \* stopTunnel
  destroyed,          \* cancelTunnelWithError has been called
  missed              \* a stop or a failure came before the core ran: nobody has told the core,
                      \* which starts all the same and stays

readiness == <<tunnelIP, consecutive, exited>>
answering == <<completion, answer, answers>>
core == <<runner, started, told, missed>>
tunnelVars == <<isRunning, answering, readiness, core, starter, connection, stopper, destroyed>>

TunnelInit ==
  /\ isRunning = FALSE /\ started = FALSE
  /\ completion = FALSE /\ answer = "none" /\ answers = 0
  /\ tunnelIP = FALSE /\ consecutive = 0 /\ exited = FALSE
  /\ runner = "none" /\ told = FALSE /\ missed = FALSE
  /\ starter = "none" /\ connection = "none" /\ stopper = "none"
  /\ destroyed = FALSE

\* The completion is taken under its lock, so that one call gets it.
FinishStart(with) ==
  IF completion
    THEN completion' = FALSE /\ answer' = with /\ answers' = answers + 1
    ELSE UNCHANGED answering

\* csqtt_stop and csqttr_stop do nothing to a core that does not run yet.
StopCore ==
  /\ told' = (told \/ runner = "running")
  /\ missed' = (missed \/ runner \in {"queued", "entering"})
  /\ UNCHANGED <<runner, started>>

-----------------------------------------------------------------------------
(* The system.                                                             *)

StartTunnel ==
  /\ starter = "none" /\ answers = 0
  /\ isRunning' = TRUE
  /\ tunnelIP' = FALSE /\ consecutive' = 0 /\ exited' = FALSE
  /\ \/ completion' = TRUE /\ starter' = "waiting" /\ runner' = "queued"
        /\ UNCHANGED <<answer, answers>>
     \/ completion' = FALSE /\ answer' = "error" /\ answers' = 1  \* settings are missing
        /\ starter' = "over" /\ UNCHANGED runner
  /\ UNCHANGED <<started, told, missed, connection, stopper, destroyed>>

StopTunnel ==
  /\ starter # "none" /\ stopper = "none" /\ answer # "error"
  /\ isRunning' = FALSE /\ stopper' = "cancel"
  /\ UNCHANGED <<answering, readiness, core, starter, connection, destroyed>>

StopConnection ==
  /\ stopper = "cancel" /\ stopper' = "core"
  /\ connection' = IF connection = "none" THEN "none" ELSE "cancelled"
  /\ UNCHANGED <<isRunning, answering, readiness, core, starter, destroyed>>

StopRunner ==
  /\ stopper = "core" /\ stopper' = "finish"
  /\ IF started THEN StopCore
     ELSE missed' = (missed \/ runner = "queued") /\ UNCHANGED <<runner, started, told>>
  /\ UNCHANGED <<isRunning, answering, readiness, starter, connection, destroyed>>

StopAnswers ==
  /\ stopper = "finish" /\ stopper' = "done"
  /\ FinishStart("error")
  /\ UNCHANGED <<isRunning, readiness, core, starter, connection, destroyed>>

Over == answer = "error" \/ stopper = "done"

ProcessEnds ==
  /\ (Over \/ destroyed) /\ stopper \in {"none", "done"}
  /\ isRunning' = FALSE /\ started' = FALSE
  /\ completion' = FALSE /\ answer' = "none" /\ answers' = 0
  /\ tunnelIP' = FALSE /\ consecutive' = 0 /\ exited' = FALSE
  /\ runner' = "none" /\ told' = FALSE /\ missed' = FALSE
  /\ starter' = "none" /\ connection' = "none" /\ stopper' = "none"
  /\ destroyed' = FALSE

-----------------------------------------------------------------------------
(* runCore. The core prints, and ends by itself or because it was told.    *)

EnterCore ==
  /\ runner = "queued" /\ runner' = "entering" /\ started' = TRUE
  /\ UNCHANGED <<isRunning, answering, readiness, told, missed, starter, connection, stopper,
                 destroyed>>

RunCore ==
  /\ runner = "entering" /\ runner' = "running"
  /\ UNCHANGED <<isRunning, answering, readiness, started, told, missed, starter, connection,
                 stopper, destroyed>>

\* ingest: TUNCONF, or a line of statistics.
Ingest ==
  /\ runner = "running"
  /\ \/ tunnelIP' = TRUE /\ UNCHANGED consecutive
     \/ /\ consecutive' \in {0, IF consecutive < ActiveLines THEN consecutive + 1 ELSE consecutive}
        /\ UNCHANGED tunnelIP
  /\ UNCHANGED <<isRunning, answering, exited, core, starter, connection, stopper, destroyed>>

CoreReturns ==
  /\ runner = "running" /\ runner' = "returned" /\ started' = FALSE
  /\ UNCHANGED <<isRunning, answering, readiness, told, missed, starter, connection, stopper,
                 destroyed>>

MarkCoreExited ==
  /\ runner = "returned" /\ runner' = "marked" /\ exited' = TRUE
  /\ UNCHANGED <<isRunning, answering, tunnelIP, consecutive, started, told, missed, starter,
                 connection, stopper, destroyed>>

ReportExit ==
  /\ runner = "marked" /\ runner' = "ended"
  /\ IF isRunning THEN FinishStart("error") ELSE UNCHANGED answering
  /\ UNCHANGED <<isRunning, readiness, started, told, missed, starter, connection, stopper,
                 destroyed>>

-----------------------------------------------------------------------------
(* waitUntilReady, and what it leads to.                                   *)

Leads(place) == starter' = place

\* Ready; the core has exited; or forty-five seconds have passed.
WaitEnds ==
  /\ starter = "waiting"
  /\ \/ tunnelIP /\ consecutive >= ActiveLines /\ Leads("check")
     \/ Leads("unready")
  /\ UNCHANGED <<isRunning, answering, readiness, core, connection, stopper, destroyed>>

CheckRunning ==
  /\ starter = "check" /\ Leads(IF isRunning THEN "applying" ELSE "fail")
  /\ UNCHANGED <<isRunning, answering, readiness, core, connection, stopper, destroyed>>

\* The callback of setTunnelNetworkSettings; startUDPBridge up to its guard.
Applied ==
  /\ starter = "applying"
  /\ \/ Leads("unready")
     \/ Leads(IF isRunning THEN "connect" ELSE "fail")
  /\ UNCHANGED <<isRunning, answering, readiness, core, connection, stopper, destroyed>>

Connect ==
  /\ starter = "connect" /\ Leads("opening") /\ connection' = "open"
  /\ UNCHANGED <<isRunning, answering, readiness, core, stopper, destroyed>>

\* stateUpdateHandler. A cancelled connection has none.
Opened ==
  /\ starter = "opening"
  /\ \/ connection = "open" /\ Leads("answer") /\ UNCHANGED connection
     \/ connection = "open" /\ Leads("unready") /\ connection' = "lost"
     \/ connection = "cancelled" /\ Leads("over") /\ UNCHANGED connection
  /\ UNCHANGED <<isRunning, answering, readiness, core, stopper, destroyed>>

AnswerReady ==
  /\ starter = "answer" /\ FinishStart("ok")
  /\ Leads(IF isRunning THEN "reading" ELSE "over")
  /\ UNCHANGED <<isRunning, readiness, core, connection, stopper, destroyed>>

\* The mutated form answers only.
UnreadyForgetsCore ==
  /\ starter = "unready" /\ Leads("fail")
  /\ UNCHANGED <<isRunning, answering, readiness, core, connection, stopper, destroyed>>

Unready ==
  /\ starter = "unready" /\ Leads("fail") /\ StopCore
  /\ UNCHANGED <<isRunning, answering, readiness, connection, stopper, destroyed>>

Fail ==
  /\ starter = "fail" /\ Leads("over") /\ FinishStart("error")
  /\ UNCHANGED <<isRunning, readiness, core, connection, stopper, destroyed>>

\* receiveMessage ends with an error: the connection has failed, or nobody
\* listens on the port of the core any more. The check of isRunning comes first.
ReceiveFails ==
  /\ starter = "reading" /\ (connection # "open" \/ runner # "running") /\ Leads("over")
  /\ destroyed' = (destroyed \/ isRunning)
  /\ UNCHANGED <<isRunning, answering, readiness, core, connection, stopper>>

\* The handler's .failed on a connection that has been ready.
ConnectionFails ==
  /\ starter = "reading" /\ connection = "open" /\ connection' = "lost"
  /\ StopCore
  /\ UNCHANGED <<isRunning, answering, readiness, starter, stopper, destroyed>>

-----------------------------------------------------------------------------
Starter == \/ WaitEnds \/ CheckRunning \/ Applied \/ Connect \/ Opened
           \/ AnswerReady \/ Unready \/ Fail
Stopper == StopConnection \/ StopRunner \/ StopAnswers
Runner == EnterCore \/ RunCore \/ MarkCoreExited \/ ReportExit

TunnelNext ==
  \/ StartTunnel \/ StopTunnel \/ ProcessEnds \/ Ingest \/ CoreReturns
  \/ Starter \/ Stopper \/ Runner \/ ReceiveFails \/ ConnectionFails

\* Blocks and callbacks run, the deadline passes, a core that was told to stop
\* ends, and a packet is sent to a core that is gone.
TunnelFairness ==
  /\ WF_tunnelVars(Starter) /\ WF_tunnelVars(Stopper) /\ WF_tunnelVars(Runner)
  /\ WF_tunnelVars(told /\ CoreReturns) /\ WF_tunnelVars(ReceiveFails)

TunnelSpec == TunnelInit /\ [][TunnelNext]_tunnelVars /\ TunnelFairness

-----------------------------------------------------------------------------
TunnelFlagsOK ==
  /\ isRunning \in BOOLEAN /\ started \in BOOLEAN /\ completion \in BOOLEAN
  /\ tunnelIP \in BOOLEAN /\ exited \in BOOLEAN
  /\ told \in BOOLEAN /\ missed \in BOOLEAN /\ destroyed \in BOOLEAN

TunnelPlacesOK ==
  /\ answer \in {"none", "ok", "error"} /\ answers \in 0..1 /\ consecutive \in 0..ActiveLines
  /\ runner \in {"none", "queued", "entering", "running", "returned", "marked", "ended"}
  /\ starter \in {"none", "waiting", "check", "applying", "connect", "opening", "answer",
                  "reading", "unready", "fail", "over"}
  /\ connection \in {"none", "open", "cancelled", "lost"}
  /\ stopper \in {"none", "cancel", "core", "finish", "done"}

TunnelTypeOK == TunnelFlagsOK /\ TunnelPlacesOK

NoCore == runner \notin {"queued", "entering", "running"} \/ missed

Up == answer = "ok" /\ stopper = "none" /\ runner = "running" /\ connection = "open"

Ended == (Over \/ destroyed) /\ NoCore

\* startTunnel, stopTunnel, startReadingFromUDP: a tunnel that is not up, be it
\* starting, stopped or dead behind a successful start, comes up or is given back to
\* the system with no core left running, whatever fails and in whatever order core,
\* callbacks and stop come; unless the core was told before it ran.
TunnelSettles == (starter # "none" /\ ~Up) ~> (starter = "none" \/ Up \/ Ended)
=============================================================================
