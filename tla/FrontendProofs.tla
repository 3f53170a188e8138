--------------------------- MODULE FrontendProofs ---------------------------
(***************************************************************************)
(* Proofs about three parts of the front end that share no state. Of       *)
(* AndroidTun, for any coroutines, threshold and number of faults: the     *)
(* types, the mutual exclusion of tunnelMutex, and that no TUN stays open  *)
(* behind a dark screen. Of PacketTunnel: startTunnel is answered once and *)
(* no core is left without being told to stop. Of RouterSwitch, for any    *)
(* routers, protocols and calls: the protocols of an active router match,  *)
(* and the stored list of routers is the one that is shown.                *)
(***************************************************************************)
EXTENDS AndroidTun, PacketTunnel, RouterSwitch, Integers, TLAPS

Building == {"build", "built", "publish"}

\* establishTun is inside withLock exactly when its coroutine owns the mutex.
MutexInv == \A f \in Flow : at[f] \in Building <=> mutex = f

\* While the screen is dark a teardown still waits for the mutex if an interface
\* is open or on its way; a service that is gone holds none.
TeardownWaits ==
  /\ service # "none" /\ ~screen /\ (held \/ mutex # NoFlow)
       => \E c \in Closer : closing[c] = "lock"
  /\ service = "none" => ~held

ScreenInv == AndroidTypeOK /\ MutexInv /\ TeardownWaits

LEMMA UptoTyped == ASSUME NEW n \in Nat PROVE Upto(n) \in 0..Required
  BY AndroidAssumption DEF Upto

(* Every step keeps the flags of the service Boolean.                       *)
LEMMA FlagsKept ==
  ASSUME AndroidTypeOK, [AndroidNext]_androidVars
  PROVE  FlagsOK'
<1> USE DEF AndroidTypeOK, FlagsOK
<1>1. CASE UNCHANGED androidVars
  BY <1>1 DEF androidVars, fields, interface, tasks, log
<1>2. CASE Create \/ ScreenOn \/ CoreTurns \/ Prints \/ BridgesEnd
  BY <1>2 DEF Create, ScreenOn, Rescan, CoreTurns, Prints, BridgesEnd, fields, interface, log
<1>3. CASE StopFlow \/ Destroy \/ Killed
  BY <1>3 DEF StopFlow, Destroy, Killed, Down, Closed, Fresh, log
<1>4. ASSUME NEW c \in Closer, ScreenOff(c) \/ CloseTun(c) \/ ResetScan(c)
      PROVE  FlagsOK'
  BY <1>4 DEF ScreenOff, CloseTun, Closed, ResetScan, Rescan, fields, interface, log
<1>5. ASSUME NEW f \in Flow, \/ StartFlow(f) \/ PollLogs(f) \/ FlowEnds(f)
                             \/ Build(f) \/ Publish(f) \/ After(f)
      PROVE  FlagsOK'
  BY <1>5 DEF StartFlow, PollLogs, FlowEnds, Build, Publish, After, fields, interface, log
<1>6. ASSUME NEW f \in Flow, Decide(f)
      PROVE  FlagsOK'
  BY <1>6 DEF Decide, log
<1>7. ASSUME NEW f \in Flow, Enter(f) \/ BuildFails(f) \/ Published(f)
      PROVE  FlagsOK'
  BY <1>7 DEF Enter, BuildFails, Closed, Published, log
<1> QED
  BY <1>1, <1>2, <1>3, <1>4, <1>5, <1>6, <1>7 DEF AndroidNext, FlowNext

(* Every step keeps what is said of the interface Boolean.                  *)
LEMMA InterfaceKept ==
  ASSUME AndroidTypeOK, [AndroidNext]_androidVars
  PROVE  InterfaceOK'
<1> USE DEF AndroidTypeOK, InterfaceOK
<1>1. CASE UNCHANGED androidVars
  BY <1>1 DEF androidVars, fields, interface, tasks, log
<1>2. CASE Create \/ ScreenOn \/ CoreTurns \/ Prints \/ BridgesEnd
  BY <1>2 DEF Create, ScreenOn, Rescan, CoreTurns, Prints, BridgesEnd, fields, interface, log
<1>3. CASE StopFlow \/ Destroy \/ Killed
  BY <1>3 DEF StopFlow, Destroy, Killed, Down, Closed, Fresh, log
<1>4. ASSUME NEW c \in Closer, ScreenOff(c) \/ CloseTun(c) \/ ResetScan(c)
      PROVE  InterfaceOK'
  BY <1>4 DEF ScreenOff, CloseTun, Closed, ResetScan, Rescan, fields, interface, log
<1>5. ASSUME NEW f \in Flow, \/ StartFlow(f) \/ PollLogs(f) \/ FlowEnds(f)
                             \/ Build(f) \/ Publish(f) \/ After(f)
      PROVE  InterfaceOK'
  BY <1>5 DEF StartFlow, PollLogs, FlowEnds, Build, Publish, After, fields, interface, log
<1>6. ASSUME NEW f \in Flow, Decide(f)
      PROVE  InterfaceOK'
  BY <1>6 DEF Decide, log
<1>7. ASSUME NEW f \in Flow, Enter(f) \/ BuildFails(f) \/ Published(f)
      PROVE  InterfaceOK'
  BY <1>7 DEF Enter, BuildFails, Closed, Published, log
<1> QED
  BY <1>1, <1>2, <1>3, <1>4, <1>5, <1>6, <1>7 DEF AndroidNext, FlowNext

(* Every step keeps what is said of the log Boolean.                        *)
LEMMA LogKept ==
  ASSUME AndroidTypeOK, [AndroidNext]_androidVars
  PROVE  LogOK'
<1> USE DEF AndroidTypeOK, LogOK, FlagsOK
<1>1. CASE UNCHANGED androidVars
  BY <1>1 DEF androidVars, fields, interface, tasks, log
<1>2. CASE Create \/ ScreenOn \/ CoreTurns \/ Prints \/ BridgesEnd
  BY <1>2 DEF Create, ScreenOn, Rescan, CoreTurns, Prints, BridgesEnd, fields, interface, log
<1>3. CASE StopFlow \/ Destroy \/ Killed
  BY <1>3 DEF StopFlow, Destroy, Killed, Down, Closed, Fresh, log
<1>4. ASSUME NEW c \in Closer, ScreenOff(c) \/ CloseTun(c) \/ ResetScan(c)
      PROVE  LogOK'
  BY <1>4 DEF ScreenOff, CloseTun, Closed, ResetScan, Rescan, fields, interface, log
<1>5. ASSUME NEW f \in Flow, \/ StartFlow(f) \/ PollLogs(f) \/ FlowEnds(f)
                             \/ Build(f) \/ Publish(f) \/ After(f)
      PROVE  LogOK'
  BY <1>5 DEF StartFlow, PollLogs, FlowEnds, Build, Publish, After, fields, interface, log
<1>6. ASSUME NEW f \in Flow, Decide(f)
      PROVE  LogOK'
  BY <1>6 DEF Decide, log
<1>7. ASSUME NEW f \in Flow, Enter(f) \/ BuildFails(f) \/ Published(f)
      PROVE  LogOK'
  BY <1>7 DEF Enter, BuildFails, Closed, Published, log
<1> QED
  BY <1>1, <1>2, <1>3, <1>4, <1>5, <1>6, <1>7 DEF AndroidNext, FlowNext

(* Every step keeps the places of the coroutines and the counters.          *)
LEMMA PlacesKept ==
  ASSUME AndroidTypeOK, [AndroidNext]_androidVars
  PROVE  PlacesOK'
<1> USE AndroidAssumption DEF AndroidTypeOK, PlacesOK
<1>1. CASE UNCHANGED androidVars
  BY <1>1 DEF androidVars, fields, tasks, log
<1>2. CASE Create \/ ScreenOn \/ CoreTurns \/ BridgesEnd
  BY <1>2 DEF Create, ScreenOn, Rescan, CoreTurns, BridgesEnd, fields, tasks, log
<1>3. CASE Prints
  <2>1. tail' \in 0..Required /\ unread' \in 0..Required
    BY <1>3, UptoTyped DEF Prints
  <2> QED
    BY <1>3, <2>1 DEF Prints, fields, tasks
<1>4. CASE StopFlow
  BY <1>4 DEF StopFlow, Down, NoJob, log
<1>5. CASE Destroy
  BY <1>5 DEF Destroy, Down, Fresh, NoJob, log
<1>6. CASE Killed
  BY <1>6 DEF Killed, Down, Fresh, log
<1>7. ASSUME NEW c \in Closer, ScreenOff(c) \/ CloseTun(c) \/ ResetScan(c)
      PROVE  PlacesOK'
  BY <1>7 DEF ScreenOff, CloseTun, ResetScan, Rescan, fields, log
<1>8. ASSUME NEW f \in Flow, StartFlow(f)
      PROVE  PlacesOK'
  BY <1>8 DEF StartFlow, log
<1>9. ASSUME NEW f \in Flow, PollLogs(f)
      PROVE  PlacesOK'
  <2>1. Counted \in 0..Required
    BY UptoTyped DEF Counted
  <2> QED
    BY <1>9, <2>1 DEF PollLogs, Goto
<1>10. ASSUME NEW f \in Flow, FlowEnds(f) \/ Build(f) \/ Publish(f)
       PROVE  PlacesOK'
  BY <1>10 DEF FlowEnds, Build, Publish, Goto, fields, log
<1>11. ASSUME NEW f \in Flow, Enter(f)
       PROVE  PlacesOK'
  BY <1>11 DEF Enter, Leaves, Goto, log
<1>12. ASSUME NEW f \in Flow, BuildFails(f)
       PROVE  PlacesOK'
  BY <1>12 DEF BuildFails, Leaves, Goto, log
<1>13. ASSUME NEW f \in Flow, Published(f)
       PROVE  PlacesOK'
  BY <1>13 DEF Published, Leaves, Goto, log
<1>14. ASSUME NEW f \in Flow, After(f)
       PROVE  PlacesOK'
  BY <1>14 DEF After, Goto, log
<1>15. ASSUME NEW f \in Flow, Decide(f)
       PROVE  PlacesOK'
  BY <1>15 DEF Decide, Goto, log
<1> QED
  BY <1>1, <1>2, <1>3, <1>4, <1>5, <1>6, <1>7, <1>8, <1>9, <1>10, <1>11, <1>12, <1>13, <1>14,
     <1>15 DEF AndroidNext, FlowNext

(* Only the coroutine that owns the mutex is in establishTun's lock.       *)
LEMMA MutexKept ==
  ASSUME AndroidTypeOK, MutexInv, [AndroidNext]_androidVars
  PROVE  MutexInv'
<1> USE AndroidAssumption DEF AndroidTypeOK, PlacesOK, MutexInv, Building
<1>1. CASE Create \/ ScreenOn \/ CoreTurns \/ Prints \/ StopFlow \/ BridgesEnd
          \/ UNCHANGED androidVars
  <2>1. UNCHANGED <<at, mutex>>
    BY <1>1 DEF Create, ScreenOn, CoreTurns, Prints, StopFlow, BridgesEnd, NoJob, tasks,
                androidVars
  <2> QED
    BY <2>1
<1>2. CASE Destroy
  BY <1>2 DEF Destroy
<1>3. CASE Killed
  BY <1>3 DEF Killed
<1>4. ASSUME NEW f \in Flow, StartFlow(f)
      PROVE  MutexInv'
  BY <1>4 DEF StartFlow
<1>5. ASSUME NEW c \in Closer, ScreenOff(c) \/ CloseTun(c) \/ ResetScan(c)
      PROVE  MutexInv'
  BY <1>5 DEF ScreenOff, CloseTun, ResetScan
<1>6. ASSUME NEW f \in Flow, \/ PollLogs(f) \/ Decide(f) \/ FlowEnds(f)
                             \/ Build(f) \/ Publish(f) \/ After(f)
      PROVE  MutexInv'
  BY <1>6 DEF PollLogs, Decide, FlowEnds, Build, Publish, After, Goto
<1>7. ASSUME NEW f \in Flow, Enter(f)
      PROVE  MutexInv'
  BY <1>7 DEF Enter, Leaves, Goto
<1>8. ASSUME NEW f \in Flow, BuildFails(f) \/ Published(f)
      PROVE  MutexInv'
  BY <1>8 DEF BuildFails, Published, Leaves, Goto
<1> QED
  BY <1>1, <1>2, <1>3, <1>4, <1>5, <1>6, <1>7, <1>8 DEF AndroidNext, FlowNext

(* A teardown gets through only when no interface is on its way, and none  *)
(* sets out behind a dark screen.                                          *)
LEMMA TeardownKept ==
  ASSUME ScreenInv, [AndroidNext]_androidVars
  PROVE  TeardownWaits'
<1> USE AndroidAssumption DEF ScreenInv, AndroidTypeOK, PlacesOK, TeardownWaits
<1>1. CASE UNCHANGED androidVars
  BY <1>1 DEF androidVars, interface, tasks
<1>2. CASE Create
  <2>1. \A f \in Flow : at[f] = "none"
    BY <1>2 DEF Create
  <2>2. mutex = NoFlow
    BY <2>1 DEF MutexInv, Building
  <2> QED
    BY <1>2, <2>2 DEF Create, interface, tasks
<1>3. CASE ScreenOn \/ CoreTurns \/ Prints \/ BridgesEnd
  BY <1>3 DEF ScreenOn, Rescan, CoreTurns, Prints, BridgesEnd, interface, tasks
<1>4. CASE StopFlow
  BY <1>4 DEF StopFlow, Down, Closed, NoJob
<1>5. CASE Destroy \/ Killed
  BY <1>5 DEF Destroy, Killed, Fresh, Down, Closed
<1>6. ASSUME NEW f \in Flow, StartFlow(f)
      PROVE  TeardownWaits'
  BY <1>6 DEF StartFlow, interface
<1>7. ASSUME NEW c \in Closer, ScreenOff(c)
      PROVE  TeardownWaits'
  BY <1>7 DEF ScreenOff, interface
<1>8. ASSUME NEW c \in Closer, CloseTun(c)
      PROVE  TeardownWaits'
  BY <1>8 DEF CloseTun, Closed
<1>9. ASSUME NEW c \in Closer, ResetScan(c)
      PROVE  TeardownWaits'
  <2>1. \A d \in Closer : closing[d] = "lock" => closing'[d] = "lock"
    BY <1>9 DEF ResetScan
  <2> QED
    BY <1>9, <2>1 DEF ResetScan
<1>10. ASSUME NEW f \in Flow, \/ PollLogs(f) \/ Decide(f) \/ FlowEnds(f)
                              \/ Build(f) \/ Publish(f) \/ After(f)
       PROVE  TeardownWaits'
  BY <1>10 DEF PollLogs, Decide, FlowEnds, Build, Publish, After, interface
<1>11. ASSUME NEW f \in Flow, Enter(f)
       PROVE  TeardownWaits'
  BY <1>11 DEF Enter, Leaves
<1>12. ASSUME NEW f \in Flow, BuildFails(f)
       PROVE  TeardownWaits'
  BY <1>12 DEF BuildFails, Closed, Leaves
<1>13. ASSUME NEW f \in Flow, Published(f)
       PROVE  TeardownWaits'
  <2>1. mutex = f /\ mutex # NoFlow
    BY <1>13 DEF Published, MutexInv, Building
  <2> QED
    BY <1>13, <2>1 DEF Published, Leaves
<1> QED
  BY <1>1, <1>2, <1>3, <1>4, <1>5, <1>6, <1>7, <1>8, <1>9, <1>10, <1>11, <1>12, <1>13
     DEF AndroidNext, FlowNext

(* Types, mutual exclusion and waiting teardowns, all together.            *)
THEOREM ScreenInvCorrect == AndroidSpec => []ScreenInv
<1>1. AndroidInit => ScreenInv
  <2> SUFFICES ASSUME AndroidInit
               PROVE  ScreenInv
    OBVIOUS
  <2>1. AndroidTypeOK
    <3>1. FlagsOK /\ InterfaceOK /\ LogOK
      BY DEF AndroidInit, FlagsOK, InterfaceOK, LogOK
    <3>2. PlacesOK
      BY AndroidAssumption DEF AndroidInit, PlacesOK
    <3> QED
      BY <3>1, <3>2 DEF AndroidTypeOK
  <2>2. MutexInv
    <3>1. mutex = NoFlow /\ at = [f \in Flow |-> "none"]
      BY DEF AndroidInit
    <3> QED
      BY <3>1, AndroidAssumption DEF MutexInv, Building
  <2>3. TeardownWaits
    BY DEF AndroidInit, TeardownWaits
  <2> QED
    BY <2>1, <2>2, <2>3 DEF ScreenInv
<1>2. ScreenInv /\ [AndroidNext]_androidVars => ScreenInv'
  BY FlagsKept, InterfaceKept, LogKept, PlacesKept, MutexKept, TeardownKept DEF ScreenInv, AndroidTypeOK
<1> QED
  BY <1>1, <1>2, PTL DEF AndroidSpec

(* The variables of the service keep their types.                          *)
THEOREM AndroidTypeCorrect == AndroidSpec => []AndroidTypeOK
<1>1. ScreenInv => AndroidTypeOK
  BY DEF ScreenInv
<1> QED
  BY <1>1, ScreenInvCorrect, PTL

(* The screen receiver and establishTun: once the teardowns are through, no *)
(* TUN is open behind a dark screen, however the two have overlapped.       *)
THEOREM ScreenOffSafe == AndroidSpec => []ScreenOffCloses
<1>1. ScreenInv => ScreenOffCloses
  BY DEF ScreenInv, TeardownWaits, ScreenOffCloses
<1> QED
  BY <1>1, ScreenInvCorrect, PTL

-----------------------------------------------------------------------------

Active == {"queued", "entering", "running"}

\* No core is left that nobody has told, unless the stop has missed it.
Told == runner \notin Active \/ told
ToldOrMissed == Told \/ missed

\* The completion is there only until it has been called.
AnswerInv == completion => answers = 0

\* Before a start there is nothing; isRunning is down from the stop on; and
\* isCoreStarted is up while the core is.
PlaceInv ==
  /\ starter = "none" => runner = "none" /\ answer = "none" /\ stopper = "none"
  /\ starter # "none" => (isRunning <=> stopper = "none")
  /\ runner \in {"entering", "running"} => started

\* Whoever goes on to answer an error has told the core, or leaves that to a
\* stop, which tells it before it is through; each may come too soon for the core.
ToldInv ==
  /\ starter = "fail" \/ answer = "error" => stopper # "none" \/ ToldOrMissed
  /\ stopper \in {"finish", "done"} => ToldOrMissed

TunnelInv == TunnelTypeOK /\ AnswerInv /\ PlaceInv /\ ToldInv

\* The system hears one answer to a start.
AnsweredOnce == answers <= 1

\* Of the tunnel that is over: stopTunnel is through, or no stop has come. Nobody tells a
\* core that the stop or the failure has missed, because it had not run yet.
CoreTold == Over /\ stopper \in {"none", "done"} /\ ~missed => Told

\* Every step keeps the flags Boolean.
LEMMA TunnelFlagsKept ==
  ASSUME TunnelFlagsOK, [TunnelNext]_tunnelVars
  PROVE  TunnelFlagsOK'
<1> USE DEF TunnelFlagsOK
<1>1. CASE StartTunnel
  BY <1>1 DEF StartTunnel
<1>2. CASE StopTunnel
  BY <1>2 DEF StopTunnel, answering, readiness, core
<1>3. CASE ProcessEnds
  BY <1>3 DEF ProcessEnds
<1>4. CASE Ingest \/ CoreReturns
  BY <1>4 DEF Ingest, CoreReturns, answering, readiness, core
<1>5. CASE WaitEnds \/ CheckRunning \/ Applied \/ Connect \/ Opened \/ Unready
  BY <1>5 DEF WaitEnds, CheckRunning, Applied, Connect, Opened, Unready, Leads, StopCore,
              answering, readiness, core
<1>6. CASE AnswerReady \/ Fail
  BY <1>6 DEF AnswerReady, Fail, FinishStart, Leads, answering, readiness, core
<1>7. CASE Stopper
  BY <1>7 DEF Stopper, StopConnection, StopRunner, StopAnswers, StopCore, FinishStart,
              answering, readiness, core
<1>8. CASE Runner
  BY <1>8 DEF Runner, EnterCore, RunCore, MarkCoreExited, ReportExit, FinishStart,
              answering, readiness, core
<1>9. CASE ReceiveFails \/ ConnectionFails
  BY <1>9 DEF ReceiveFails, ConnectionFails, Leads, StopCore, answering, readiness, core
<1>10. CASE UNCHANGED tunnelVars
  BY <1>10 DEF tunnelVars, answering, readiness, core
<1> QED
  BY <1>1, <1>2, <1>3, <1>4, <1>5, <1>6, <1>7, <1>8, <1>9, <1>10 DEF TunnelNext, Starter

\* Every step keeps the places and the counters, and the completion.
LEMMA AnswerKept ==
  ASSUME TunnelTypeOK, AnswerInv, [TunnelNext]_tunnelVars
  PROVE  TunnelPlacesOK' /\ AnswerInv'
<1> USE ActiveAssumption DEF TunnelTypeOK, TunnelFlagsOK, TunnelPlacesOK, AnswerInv
<1>1. CASE StartTunnel
  BY <1>1 DEF StartTunnel
<1>2. CASE StopTunnel
  BY <1>2 DEF StopTunnel, answering, readiness, core
<1>3. CASE ProcessEnds
  BY <1>3 DEF ProcessEnds
<1>4. CASE Ingest \/ CoreReturns
  BY <1>4 DEF Ingest, CoreReturns, answering, readiness, core
<1>5. CASE WaitEnds \/ CheckRunning \/ Applied \/ Connect \/ Opened \/ Unready
  BY <1>5 DEF WaitEnds, CheckRunning, Applied, Connect, Opened, Unready, Leads, StopCore,
              answering, readiness, core
<1>6. CASE AnswerReady \/ Fail
  BY <1>6 DEF AnswerReady, Fail, FinishStart, Leads, answering, readiness, core
<1>7. CASE Stopper
  BY <1>7 DEF Stopper, StopConnection, StopRunner, StopAnswers, StopCore, FinishStart,
              answering, readiness, core
<1>8. CASE Runner
  BY <1>8 DEF Runner, EnterCore, RunCore, MarkCoreExited, ReportExit, FinishStart,
              answering, readiness, core
<1>9. CASE ReceiveFails \/ ConnectionFails
  BY <1>9 DEF ReceiveFails, ConnectionFails, Leads, StopCore, answering, readiness, core
<1>10. CASE UNCHANGED tunnelVars
  BY <1>10 DEF tunnelVars, answering, readiness, core
<1> QED
  BY <1>1, <1>2, <1>3, <1>4, <1>5, <1>6, <1>7, <1>8, <1>9, <1>10 DEF TunnelNext, Starter

\* Every step keeps the places, and who has told the core.
LEMMA TunnelPlacesKept ==
  ASSUME TunnelTypeOK, PlaceInv, ToldInv, [TunnelNext]_tunnelVars
  PROVE  PlaceInv' /\ ToldInv'
<1> USE DEF TunnelTypeOK, TunnelFlagsOK, TunnelPlacesOK, PlaceInv, ToldInv, ToldOrMissed, Told, Active
<1>1. CASE StartTunnel
  BY <1>1 DEF StartTunnel
<1>2. CASE StopTunnel
  BY <1>2 DEF StopTunnel, answering, readiness, core
<1>3. CASE ProcessEnds
  BY <1>3 DEF ProcessEnds
<1>4. CASE Ingest \/ CoreReturns
  BY <1>4 DEF Ingest, CoreReturns, answering, readiness, core
<1>5. CASE WaitEnds \/ CheckRunning \/ Applied \/ Connect \/ Opened \/ Unready
  BY <1>5 DEF WaitEnds, CheckRunning, Applied, Connect, Opened, Unready, Leads, StopCore,
              answering, readiness, core
<1>6. CASE AnswerReady \/ Fail
  BY <1>6 DEF AnswerReady, Fail, FinishStart, Leads, answering, readiness, core
<1>7. CASE Stopper
  <2>1. CASE StopConnection
    BY <2>1 DEF StopConnection, answering, readiness, core
  <2>2. CASE StopRunner /\ started
    BY <2>2 DEF StopRunner, StopCore, answering, readiness
  <2>3. CASE StopRunner /\ ~started
    BY <2>3 DEF StopRunner, answering, readiness
  <2>4. CASE StopAnswers
    BY <2>4 DEF StopAnswers, FinishStart, answering, readiness, core
  <2> QED
    BY <1>7, <2>1, <2>2, <2>3, <2>4 DEF Stopper
<1>8. CASE Runner
  BY <1>8 DEF Runner, EnterCore, RunCore, MarkCoreExited, ReportExit, FinishStart,
              answering, readiness, core
<1>9. CASE ReceiveFails \/ ConnectionFails
  BY <1>9 DEF ReceiveFails, ConnectionFails, Leads, StopCore, answering, readiness, core
<1>10. CASE UNCHANGED tunnelVars
  BY <1>10 DEF tunnelVars, answering, readiness, core
<1> QED
  BY <1>1, <1>2, <1>3, <1>4, <1>5, <1>6, <1>7, <1>8, <1>9, <1>10 DEF TunnelNext, Starter

\* Types, the one answer, the places and the told core, all together.
THEOREM TunnelInvCorrect == TunnelSpec => []TunnelInv
<1>1. TunnelInit => TunnelInv
  <2>1. TunnelInit => TunnelFlagsOK
    BY DEF TunnelInit, TunnelFlagsOK
  <2>2. TunnelInit => TunnelPlacesOK
    BY ActiveAssumption DEF TunnelInit, TunnelPlacesOK
  <2>3. TunnelInit => AnswerInv /\ PlaceInv /\ ToldInv
    BY DEF TunnelInit, AnswerInv, PlaceInv, ToldInv, ToldOrMissed, Told, Active
  <2> QED
    BY <2>1, <2>2, <2>3 DEF TunnelInv, TunnelTypeOK
<1>2. TunnelInv /\ [TunnelNext]_tunnelVars => TunnelInv'
  BY TunnelFlagsKept, AnswerKept, TunnelPlacesKept DEF TunnelInv, TunnelTypeOK
<1> QED
  BY <1>1, <1>2, PTL DEF TunnelSpec

\* finishStart: of the core's exit, the waiting block, the bridge and stopTunnel
\* only one answers a start.
THEOREM OneAnswer == TunnelSpec => []AnsweredOnce
<1>1. TunnelInv => AnsweredOnce
  BY DEF TunnelInv, TunnelTypeOK, TunnelPlacesOK, AnsweredOnce
<1> QED
  BY <1>1, TunnelInvCorrect, PTL

\* stopCore: a tunnel that is over has no core that nobody has told to stop, on any error
\* path and whenever the stop has come once the core runs. A stop or a failure before that
\* (missed) reaches nobody: the core starts afterwards and stays.
THEOREM NoCoreLeft == TunnelSpec => []CoreTold
<1>1. TunnelInv => CoreTold
  BY DEF TunnelInv, ToldInv, ToldOrMissed, CoreTold, Over
<1> QED
  BY <1>1, TunnelInvCorrect, PTL

-----------------------------------------------------------------------------

\* A call that got as far as the token has compared the protocols of its router
\* with the local ones; nothing changes either.
ComparedInv ==
  /\ activeRouter # None => Match(protocols[Local], protocols[activeRouter])
  /\ pc \in [Task -> {"idle", "removing", "ping", "remote", "local", "failed", "token", "post"}]
  /\ target \in [Task -> Router \cup {None}]
  /\ remote \in [Task -> Protocols \cup {None}]
  /\ protocols \in [Host -> Protocols]
  /\ \A f \in Task :
       /\ pc[f] \in {"ping", "remote", "local", "token", "post"} => target[f] \in Router
       /\ pc[f] = "local" => remote[f] = protocols[target[f]]
       /\ pc[f] \in {"token", "post"} => Match(protocols[Local], protocols[target[f]])

\* The list is written after every change; before the preferences are read it
\* only holds what waits to be written.
WrittenInv ==
  /\ writes \in Nat
  /\ loading /\ writes = 0 => saved = {}
  /\ ListIsStored

(* A step of connect compares, and goes on with what it has compared.       *)
LEMMA ComparedKept ==
  ASSUME ComparedInv, [Next]_vars
  PROVE  ComparedInv'
<1> USE HostsAssumption DEF ComparedInv, Step, TaskEnds, Disconnected, stored, calls
<1>1. CASE UNCHANGED vars
  BY <1>1 DEF vars
<1>2. CASE LoadSaved \/ SaveSaved \/ \E r \in Router : Add(r)
  BY <1>2 DEF LoadSaved, SaveSaved, Add
<1>3. CASE Disconnect
  BY <1>3 DEF Disconnect
<1>4. CASE Restart
  BY <1>4 DEF Restart
<1>5. ASSUME NEW f \in Task, NEW r \in Router, Remove(f, r)
      PROVE  ComparedInv'
  BY <1>5 DEF Remove
<1>6. ASSUME NEW f \in Task, NEW r \in Router, ConnectTo(f, r)
      PROVE  ComparedInv'
  BY <1>6 DEF ConnectTo
<1>7. ASSUME NEW f \in Task, RemoveDone(f)
      PROVE  ComparedInv'
  BY <1>7 DEF RemoveDone
<1>8. ASSUME NEW f \in Task, Pinged(f)
      PROVE  ComparedInv'
  BY <1>8 DEF Pinged
<1>9. ASSUME NEW f \in Task, RemoteRead(f)
      PROVE  ComparedInv'
  BY <1>9 DEF RemoteRead, Host
<1>10. ASSUME NEW f \in Task, HereRead(f)
       PROVE  ComparedInv'
  BY <1>10 DEF HereRead
<1>11. ASSUME NEW f \in Task, Unanswered(f)
       PROVE  ComparedInv'
  BY <1>11 DEF Unanswered
<1>12. ASSUME NEW f \in Task, Failed(f)
       PROVE  ComparedInv'
  BY <1>12 DEF Failed
<1>13. ASSUME NEW f \in Task, TokenRead(f)
       PROVE  ComparedInv'
  BY <1>13 DEF TokenRead
<1>14. ASSUME NEW f \in Task, Switched(f)
       PROVE  ComparedInv'
  BY <1>14 DEF Switched
<1> QED
  BY <1>1, <1>2, <1>3, <1>4, <1>5, <1>6, <1>7, <1>8, <1>9, <1>10, <1>11, <1>12, <1>13,
     <1>14 DEF Next

(* Every change of the list leaves a write to come.                         *)
LEMMA WrittenKept ==
  ASSUME WrittenInv, [Next]_vars
  PROVE  WrittenInv'
<1> USE DEF WrittenInv, ListIsStored, stored, calls
<1>1. CASE UNCHANGED vars
  BY <1>1 DEF vars
<1>2. CASE LoadSaved
  BY <1>2 DEF LoadSaved
<1>3. CASE SaveSaved
  BY <1>3 DEF SaveSaved
<1>4. ASSUME NEW r \in Router, Add(r) \/ \E f \in Task : Remove(f, r)
      PROVE  WrittenInv'
  BY <1>4 DEF Add, Remove
<1>5. CASE Restart
  BY <1>5 DEF Restart
<1>6. ASSUME UNCHANGED stored
      PROVE  WrittenInv'
  BY <1>6
<1>7. CASE Disconnect
  BY <1>6, <1>7 DEF Disconnect
<1>8. ASSUME NEW f \in Task, \/ \E r \in Router : ConnectTo(f, r)
                             \/ RemoveDone(f) \/ Pinged(f) \/ RemoteRead(f) \/ HereRead(f)
                             \/ Unanswered(f) \/ Failed(f) \/ TokenRead(f) \/ Switched(f)
      PROVE  WrittenInv'
  BY <1>6, <1>8 DEF ConnectTo, RemoveDone, Pinged, RemoteRead, HereRead, Unanswered, Failed,
                    TokenRead, Switched
<1> QED
  BY <1>1, <1>2, <1>3, <1>4, <1>5, <1>7, <1>8 DEF Next

(* RouterNotifier.connect: a router becomes active only if its protocols    *)
(* match the local ones, for any calls of connect that overlap, from        *)
(* whichever host and after any number of removals and restarts.            *)
THEOREM RouterCompatible == Spec => []ActiveCompatible
<1>1. Init => ComparedInv
  BY DEF Init, ComparedInv
<1>2. ComparedInv /\ [Next]_vars => ComparedInv'
  BY ComparedKept
<1>3. ComparedInv => ActiveCompatible
  BY DEF ComparedInv, ActiveCompatible
<1> QED
  BY <1>1, <1>2, <1>3, PTL DEF Spec

(* _loadSaved and _saveSaved: whatever was added and removed while the      *)
(* preferences were awaited, what they hold in the end is the list.         *)
THEOREM ListStored == Spec => []ListIsStored
<1>1. Init => WrittenInv
  BY DEF Init, WrittenInv, ListIsStored
<1>2. WrittenInv /\ [Next]_vars => WrittenInv'
  BY WrittenKept
<1>3. WrittenInv => ListIsStored
  BY DEF WrittenInv
<1> QED
  BY <1>1, <1>2, <1>3, PTL DEF Spec
=============================================================================
