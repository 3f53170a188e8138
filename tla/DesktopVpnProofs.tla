-------------------------- MODULE DesktopVpnProofs --------------------------
(***************************************************************************)
(* Proofs about DesktopVpn, for any number of handlers, watchdogs and VK   *)
(* calls, any readiness threshold, with and without dropped requests.      *)
(*                                                                         *)
(*   TypeOK        is inductive;                                           *)
(*   LockInv       a task is in a critical section iff it holds the lock;  *)
(*   ResourceInv   what the holder of the lock may rely on: with LockInv   *)
(*                 it gives the refinement of TunnelSession;               *)
(*   SupervisorInv where a live watchdog is recorded: with LockInv it      *)
(*                 gives OneSupervisor;                                    *)
(*   AbortInv      an abort never strikes a task that has the lock;        *)
(*   CallInv       which list may hold a VK call when: CallsTracked;       *)
(*   RestInv       what each step of a teardown has cleared: RestIsClean;  *)
(*   EventInv      the last event while nobody can emit one: EventsSettle. *)
(***************************************************************************)
EXTENDS DesktopVpn, TLAPS

-----------------------------------------------------------------------------
(* The variables keep the types TypeOK gives them.                         *)
THEOREM TypeCorrect == Spec => []TypeOK
<1>1. Init => TypeOK
  <2> SUFFICES ASSUME Init PROVE TypeOK
    OBVIOUS
  <2>1. pc \in [Task -> {"dead", "idle"}]
    BY DEF Init
  <2>2. \A h \in Handler : pc[h] = "idle"
    BY TasksAssumption DEF Init, Task, Stopper
  <2>3. \A w \in Watchdog : pc[w] = "dead"
    BY DEF Init, Task
  <2>4. pc[Cleaner] = "idle"
    BY TasksAssumption DEF Init, Task, Stopper
  <2>5. ticks \in [Watchdog -> 0..ReadyTicks]
    BY TicksAssumption DEF Init
  <2>6. /\ pc \in [Task -> HandlerPc \cup CleanerPc \cup WatchdogPc]
        /\ \A h \in Handler : pc[h] \in HandlerPc
        /\ pc[Cleaner] \in CleanerPc
        /\ \A w \in Watchdog : pc[w] \in WatchdogPc
    BY <2>1, <2>2, <2>3, <2>4 DEF HandlerPc, CleanerPc, WatchdogPc
  <2> QED
    BY <2>5, <2>6 DEF Init, TypeOK, StatusEvent, Phase, NoRequest
<1>2. TypeOK /\ [Next]_vars => TypeOK'
  <2> SUFFICES ASSUME TypeOK, [Next]_vars PROVE TypeOK'
    OBVIOUS
  <2>0. \A connected \in BOOLEAN, state \in Phase : <<connected, state>> \in StatusEvent
    BY DEF StatusEvent
  <2> USE TasksAssumption, TicksAssumption DEF TypeOK, Task, Stopper, HandlerPc, CleanerPc,
        WatchdogPc, Phase
  <2>1. ASSUME NEW h \in Handler, HandlerNext(h)  PROVE TypeOK'
    <3>1. ASSUME NEW r \in Request, Ask(h, r)  PROVE TypeOK'
      BY <3>1 DEF Ask, Goto, tunnel, shown, calls
    <3>2. CASE NoConfig(h)
      BY <3>2 DEF NoConfig, Replied, Goto, NoRequest, tunnel, shown, calls
    <3>3. CASE BeginConnect(h)
      BY <3>3 DEF BeginConnect, Lock, AbortWatchdog, Goto, Live, tunnel, shown, calls
    <3>4. CASE BeginDisconnect(h)
      BY <3>4, <2>0 DEF BeginDisconnect, Show, Lock, AbortWatchdog, Goto, Live, tunnel,
        calls
    <3>5. CASE DisconnectReplied(h)
      BY <3>5, <2>0 DEF DisconnectReplied, Show, Reply, Replied, Goto, NoRequest,
        FinishedAt, tunnel, calls
    <3>6. CASE ReconnectPauses(h)
      BY <3>6, <2>0 DEF ReconnectPauses, Goto, Show, FinishedAt, tunnel, calls
    <3>7. CASE ReconnectResumes(h)
      BY <3>7 DEF ReconnectResumes, Goto, tunnel, shown, calls, Request
    <3>8. CASE ConnectCleared(h)
      <4>1. event' \in StatusEvent /\ phase' \in Phase
        BY <3>8, <2>0 DEF ConnectCleared, Show
      <4> QED BY <3>8, <4>1 DEF ConnectCleared, Goto, FinishedAt, tunnel, calls
    <3>9. CASE PrepareFails(h)
      BY <3>9 DEF PrepareFails, Reply, Replied, Goto, NoRequest, tunnel, shown, calls
    <3>10. CASE Prepared(h)
      BY <3>10 DEF Prepared, Goto, tunnel, shown, calls
    <3>11. CASE StartCall(h)
      BY <3>11 DEF StartCall, tasks, tunnel, shown
    <3>12. CASE CallsStarted(h)
      BY <3>12 DEF CallsStarted, Goto, tunnel, shown, calls
    <3>13. CASE NoCalls(h)
      BY <3>13 DEF NoCalls, Reply, Replied, Goto, NoRequest, tunnel, shown, calls
    <3>14. CASE GiveUp(h)
      BY <3>14 DEF GiveUp, Goto, tunnel, shown
    <3>15. CASE GaveUp(h)
      BY <3>15 DEF GaveUp, Reply, Replied, Goto, NoRequest, FinishedAt, tunnel, shown, calls
    <3>16. CASE Spawn(h)
      BY <3>16 DEF Spawn, Live, NoRequest, shown
    <3>17. CASE Drop(h)
      BY <3>17 DEF Drop, Replied, Goto, NoRequest, Joined, shown
    <3> HIDE DEF TypeOK, Task, Stopper, HandlerPc, CleanerPc, WatchdogPc, Phase
    <3> QED
      BY <2>1, <3>1, <3>2, <3>3, <3>4, <3>5, <3>6, <3>7, <3>8, <3>9, <3>10, <3>11, <3>12,
        <3>13, <3>14, <3>15, <3>16, <3>17
      DEF HandlerNext
  <2>2. ASSUME NEW w \in Watchdog, WatchdogNext(w)  PROVE TypeOK'
    <3>1. CASE SeeActive(w)
      <4>1. event' \in StatusEvent /\ phase' \in Phase
        BY <3>1, <2>0 DEF SeeActive, Show, shown
      <4>2. ticks' \in [Watchdog -> 0..ReadyTicks]
        BY <3>1 DEF SeeActive
      <4> QED BY <3>1, <4>1, <4>2 DEF SeeActive, tunnel, calls
    <3>2. CASE SeeIdle(w)
      <4>1. event' \in StatusEvent /\ phase' \in Phase
        BY <3>2, <2>0 DEF SeeIdle, Show
      <4> QED BY <3>2, <4>1 DEF SeeIdle, tunnel, calls
    <3>3. CASE Ready(w)
      BY <3>3 DEF Ready, Goto, tunnel, shown, calls
    <3>4. CASE TimesOut(w)
      <4>1. event' \in StatusEvent /\ phase' \in Phase
        BY <3>4, <2>0 DEF TimesOut, Show
      <4> QED BY <3>4, <4>1 DEF TimesOut, Goto, tunnel, calls
    <3>5. CASE LockToStart(w)
      BY <3>5 DEF LockToStart, Goto, Lock, tunnel, shown, calls
    <3>6. CASE LockTooLate(w)
      BY <3>6 DEF LockTooLate, Goto, tunnel, shown, calls
    <3>7. CASE TunStarts(w)
      BY <3>7 DEF TunStarts, Goto, shown, calls
    <3>8. CASE TunFails(w)
      BY <3>8 DEF TunFails, Goto, tunnel, calls
    <3>9. CASE SocksFails(w)
      BY <3>9 DEF SocksFails, Goto, shown, calls
    <3>10. CASE Announce(w)
      BY <3>10, <2>0 DEF Announce, Goto, Show, tunnel, calls
    <3>11. CASE SeeStopped(w)
      BY <3>11 DEF SeeStopped, Goto, tunnel, shown, calls
    <3>12. CASE LockToFinish(w)
      BY <3>12 DEF LockToFinish, Goto, Lock, tunnel, shown, calls
    <3>13. CASE WatchdogFinished(w)
      BY <3>13, <2>0 DEF WatchdogFinished, Goto, Show, FinishedAt, tunnel, calls
    <3>14. CASE DiesAborted(w)
      BY <3>14 DEF DiesAborted, Goto, AwaitsUnlocked, AwaitsLocked, shown, calls
    <3> HIDE DEF TypeOK, Task, Stopper, HandlerPc, CleanerPc, WatchdogPc, Phase
    <3> QED
      BY <2>2, <3>1, <3>2, <3>3, <3>4, <3>5, <3>6, <3>7, <3>8, <3>9, <3>10, <3>11, <3>12,
        <3>13, <3>14
      DEF WatchdogNext
  <2>3. ASSUME NEW t \in Task, TeardownNext(t)  PROVE TypeOK'
    <3>1. CASE StopTun(t)
      <4>1. joining' \in [Stopper -> Watchdog \cup {NoOne}]
        BY <3>1 DEF StopTun, Joined
      <4>2. pc' = [pc EXCEPT ![t] = "tun"]
        BY <3>1 DEF StopTun, Goto
      <4>3. /\ running' \in BOOLEAN
            /\ UNCHANGED <<op, req, slot, aborted, ticks, core, session, socks, shown,
                calls, cut>>
        BY <3>1 DEF StopTun
      <4> QED BY <4>1, <4>2, <4>3 DEF shown, calls
    <3>2. CASE TunStopped(t)
      BY <3>2 DEF TunStopped, Goto, calls
    <3>3. CASE KillCore(t)
      BY <3>3 DEF KillCore, Goto, shown, calls
    <3>4. CASE FinishCall(t)
      BY <3>4 DEF FinishCall, tasks, tunnel, shown, calls
    <3> HIDE DEF TypeOK, Task, Stopper, HandlerPc, CleanerPc, WatchdogPc, Phase
    <3> QED
      BY <2>3, <3>1, <3>2, <3>3, <3>4
      DEF TeardownNext
  <2>4. CASE Signal
    BY <2>4 DEF Signal, Goto, tunnel, shown, calls
  <2>5. CASE BeginCleanup
    BY <2>5 DEF BeginCleanup, Lock, AbortWatchdog, Goto, Live, shown, calls
  <2>6. CASE CleanupDone
    BY <2>6 DEF CleanupDone, Goto, shown, calls
  <2>7. CASE CoreExits
    BY <2>7 DEF CoreExits, tasks, shown, calls
  <2>8. CASE BridgeEnds
    <3>1. event' \in StatusEvent
      BY <2>8, <2>0 DEF BridgeEnds
    <3>2. /\ session' \in {"none", "up", "ended"}
          /\ running' \in BOOLEAN
          /\ UNCHANGED <<tasks, core, socks, phase, calls, cut>>
      BY <2>8 DEF BridgeEnds
    <3> QED BY <3>1, <3>2 DEF tasks, calls
  <2>9. CASE Terminated
    BY <2>9 DEF Terminated, Live, vars, tasks, tunnel, shown, calls
  <2>10. CASE ReportOther
    BY <2>10 DEF ReportOther, tasks, tunnel, shown
  <2>11. CASE StopOther
    BY <2>11 DEF StopOther, tasks, tunnel, shown
  <2>12. CASE UNCHANGED vars
    BY <2>12 DEF vars, tasks, tunnel, shown, calls
  <2> HIDE DEF TypeOK, Task, Stopper, HandlerPc, CleanerPc, WatchdogPc, Phase
  <2> QED
    BY <2>1, <2>2, <2>3, <2>4, <2>5, <2>6, <2>7, <2>8, <2>9, <2>10, <2>11, <2>12
    DEF Next
<1>3. QED
  BY <1>1, <1>2, PTL DEF Spec

-----------------------------------------------------------------------------
LockedPc == {"join", "tun", "kill", "calls", "prepare", "vk", "spawn", "abandon",
             "start", "stop"}

\* A task is between two points at which it releases the lock iff it is the holder.
LockInv == \A t \in Task : pc[t] \in LockedPc <=> op = t

(* The mutex: the critical sections of handlers, watchdogs and the cleanup exclude each   *)
(* other, also when a handler is dropped or a watchdog is aborted inside of one.          *)
THEOREM LockCorrect == Spec => []LockInv
<1>1. Init => LockInv
  BY TasksAssumption DEF Init, LockInv, LockedPc, Task, Stopper
<1>2. TypeOK /\ LockInv /\ [Next]_vars => LockInv'
  <2> SUFFICES ASSUME TypeOK, LockInv, [Next]_vars PROVE LockInv'
    OBVIOUS
  <2> DEFINE Types == pc \in [Task -> HandlerPc \cup CleanerPc \cup WatchdogPc]
                      /\ op \in Task \cup {NoOne}
  <2>0. Types
    BY DEF TypeOK
  <2> USE TasksAssumption, <2>0 DEF LockInv, LockedPc, Task, Stopper
  <2>1. ASSUME NEW h \in Handler, HandlerNext(h)  PROVE LockInv'
    <3>1. ASSUME NEW r \in Request, Ask(h, r)  PROVE LockInv'
      BY <3>1 DEF Ask, Goto, tunnel, shown, calls
    <3>2. CASE NoConfig(h)
      BY <3>2 DEF NoConfig, Replied, Goto, NoRequest, tunnel, shown, calls
    <3>3. CASE BeginConnect(h)
      BY <3>3 DEF BeginConnect, Lock, AbortWatchdog, Goto, Live, tunnel, shown, calls
    <3>4. CASE BeginDisconnect(h)
      BY <3>4 DEF BeginDisconnect, Show, Lock, AbortWatchdog, Goto, Live, tunnel, calls
    <3>5. CASE DisconnectReplied(h)
      BY <3>5 DEF DisconnectReplied, Show, Reply, Replied, Goto, NoRequest, FinishedAt,
        tunnel, calls
    <3>6. CASE ReconnectPauses(h)
      BY <3>6 DEF ReconnectPauses, Goto, Show, FinishedAt, tunnel, calls
    <3>7. CASE ReconnectResumes(h)
      BY <3>7 DEF ReconnectResumes, Goto, tunnel, shown, calls
    <3>8. CASE ConnectCleared(h)
      BY <3>8 DEF ConnectCleared, Goto, Show, FinishedAt, tunnel, calls
    <3>9. CASE PrepareFails(h)
      BY <3>9 DEF PrepareFails, Reply, Replied, Goto, NoRequest, tunnel, shown, calls
    <3>10. CASE Prepared(h)
      BY <3>10 DEF Prepared, Goto, tunnel, shown, calls
    <3>11. CASE StartCall(h)
      BY <3>11 DEF StartCall, tasks, tunnel, shown
    <3>12. CASE CallsStarted(h)
      BY <3>12 DEF CallsStarted, Goto, tunnel, shown, calls
    <3>13. CASE NoCalls(h)
      BY <3>13 DEF NoCalls, Reply, Replied, Goto, NoRequest, tunnel, shown, calls
    <3>14. CASE GiveUp(h)
      BY <3>14 DEF GiveUp, Goto, tunnel, shown
    <3>15. CASE GaveUp(h)
      BY <3>15 DEF GaveUp, Reply, Replied, Goto, NoRequest, FinishedAt, tunnel, shown, calls
    <3>16. CASE Spawn(h)
      BY <3>16 DEF Spawn, Live, NoRequest, shown
    <3>17. CASE Drop(h)
      BY <3>17 DEF Drop, Replied, Goto, NoRequest, Joined, shown
    <3> HIDE DEF LockInv, LockedPc, Task, Stopper
    <3> QED
      BY <2>1, <3>1, <3>2, <3>3, <3>4, <3>5, <3>6, <3>7, <3>8, <3>9, <3>10, <3>11, <3>12,
        <3>13, <3>14, <3>15, <3>16, <3>17
      DEF HandlerNext
  <2>2. ASSUME NEW w \in Watchdog, WatchdogNext(w)  PROVE LockInv'
    <3>1. CASE SeeActive(w)
      BY <3>1 DEF SeeActive, Show, tunnel, shown, calls
    <3>2. CASE SeeIdle(w)
      BY <3>2 DEF SeeIdle, Show, tunnel, calls
    <3>3. CASE Ready(w)
      BY <3>3 DEF Ready, Goto, tunnel, shown, calls
    <3>4. CASE TimesOut(w)
      BY <3>4 DEF TimesOut, Goto, Show, tunnel, calls
    <3>5. CASE LockToStart(w)
      BY <3>5 DEF LockToStart, Goto, Lock, tunnel, shown, calls
    <3>6. CASE LockTooLate(w)
      BY <3>6 DEF LockTooLate, Goto, tunnel, shown, calls
    <3>7. CASE TunStarts(w)
      BY <3>7 DEF TunStarts, Goto, shown, calls
    <3>8. CASE TunFails(w)
      BY <3>8 DEF TunFails, Goto, tunnel, calls
    <3>9. CASE SocksFails(w)
      BY <3>9 DEF SocksFails, Goto, shown, calls
    <3>10. CASE Announce(w)
      BY <3>10 DEF Announce, Goto, Show, tunnel, calls
    <3>11. CASE SeeStopped(w)
      BY <3>11 DEF SeeStopped, Goto, tunnel, shown, calls
    <3>12. CASE LockToFinish(w)
      BY <3>12 DEF LockToFinish, Goto, Lock, tunnel, shown, calls
    <3>13. CASE WatchdogFinished(w)
      BY <3>13 DEF WatchdogFinished, Goto, Show, FinishedAt, tunnel, calls
    <3>14. CASE DiesAborted(w)
      BY <3>14 DEF DiesAborted, Goto, AwaitsUnlocked, AwaitsLocked, shown, calls
    <3> HIDE DEF LockInv, LockedPc, Task, Stopper
    <3> QED
      BY <2>2, <3>1, <3>2, <3>3, <3>4, <3>5, <3>6, <3>7, <3>8, <3>9, <3>10, <3>11, <3>12,
        <3>13, <3>14
      DEF WatchdogNext
  <2>3. ASSUME NEW t \in Task, TeardownNext(t)  PROVE LockInv'
    <3>1. CASE StopTun(t)
      BY <3>1 DEF StopTun, Goto, Joined, Live, shown, calls
    <3>2. CASE TunStopped(t)
      BY <3>2 DEF TunStopped, Goto, calls
    <3>3. CASE KillCore(t)
      BY <3>3 DEF KillCore, Goto, shown, calls
    <3>4. CASE FinishCall(t)
      BY <3>4 DEF FinishCall, tasks, tunnel, shown, calls
    <3> HIDE DEF LockInv, LockedPc, Task, Stopper
    <3> QED
      BY <2>3, <3>1, <3>2, <3>3, <3>4
      DEF TeardownNext
  <2>4. CASE Signal
    BY <2>4 DEF Signal, Goto, tunnel, shown, calls
  <2>5. CASE BeginCleanup
    BY <2>5 DEF BeginCleanup, Lock, AbortWatchdog, Goto, Live, shown, calls
  <2>6. CASE CleanupDone
    BY <2>6 DEF CleanupDone, Goto, shown, calls
  <2>7. CASE CoreExits
    BY <2>7 DEF CoreExits, tasks, shown, calls
  <2>8. CASE BridgeEnds
    BY <2>8 DEF BridgeEnds, tasks, calls
  <2>9. CASE Terminated
    BY <2>9 DEF Terminated, Live, vars, tasks, tunnel, shown, calls
  <2>10. CASE ReportOther
    BY <2>10 DEF ReportOther, tasks, tunnel, shown
  <2>11. CASE StopOther
    BY <2>11 DEF StopOther, tasks, tunnel, shown
  <2>12. CASE UNCHANGED vars
    BY <2>12 DEF vars, tasks, tunnel, shown, calls
  <2> HIDE DEF LockInv, LockedPc, Task, Stopper
  <2> QED
    BY <2>1, <2>2, <2>3, <2>4, <2>5, <2>6, <2>7, <2>8, <2>9, <2>10, <2>11, <2>12
    DEF Next
<1>3. QED
  BY <1>1, <1>2, TypeCorrect, PTL DEF Spec

-----------------------------------------------------------------------------
\* What the holder of the lock may rely on: the flow of the session is stopped before its
\* tunnel is closed, the tunnel before the core is removed, and both before the next spawn.
ResourceInv ==
  /\ running => session = "up"
  /\ \A t \in Task : pc[t] \in PastJoin => ~running
  /\ \A t \in Task : pc[t] \in PastJoin \ {"tun"} => session = "none"
  /\ \A t \in Task : pc[t] \in PastJoin \ {"tun", "kill"} => core = "none"
  /\ \A w \in Watchdog : pc[w] = "start" => core # "none"

(* The order of teardown is kept by every task, whichever task it takes the lock from.     *)
THEOREM ResourcesCorrect == Spec => []ResourceInv
<1>1. Init => ResourceInv
  BY TasksAssumption DEF Init, ResourceInv, PastJoin, Task, Stopper
<1>2. TypeOK /\ LockInv /\ ResourceInv /\ [Next]_vars => ResourceInv'
  <2> SUFFICES ASSUME TypeOK, LockInv, ResourceInv, [Next]_vars PROVE ResourceInv'
    OBVIOUS
  <2>0. /\ pc \in [Task -> HandlerPc \cup CleanerPc \cup WatchdogPc]
        /\ op \in Task \cup {NoOne}
        /\ \A h \in Handler : pc[h] \in HandlerPc
        /\ pc[Cleaner] \in CleanerPc
        /\ \A w \in Watchdog : pc[w] \in WatchdogPc
    BY DEF TypeOK
  <2> USE TasksAssumption, <2>0 DEF LockInv, LockedPc, ResourceInv, PastJoin, Task, Stopper,
        HandlerPc, CleanerPc, WatchdogPc
  <2>1. ASSUME NEW h \in Handler, HandlerNext(h)  PROVE ResourceInv'
    <3>1. ASSUME NEW r \in Request, Ask(h, r)  PROVE ResourceInv'
      BY <3>1 DEF Ask, Goto, tunnel, shown, calls
    <3>2. CASE NoConfig(h)
      BY <3>2 DEF NoConfig, Replied, Goto, NoRequest, tunnel, shown, calls
    <3>3. CASE BeginConnect(h)
      BY <3>3 DEF BeginConnect, Lock, AbortWatchdog, Goto, Live, tunnel, shown, calls
    <3>4. CASE BeginDisconnect(h)
      BY <3>4 DEF BeginDisconnect, Show, Lock, AbortWatchdog, Goto, Live, tunnel, calls
    <3>5. CASE DisconnectReplied(h)
      BY <3>5 DEF DisconnectReplied, Show, Reply, Replied, Goto, NoRequest, FinishedAt,
        tunnel, calls
    <3>6. CASE ReconnectPauses(h)
      BY <3>6 DEF ReconnectPauses, Goto, Show, FinishedAt, tunnel, calls
    <3>7. CASE ReconnectResumes(h)
      BY <3>7 DEF ReconnectResumes, Goto, tunnel, shown, calls
    <3>8. CASE ConnectCleared(h)
      BY <3>8 DEF ConnectCleared, Goto, Show, FinishedAt, tunnel, calls
    <3>9. CASE PrepareFails(h)
      BY <3>9 DEF PrepareFails, Reply, Replied, Goto, NoRequest, tunnel, shown, calls
    <3>10. CASE Prepared(h)
      BY <3>10 DEF Prepared, Goto, tunnel, shown, calls
    <3>11. CASE StartCall(h)
      BY <3>11 DEF StartCall, tasks, tunnel, shown
    <3>12. CASE CallsStarted(h)
      BY <3>12 DEF CallsStarted, Goto, tunnel, shown, calls
    <3>13. CASE NoCalls(h)
      BY <3>13 DEF NoCalls, Reply, Replied, Goto, NoRequest, tunnel, shown, calls
    <3>14. CASE GiveUp(h)
      BY <3>14 DEF GiveUp, Goto, tunnel, shown
    <3>15. CASE GaveUp(h)
      BY <3>15 DEF GaveUp, Reply, Replied, Goto, NoRequest, FinishedAt, tunnel, shown, calls
    <3>16. CASE Spawn(h)
      BY <3>16 DEF Spawn, Live, NoRequest, shown
    <3>17. CASE Drop(h)
      BY <3>17 DEF Drop, Replied, Goto, NoRequest, Joined, shown
    <3> HIDE DEF LockInv, LockedPc, ResourceInv, PastJoin, Task, Stopper, HandlerPc, CleanerPc,
           WatchdogPc
    <3> QED
      BY <2>1, <3>1, <3>2, <3>3, <3>4, <3>5, <3>6, <3>7, <3>8, <3>9, <3>10, <3>11, <3>12,
        <3>13, <3>14, <3>15, <3>16, <3>17
      DEF HandlerNext
  <2>2. ASSUME NEW w \in Watchdog, WatchdogNext(w)  PROVE ResourceInv'
    <3>1. CASE SeeActive(w)
      BY <3>1 DEF SeeActive, Show, tunnel, shown, calls
    <3>2. CASE SeeIdle(w)
      BY <3>2 DEF SeeIdle, Show, tunnel, calls
    <3>3. CASE Ready(w)
      BY <3>3 DEF Ready, Goto, tunnel, shown, calls
    <3>4. CASE TimesOut(w)
      BY <3>4 DEF TimesOut, Goto, Show, tunnel, calls
    <3>5. CASE LockToStart(w)
      BY <3>5 DEF LockToStart, Goto, Lock, tunnel, shown, calls
    <3>6. CASE LockTooLate(w)
      BY <3>6 DEF LockTooLate, Goto, tunnel, shown, calls
    <3>7. CASE TunStarts(w)
      BY <3>7 DEF TunStarts, Goto, shown, calls
    <3>8. CASE TunFails(w)
      BY <3>8 DEF TunFails, Goto, tunnel, calls
    <3>9. CASE SocksFails(w)
      BY <3>9 DEF SocksFails, Goto, shown, calls
    <3>10. CASE Announce(w)
      BY <3>10 DEF Announce, Goto, Show, tunnel, calls
    <3>11. CASE SeeStopped(w)
      BY <3>11 DEF SeeStopped, Goto, tunnel, shown, calls
    <3>12. CASE LockToFinish(w)
      BY <3>12 DEF LockToFinish, Goto, Lock, tunnel, shown, calls
    <3>13. CASE WatchdogFinished(w)
      BY <3>13 DEF WatchdogFinished, Goto, Show, FinishedAt, tunnel, calls
    <3>14. CASE DiesAborted(w)
      BY <3>14 DEF DiesAborted, Goto, AwaitsUnlocked, AwaitsLocked, shown, calls
    <3> HIDE DEF LockInv, LockedPc, ResourceInv, PastJoin, Task, Stopper, HandlerPc, CleanerPc,
           WatchdogPc
    <3> QED
      BY <2>2, <3>1, <3>2, <3>3, <3>4, <3>5, <3>6, <3>7, <3>8, <3>9, <3>10, <3>11, <3>12,
        <3>13, <3>14
      DEF WatchdogNext
  <2>3. ASSUME NEW t \in Task, TeardownNext(t)  PROVE ResourceInv'
    <3>1. CASE StopTun(t)
      BY <3>1 DEF StopTun, Goto, Joined, Live, shown, calls
    <3>2. CASE TunStopped(t)
      BY <3>2 DEF TunStopped, Goto, calls
    <3>3. CASE KillCore(t)
      BY <3>3 DEF KillCore, Goto, shown, calls
    <3>4. CASE FinishCall(t)
      BY <3>4 DEF FinishCall, tasks, tunnel, shown, calls
    <3> HIDE DEF LockInv, LockedPc, ResourceInv, PastJoin, Task, Stopper, HandlerPc, CleanerPc,
           WatchdogPc
    <3> QED
      BY <2>3, <3>1, <3>2, <3>3, <3>4
      DEF TeardownNext
  <2>4. CASE Signal
    BY <2>4 DEF Signal, Goto, tunnel, shown, calls
  <2>5. CASE BeginCleanup
    BY <2>5 DEF BeginCleanup, Lock, AbortWatchdog, Goto, Live, shown, calls
  <2>6. CASE CleanupDone
    BY <2>6 DEF CleanupDone, Goto, shown, calls
  <2>7. CASE CoreExits
    BY <2>7 DEF CoreExits, tasks, shown, calls
  <2>8. CASE BridgeEnds
    BY <2>8 DEF BridgeEnds, tasks, calls
  <2>9. CASE Terminated
    BY <2>9 DEF Terminated, Live, vars, tasks, tunnel, shown, calls
  <2>10. CASE ReportOther
    BY <2>10 DEF ReportOther, tasks, tunnel, shown
  <2>11. CASE StopOther
    BY <2>11 DEF StopOther, tasks, tunnel, shown
  <2>12. CASE UNCHANGED vars
    BY <2>12 DEF vars, tasks, tunnel, shown, calls
  <2> HIDE DEF LockInv, LockedPc, ResourceInv, PastJoin, Task, Stopper, HandlerPc, CleanerPc,
           WatchdogPc
  <2> QED
    BY <2>1, <2>2, <2>3, <2>4, <2>5, <2>6, <2>7, <2>8, <2>9, <2>10, <2>11, <2>12
    DEF Next
<1>3. QED
  BY <1>1, <1>2, TypeCorrect, LockCorrect, PTL DEF Spec

-----------------------------------------------------------------------------
\* Where a live watchdog is recorded: in vpn.watchdog, or with the stopper that awaits it,
\* which found nothing else to stop.
SupervisorInv ==
  /\ \A s \in Stopper : joining[s] # NoOne => pc[s] = "join"
  /\ \A s \in Stopper : pc[s] \in {"join"} \cup PastJoin => slot = NoOne
  /\ ~cut => \A w \in Watchdog : Live(w) =>
       slot = w \/ \E s \in Stopper : pc[s] = "join" /\ joining[s] = w
  /\ OneSupervisor

(* No two watchdogs live at once, and a stopper that is past its join shares the session  *)
(* with none - unless hyper dropped a handler inside its critical section (cut).          *)
LEMMA SupervisorInvariant == Spec => []SupervisorInv
<1>1. Init => SupervisorInv
  BY TasksAssumption DEF Init, SupervisorInv, OneSupervisor, PastJoin, Task, Stopper, Live
<1>2. TypeOK /\ LockInv /\ SupervisorInv /\ [Next]_vars => SupervisorInv'
  <2> SUFFICES ASSUME TypeOK, LockInv, SupervisorInv, [Next]_vars PROVE SupervisorInv'
    OBVIOUS
  <2>0. /\ pc \in [Task -> HandlerPc \cup CleanerPc \cup WatchdogPc]
        /\ op \in Task \cup {NoOne}
        /\ slot \in Watchdog \cup {NoOne}
        /\ joining \in [Stopper -> Watchdog \cup {NoOne}]
        /\ \A h \in Handler : pc[h] \in HandlerPc
        /\ pc[Cleaner] \in CleanerPc
        /\ \A w \in Watchdog : pc[w] \in WatchdogPc
    BY DEF TypeOK
  <2> USE TasksAssumption, <2>0 DEF LockInv, LockedPc, SupervisorInv, OneSupervisor, Live,
        PastJoin, Task, Stopper, HandlerPc, CleanerPc, WatchdogPc
  <2>1. ASSUME NEW h \in Handler, HandlerNext(h)  PROVE SupervisorInv'
    <3>1. ASSUME NEW r \in Request, Ask(h, r)  PROVE SupervisorInv'
      BY <3>1 DEF Ask, Goto, tunnel, shown, calls
    <3>2. CASE NoConfig(h)
      BY <3>2 DEF NoConfig, Replied, Goto, NoRequest, tunnel, shown, calls
    <3>3. CASE BeginConnect(h)
      BY <3>3 DEF BeginConnect, Lock, AbortWatchdog, Goto, Live, tunnel, shown, calls
    <3>4. CASE BeginDisconnect(h)
      BY <3>4 DEF BeginDisconnect, Show, Lock, AbortWatchdog, Goto, Live, tunnel, calls
    <3>5. CASE DisconnectReplied(h)
      BY <3>5 DEF DisconnectReplied, Show, Reply, Replied, Goto, NoRequest, FinishedAt,
        tunnel, calls
    <3>6. CASE ReconnectPauses(h)
      BY <3>6 DEF ReconnectPauses, Goto, Show, FinishedAt, tunnel, calls
    <3>7. CASE ReconnectResumes(h)
      BY <3>7 DEF ReconnectResumes, Goto, tunnel, shown, calls
    <3>8. CASE ConnectCleared(h)
      BY <3>8 DEF ConnectCleared, Goto, Show, FinishedAt, tunnel, calls
    <3>9. CASE PrepareFails(h)
      BY <3>9 DEF PrepareFails, Reply, Replied, Goto, NoRequest, tunnel, shown, calls
    <3>10. CASE Prepared(h)
      BY <3>10 DEF Prepared, Goto, tunnel, shown, calls
    <3>11. CASE StartCall(h)
      BY <3>11 DEF StartCall, tasks, tunnel, shown
    <3>12. CASE CallsStarted(h)
      BY <3>12 DEF CallsStarted, Goto, tunnel, shown, calls
    <3>13. CASE NoCalls(h)
      BY <3>13 DEF NoCalls, Reply, Replied, Goto, NoRequest, tunnel, shown, calls
    <3>14. CASE GiveUp(h)
      BY <3>14 DEF GiveUp, Goto, tunnel, shown
    <3>15. CASE GaveUp(h)
      BY <3>15 DEF GaveUp, Reply, Replied, Goto, NoRequest, FinishedAt, tunnel, shown, calls
    <3>16. CASE Spawn(h)
      BY <3>16 DEF Spawn, Live, NoRequest, shown
    <3>17. CASE Drop(h)
      <4>1. /\ pc' = [pc EXCEPT ![h] = "idle"]
            /\ \A s \in Stopper : joining'[s] = IF s = h THEN NoOne ELSE joining[s]
            /\ cut' = (cut \/ op = h)
            /\ slot' = slot
        BY <3>17 DEF Drop, Replied, Goto, Joined
      <4>2. \A s \in Stopper : joining'[s] # NoOne => pc'[s] = "join"
        BY <4>1
      <4>3. \A s \in Stopper : pc'[s] \in {"join"} \cup PastJoin => slot' = NoOne
        BY <4>1
      <4>4. \A w \in Watchdog : pc'[w] = pc[w]
        BY <4>1
      <4>5. CASE op = h
        BY <4>1, <4>2, <4>3, <4>5
      <4>6. CASE op # h
        <5>1. pc[h] # "join" /\ \A s \in Stopper : pc'[s] \in PastJoin => pc[s] \in PastJoin
          BY <4>1, <4>6
        <5>2. \A s \in Stopper : pc[s] = "join" => pc'[s] = "join" /\ joining'[s] = joining[s]
          BY <4>1, <5>1
        <5>3. ~cut' => ~cut
          BY <4>1
        <5>4. ~cut' => \A w \in Watchdog : pc'[w] # "dead" =>
                slot' = w \/ \E s \in Stopper : pc'[s] = "join" /\ joining'[s] = w
          <6> SUFFICES ASSUME ~cut, NEW w \in Watchdog, pc[w] # "dead", slot # w
                       PROVE  \E s \in Stopper : pc'[s] = "join" /\ joining'[s] = w
            BY <4>1, <4>4, <5>3
          <6>1. PICK s \in Stopper : pc[s] = "join" /\ joining[s] = w
            OBVIOUS
          <6> QED BY <5>2, <6>1
        <5>5. OneSupervisor'
          BY <4>4, <5>1, <5>3
        <5> QED BY <4>2, <4>3, <5>4, <5>5
      <4> QED BY <4>5, <4>6
    <3> HIDE DEF LockInv, LockedPc, SupervisorInv, OneSupervisor, Live, PastJoin, Task, Stopper,
           HandlerPc, CleanerPc, WatchdogPc
    <3> QED
      BY <2>1, <3>1, <3>2, <3>3, <3>4, <3>5, <3>6, <3>7, <3>8, <3>9, <3>10, <3>11, <3>12,
        <3>13, <3>14, <3>15, <3>16, <3>17
      DEF HandlerNext
  <2>2. ASSUME NEW w \in Watchdog, WatchdogNext(w)  PROVE SupervisorInv'
    <3>1. CASE SeeActive(w)
      BY <3>1 DEF SeeActive, Show, tunnel, shown, calls
    <3>2. CASE SeeIdle(w)
      BY <3>2 DEF SeeIdle, Show, tunnel, calls
    <3>3. CASE Ready(w)
      BY <3>3 DEF Ready, Goto, tunnel, shown, calls
    <3>4. CASE TimesOut(w)
      BY <3>4 DEF TimesOut, Goto, Show, tunnel, calls
    <3>5. CASE LockToStart(w)
      BY <3>5 DEF LockToStart, Goto, Lock, tunnel, shown, calls
    <3>6. CASE LockTooLate(w)
      BY <3>6 DEF LockTooLate, Goto, tunnel, shown, calls
    <3>7. CASE TunStarts(w)
      BY <3>7 DEF TunStarts, Goto, shown, calls
    <3>8. CASE TunFails(w)
      BY <3>8 DEF TunFails, Goto, tunnel, calls
    <3>9. CASE SocksFails(w)
      BY <3>9 DEF SocksFails, Goto, shown, calls
    <3>10. CASE Announce(w)
      BY <3>10 DEF Announce, Goto, Show, tunnel, calls
    <3>11. CASE SeeStopped(w)
      BY <3>11 DEF SeeStopped, Goto, tunnel, shown, calls
    <3>12. CASE LockToFinish(w)
      BY <3>12 DEF LockToFinish, Goto, Lock, tunnel, shown, calls
    <3>13. CASE WatchdogFinished(w)
      BY <3>13 DEF WatchdogFinished, Goto, Show, FinishedAt, tunnel, calls
    <3>14. CASE DiesAborted(w)
      BY <3>14 DEF DiesAborted, Goto, AwaitsUnlocked, AwaitsLocked, shown, calls
    <3> HIDE DEF LockInv, LockedPc, SupervisorInv, OneSupervisor, Live, PastJoin, Task, Stopper,
           HandlerPc, CleanerPc, WatchdogPc
    <3> QED
      BY <2>2, <3>1, <3>2, <3>3, <3>4, <3>5, <3>6, <3>7, <3>8, <3>9, <3>10, <3>11, <3>12,
        <3>13, <3>14
      DEF WatchdogNext
  <2>3. ASSUME NEW t \in Task, TeardownNext(t)  PROVE SupervisorInv'
    <3>1. CASE StopTun(t)
      BY <3>1 DEF StopTun, Goto, Joined, Live, shown, calls
    <3>2. CASE TunStopped(t)
      BY <3>2 DEF TunStopped, Goto, calls
    <3>3. CASE KillCore(t)
      BY <3>3 DEF KillCore, Goto, shown, calls
    <3>4. CASE FinishCall(t)
      BY <3>4 DEF FinishCall, tasks, tunnel, shown, calls
    <3> HIDE DEF LockInv, LockedPc, SupervisorInv, OneSupervisor, Live, PastJoin, Task, Stopper,
           HandlerPc, CleanerPc, WatchdogPc
    <3> QED
      BY <2>3, <3>1, <3>2, <3>3, <3>4
      DEF TeardownNext
  <2>4. CASE Signal
    BY <2>4 DEF Signal, Goto, tunnel, shown, calls
  <2>5. CASE BeginCleanup
    BY <2>5 DEF BeginCleanup, Lock, AbortWatchdog, Goto, Live, shown, calls
  <2>6. CASE CleanupDone
    BY <2>6 DEF CleanupDone, Goto, shown, calls
  <2>7. CASE CoreExits
    BY <2>7 DEF CoreExits, tasks, shown, calls
  <2>8. CASE BridgeEnds
    BY <2>8 DEF BridgeEnds, tasks, calls
  <2>9. CASE Terminated
    BY <2>9 DEF Terminated, Live, vars, tasks, tunnel, shown, calls
  <2>10. CASE ReportOther
    BY <2>10 DEF ReportOther, tasks, tunnel, shown
  <2>11. CASE StopOther
    BY <2>11 DEF StopOther, tasks, tunnel, shown
  <2>12. CASE UNCHANGED vars
    BY <2>12 DEF vars, tasks, tunnel, shown, calls
  <2> HIDE DEF LockInv, LockedPc, SupervisorInv, OneSupervisor, Live, PastJoin, Task, Stopper,
           HandlerPc, CleanerPc, WatchdogPc
  <2> QED
    BY <2>1, <2>2, <2>3, <2>4, <2>5, <2>6, <2>7, <2>8, <2>9, <2>10, <2>11, <2>12
    DEF Next
<1>3. QED
  BY <1>1, <1>2, TypeCorrect, LockCorrect, PTL DEF Spec

(* OneSupervisor, by SupervisorInv. *)
THEOREM SupervisorCorrect == Spec => []OneSupervisor
<1>1. SupervisorInv => OneSupervisor
  BY DEF SupervisorInv
<1>2. QED
  BY <1>1, SupervisorInvariant, PTL

-----------------------------------------------------------------------------
\* An aborted watchdog is still there, and the stopper that aborted it waits for its end
\* with the lock in its hands.
AbortInv ==
  ~cut => \A w \in aborted :
            Live(w) /\ \E s \in Stopper : pc[s] = "join" /\ joining[s] = w

(* An abort never strikes inside a critical section: the stopper that asked for it has the *)
(* lock until the task is gone - unless hyper dropped the stopper (cut).                   *)
LEMMA AbortCorrect == Spec => []AbortInv
<1>1. Init => AbortInv
  BY TasksAssumption DEF Init, AbortInv, Live, Task, Stopper
<1>2. TypeOK /\ LockInv /\ AbortInv /\ [Next]_vars => AbortInv'
  <2> SUFFICES ASSUME TypeOK, LockInv, AbortInv, [Next]_vars PROVE AbortInv'
    OBVIOUS
  <2>0. /\ pc \in [Task -> HandlerPc \cup CleanerPc \cup WatchdogPc]
        /\ op \in Task \cup {NoOne}
        /\ \A h \in Handler : pc[h] \in HandlerPc
        /\ pc[Cleaner] \in CleanerPc
        /\ \A w \in Watchdog : pc[w] \in WatchdogPc
        /\ slot \in Watchdog \cup {NoOne}
        /\ joining \in [Stopper -> Watchdog \cup {NoOne}]
        /\ aborted \subseteq Watchdog
        /\ cut \in BOOLEAN
    BY DEF TypeOK
  <2> USE TasksAssumption, <2>0 DEF LockInv, LockedPc, AbortInv, Live, Task, Stopper,
        HandlerPc, CleanerPc, WatchdogPc
  <2>1. ASSUME NEW h \in Handler, HandlerNext(h)  PROVE AbortInv'
    <3>1. ASSUME NEW r \in Request, Ask(h, r)  PROVE AbortInv'
      BY <3>1 DEF Ask, Goto, tunnel, shown, calls
    <3>2. CASE NoConfig(h)
      BY <3>2 DEF NoConfig, Replied, Goto, NoRequest, tunnel, shown, calls
    <3>3. CASE BeginConnect(h)
      BY <3>3 DEF BeginConnect, Lock, AbortWatchdog, Goto, Live, tunnel, shown, calls
    <3>4. CASE BeginDisconnect(h)
      BY <3>4 DEF BeginDisconnect, Show, Lock, AbortWatchdog, Goto, Live, tunnel, calls
    <3>5. CASE DisconnectReplied(h)
      BY <3>5 DEF DisconnectReplied, Show, Reply, Replied, Goto, NoRequest, FinishedAt,
        tunnel, calls
    <3>6. CASE ReconnectPauses(h)
      BY <3>6 DEF ReconnectPauses, Goto, Show, FinishedAt, tunnel, calls
    <3>7. CASE ReconnectResumes(h)
      BY <3>7 DEF ReconnectResumes, Goto, tunnel, shown, calls
    <3>8. CASE ConnectCleared(h)
      BY <3>8 DEF ConnectCleared, Goto, Show, FinishedAt, tunnel, calls
    <3>9. CASE PrepareFails(h)
      BY <3>9 DEF PrepareFails, Reply, Replied, Goto, NoRequest, tunnel, shown, calls
    <3>10. CASE Prepared(h)
      BY <3>10 DEF Prepared, Goto, tunnel, shown, calls
    <3>11. CASE StartCall(h)
      BY <3>11 DEF StartCall, tasks, tunnel, shown
    <3>12. CASE CallsStarted(h)
      BY <3>12 DEF CallsStarted, Goto, tunnel, shown, calls
    <3>13. CASE NoCalls(h)
      BY <3>13 DEF NoCalls, Reply, Replied, Goto, NoRequest, tunnel, shown, calls
    <3>14. CASE GiveUp(h)
      BY <3>14 DEF GiveUp, Goto, tunnel, shown
    <3>15. CASE GaveUp(h)
      BY <3>15 DEF GaveUp, Reply, Replied, Goto, NoRequest, FinishedAt, tunnel, shown, calls
    <3>16. CASE Spawn(h)
      BY <3>16 DEF Spawn, Live, NoRequest, shown
    <3>17. CASE Drop(h)
      <4>1. CASE op = h
        BY <3>17, <4>1 DEF Drop
      <4>2. CASE op # h
        <5>1. pc[h] # "join"
          BY <4>2
        <5>2. /\ pc' = [pc EXCEPT ![h] = "idle"]
              /\ \A s \in Stopper : s # h => joining'[s] = joining[s]
              /\ aborted' = aborted
              /\ cut' = cut
          BY <3>17, <4>2 DEF Drop, Replied, Goto, Joined
        <5> QED BY <5>1, <5>2
      <4> QED BY <4>1, <4>2
    <3> HIDE DEF LockInv, LockedPc, AbortInv, Live, Task, Stopper, HandlerPc, CleanerPc,
           WatchdogPc
    <3> QED
      BY <2>1, <3>1, <3>2, <3>3, <3>4, <3>5, <3>6, <3>7, <3>8, <3>9, <3>10, <3>11, <3>12,
        <3>13, <3>14, <3>15, <3>16, <3>17
      DEF HandlerNext
  <2>2. ASSUME NEW w \in Watchdog, WatchdogNext(w)  PROVE AbortInv'
    <3>1. CASE SeeActive(w)
      BY <3>1 DEF SeeActive, Show, tunnel, shown, calls
    <3>2. CASE SeeIdle(w)
      BY <3>2 DEF SeeIdle, Show, tunnel, calls
    <3>3. CASE Ready(w)
      BY <3>3 DEF Ready, Goto, tunnel, shown, calls
    <3>4. CASE TimesOut(w)
      BY <3>4 DEF TimesOut, Goto, Show, tunnel, calls
    <3>5. CASE LockToStart(w)
      BY <3>5 DEF LockToStart, Goto, Lock, tunnel, shown, calls
    <3>6. CASE LockTooLate(w)
      BY <3>6 DEF LockTooLate, Goto, tunnel, shown, calls
    <3>7. CASE TunStarts(w)
      BY <3>7 DEF TunStarts, Goto, shown, calls
    <3>8. CASE TunFails(w)
      BY <3>8 DEF TunFails, Goto, tunnel, calls
    <3>9. CASE SocksFails(w)
      BY <3>9 DEF SocksFails, Goto, shown, calls
    <3>10. CASE Announce(w)
      BY <3>10 DEF Announce, Goto, Show, tunnel, calls
    <3>11. CASE SeeStopped(w)
      BY <3>11 DEF SeeStopped, Goto, tunnel, shown, calls
    <3>12. CASE LockToFinish(w)
      BY <3>12 DEF LockToFinish, Goto, Lock, tunnel, shown, calls
    <3>13. CASE WatchdogFinished(w)
      BY <3>13 DEF WatchdogFinished, Goto, Show, FinishedAt, tunnel, calls
    <3>14. CASE DiesAborted(w)
      BY <3>14 DEF DiesAborted, Goto, AwaitsUnlocked, AwaitsLocked, shown, calls
    <3> HIDE DEF LockInv, LockedPc, AbortInv, Live, Task, Stopper, HandlerPc, CleanerPc,
           WatchdogPc
    <3> QED
      BY <2>2, <3>1, <3>2, <3>3, <3>4, <3>5, <3>6, <3>7, <3>8, <3>9, <3>10, <3>11, <3>12,
        <3>13, <3>14
      DEF WatchdogNext
  <2>3. ASSUME NEW t \in Task, TeardownNext(t)  PROVE AbortInv'
    <3>1. CASE StopTun(t)
      <4>1. /\ pc' = [pc EXCEPT ![t] = "tun"]
            /\ \A s \in Stopper : joining'[s] = IF s = t THEN NoOne ELSE joining[s]
            /\ aborted' = aborted
            /\ cut' = cut
        BY <3>1 DEF StopTun, Goto, Joined
      <4>2. pc[t] = "join" => \A w \in Watchdog : joining[t] = w => pc[w] = "dead"
        BY <3>1 DEF StopTun
      <4>3. pc[t] \in {"join", "stop"}
        BY <3>1 DEF StopTun
      <4> SUFFICES ASSUME ~cut, NEW w \in aborted
                   PROVE  pc'[w] # "dead" /\ \E s \in Stopper : pc'[s] = "join"
                       /\ joining'[s] = w
        BY <4>1
      <4>4. PICK s \in Stopper : pc[s] = "join" /\ joining[s] = w
        OBVIOUS
      <4>5. w \in Watchdog /\ pc[w] # "dead"
        OBVIOUS
      <4>6. s # t
        BY <4>2, <4>4, <4>5
      <4> QED BY <4>1, <4>3, <4>4, <4>5, <4>6
    <3>2. CASE TunStopped(t)
      BY <3>2 DEF TunStopped, Goto, calls
    <3>3. CASE KillCore(t)
      BY <3>3 DEF KillCore, Goto, shown, calls
    <3>4. CASE FinishCall(t)
      BY <3>4 DEF FinishCall, tasks, tunnel, shown, calls
    <3> HIDE DEF LockInv, LockedPc, AbortInv, Live, Task, Stopper, HandlerPc, CleanerPc,
           WatchdogPc
    <3> QED
      BY <2>3, <3>1, <3>2, <3>3, <3>4
      DEF TeardownNext
  <2>4. CASE Signal
    BY <2>4 DEF Signal, Goto, tunnel, shown, calls
  <2>5. CASE BeginCleanup
    BY <2>5 DEF BeginCleanup, Lock, AbortWatchdog, Goto, Live, shown, calls
  <2>6. CASE CleanupDone
    BY <2>6 DEF CleanupDone, Goto, shown, calls
  <2>7. CASE CoreExits
    BY <2>7 DEF CoreExits, tasks, shown, calls
  <2>8. CASE BridgeEnds
    BY <2>8 DEF BridgeEnds, tasks, calls
  <2>9. CASE Terminated
    BY <2>9 DEF Terminated, Live, vars, tasks, tunnel, shown, calls
  <2>10. CASE ReportOther
    BY <2>10 DEF ReportOther, tasks, tunnel, shown
  <2>11. CASE StopOther
    BY <2>11 DEF StopOther, tasks, tunnel, shown
  <2>12. CASE UNCHANGED vars
    BY <2>12 DEF vars, tasks, tunnel, shown, calls
  <2> HIDE DEF LockInv, LockedPc, AbortInv, Live, Task, Stopper, HandlerPc, CleanerPc,
           WatchdogPc
  <2> QED
    BY <2>1, <2>2, <2>3, <2>4, <2>5, <2>6, <2>7, <2>8, <2>9, <2>10, <2>11, <2>12
    DEF Next
<1>3. QED
  BY <1>1, <1>2, TypeCorrect, LockCorrect, PTL DEF Spec

-----------------------------------------------------------------------------
\* The lists of call ids: a handler has some of its own only until the core runs, a task
\* has some to finish only where it finishes them, and the list has none of a session when
\* a new one replaces it.
CallInv ==
  /\ \A h \in Handler : mine[h] # {} => pc[h] \in {"vk", "spawn"}
  /\ \A t \in Task : ending[t] # {} => pc[t] \in {"calls", "abandon"}
  /\ \A t \in Task : pc[t] \in PastJoin \ {"tun", "kill"} => active \subseteq Other
  /\ CallsTracked

(* Every call vpn_connect has started and no one has tried to finish is in one of these    *)
(* lists: no error path, no abort and no second connect forgets one.                       *)
LEMMA CallListsCorrect == Spec => []CallInv
<1>1. Init => CallInv
  BY TasksAssumption DEF Init, AbortInv, CallInv, CallsTracked, Tracked, PastJoin, Task, Stopper
<1>2. TypeOK /\ LockInv /\ AbortInv /\ CallInv /\ [Next]_vars => CallInv'
  <2> SUFFICES ASSUME TypeOK, LockInv, AbortInv, CallInv, [Next]_vars PROVE CallInv'
    OBVIOUS
  <2>0. /\ pc \in [Task -> HandlerPc \cup CleanerPc \cup WatchdogPc]
        /\ op \in Task \cup {NoOne}
        /\ \A h \in Handler : pc[h] \in HandlerPc
        /\ pc[Cleaner] \in CleanerPc
        /\ \A w \in Watchdog : pc[w] \in WatchdogPc
        /\ mine \in [Handler -> SUBSET Call]
        /\ ending \in [Task -> SUBSET (Call \cup Other)]
        /\ open \subseteq Call
        /\ cut \in BOOLEAN
    BY DEF TypeOK
  <2> USE TasksAssumption, CallsAssumption, <2>0 DEF LockInv, LockedPc, AbortInv, CallInv, CallsTracked,
      Tracked, PastJoin,
        Task, Stopper, HandlerPc, CleanerPc, WatchdogPc
  <2>1. ASSUME NEW h \in Handler, HandlerNext(h)  PROVE CallInv'
    <3>1. ASSUME NEW r \in Request, Ask(h, r)  PROVE CallInv'
      BY <3>1 DEF Ask, Goto, tunnel, shown, calls
    <3>2. CASE NoConfig(h)
      BY <3>2 DEF NoConfig, Replied, Goto, NoRequest, tunnel, shown, calls
    <3>3. CASE BeginConnect(h)
      BY <3>3 DEF BeginConnect, Lock, AbortWatchdog, Goto, Live, tunnel, shown, calls
    <3>4. CASE BeginDisconnect(h)
      BY <3>4 DEF BeginDisconnect, Show, Lock, AbortWatchdog, Goto, Live, tunnel, calls
    <3>5. CASE DisconnectReplied(h)
      BY <3>5 DEF DisconnectReplied, Show, Reply, Replied, Goto, NoRequest, FinishedAt,
        tunnel, calls
    <3>6. CASE ReconnectPauses(h)
      BY <3>6 DEF ReconnectPauses, Goto, Show, FinishedAt, tunnel, calls
    <3>7. CASE ReconnectResumes(h)
      BY <3>7 DEF ReconnectResumes, Goto, tunnel, shown, calls
    <3>8. CASE ConnectCleared(h)
      BY <3>8 DEF ConnectCleared, Goto, Show, FinishedAt, tunnel, calls
    <3>9. CASE PrepareFails(h)
      BY <3>9 DEF PrepareFails, Reply, Replied, Goto, NoRequest, tunnel, shown, calls
    <3>10. CASE Prepared(h)
      BY <3>10 DEF Prepared, Goto, tunnel, shown, calls
    <3>11. CASE StartCall(h)
      BY <3>11 DEF StartCall, tasks, tunnel, shown
    <3>12. CASE CallsStarted(h)
      BY <3>12 DEF CallsStarted, Goto, tunnel, shown, calls
    <3>13. CASE NoCalls(h)
      BY <3>13 DEF NoCalls, Reply, Replied, Goto, NoRequest, tunnel, shown, calls
    <3>14. CASE GiveUp(h)
      BY <3>14 DEF GiveUp, Goto, tunnel, shown
    <3>15. CASE GaveUp(h)
      BY <3>15 DEF GaveUp, Reply, Replied, Goto, NoRequest, FinishedAt, tunnel, shown, calls
    <3>16. CASE Spawn(h)
      BY <3>16 DEF Spawn, Live, NoRequest, shown
    <3>17. CASE Drop(h)
      <4>1. /\ pc' = [pc EXCEPT ![h] = "idle"]
            /\ mine' = [mine EXCEPT ![h] = {}]
            /\ ending' = [ending EXCEPT ![h] = {}]
            /\ UNCHANGED <<active, open>>
        BY <3>17 DEF Drop, Replied, Goto
      <4>2. cut' = (cut \/ op = h)
        BY <3>17 DEF Drop
      <4>3. \A g \in Handler : mine'[g] # {} => pc'[g] \in {"vk", "spawn"}
        BY <4>1
      <4>4. \A t \in Task : ending'[t] # {} => pc'[t] \in {"calls", "abandon"}
        BY <4>1
      <4>5. \A t \in Task : pc'[t] \in PastJoin \ {"tun", "kill"} => active' \subseteq Other
        BY <4>1
      <4>6. CASE op = h
        BY <4>2, <4>3, <4>4, <4>5, <4>6
      <4>7. CASE op # h
        <5>1. mine[h] = {} /\ ending[h] = {}
          BY <4>7
        <5>2. \A c \in open : Tracked(c) => Tracked(c)'
          BY <4>1, <5>1
        <5>3. cut' = cut /\ open' = open
          BY <4>1, <4>2, <4>7
        <5> QED BY <4>3, <4>4, <4>5, <5>2, <5>3
      <4> QED BY <4>6, <4>7
    <3> HIDE DEF LockInv, LockedPc, AbortInv, CallInv, CallsTracked, Tracked, PastJoin,
        Task, Stopper,
           HandlerPc, CleanerPc, WatchdogPc
    <3> QED
      BY <2>1, <3>1, <3>2, <3>3, <3>4, <3>5, <3>6, <3>7, <3>8, <3>9, <3>10, <3>11, <3>12,
        <3>13, <3>14, <3>15, <3>16, <3>17
      DEF HandlerNext
  <2>2. ASSUME NEW w \in Watchdog, WatchdogNext(w)  PROVE CallInv'
    <3>1. CASE SeeActive(w)
      BY <3>1 DEF SeeActive, Show, tunnel, shown, calls
    <3>2. CASE SeeIdle(w)
      BY <3>2 DEF SeeIdle, Show, tunnel, calls
    <3>3. CASE Ready(w)
      BY <3>3 DEF Ready, Goto, tunnel, shown, calls
    <3>4. CASE TimesOut(w)
      BY <3>4 DEF TimesOut, Goto, Show, tunnel, calls
    <3>5. CASE LockToStart(w)
      BY <3>5 DEF LockToStart, Goto, Lock, tunnel, shown, calls
    <3>6. CASE LockTooLate(w)
      BY <3>6 DEF LockTooLate, Goto, tunnel, shown, calls
    <3>7. CASE TunStarts(w)
      BY <3>7 DEF TunStarts, Goto, shown, calls
    <3>8. CASE TunFails(w)
      BY <3>8 DEF TunFails, Goto, tunnel, calls
    <3>9. CASE SocksFails(w)
      BY <3>9 DEF SocksFails, Goto, shown, calls
    <3>10. CASE Announce(w)
      BY <3>10 DEF Announce, Goto, Show, tunnel, calls
    <3>11. CASE SeeStopped(w)
      BY <3>11 DEF SeeStopped, Goto, tunnel, shown, calls
    <3>12. CASE LockToFinish(w)
      BY <3>12 DEF LockToFinish, Goto, Lock, tunnel, shown, calls
    <3>13. CASE WatchdogFinished(w)
      BY <3>13 DEF WatchdogFinished, Goto, Show, FinishedAt, tunnel, calls
    <3>14. CASE DiesAborted(w)
      BY <3>14 DEF DiesAborted, Goto, AwaitsUnlocked, AwaitsLocked, shown, calls
    <3> HIDE DEF LockInv, LockedPc, AbortInv, CallInv, CallsTracked, Tracked, PastJoin,
        Task, Stopper,
           HandlerPc, CleanerPc, WatchdogPc
    <3> QED
      BY <2>2, <3>1, <3>2, <3>3, <3>4, <3>5, <3>6, <3>7, <3>8, <3>9, <3>10, <3>11, <3>12,
        <3>13, <3>14
      DEF WatchdogNext
  <2>3. ASSUME NEW t \in Task, TeardownNext(t)  PROVE CallInv'
    <3>1. CASE StopTun(t)
      BY <3>1 DEF StopTun, Goto, Joined, Live, shown, calls
    <3>2. CASE TunStopped(t)
      BY <3>2 DEF TunStopped, Goto, calls
    <3>3. CASE KillCore(t)
      BY <3>3 DEF KillCore, Goto, shown, calls
    <3>4. CASE FinishCall(t)
      BY <3>4 DEF FinishCall, tasks, tunnel, shown, calls
    <3> HIDE DEF LockInv, LockedPc, AbortInv, CallInv, CallsTracked, Tracked, PastJoin,
        Task, Stopper,
           HandlerPc, CleanerPc, WatchdogPc
    <3> QED
      BY <2>3, <3>1, <3>2, <3>3, <3>4
      DEF TeardownNext
  <2>4. CASE Signal
    BY <2>4 DEF Signal, Goto, tunnel, shown, calls
  <2>5. CASE BeginCleanup
    BY <2>5 DEF BeginCleanup, Lock, AbortWatchdog, Goto, Live, shown, calls
  <2>6. CASE CleanupDone
    BY <2>6 DEF CleanupDone, Goto, shown, calls
  <2>7. CASE CoreExits
    BY <2>7 DEF CoreExits, tasks, shown, calls
  <2>8. CASE BridgeEnds
    BY <2>8 DEF BridgeEnds, tasks, calls
  <2>9. CASE Terminated
    BY <2>9 DEF Terminated, Live, vars, tasks, tunnel, shown, calls
  <2>10. CASE ReportOther
    BY <2>10 DEF ReportOther, tasks, tunnel, shown
  <2>11. CASE StopOther
    BY <2>11 DEF StopOther, tasks, tunnel, shown
  <2>12. CASE UNCHANGED vars
    BY <2>12 DEF vars, tasks, tunnel, shown, calls
  <2> HIDE DEF LockInv, LockedPc, AbortInv, CallInv, CallsTracked, Tracked, PastJoin, Task,
      Stopper,
           HandlerPc, CleanerPc, WatchdogPc
  <2> QED
    BY <2>1, <2>2, <2>3, <2>4, <2>5, <2>6, <2>7, <2>8, <2>9, <2>10, <2>11, <2>12
    DEF Next
<1>3. QED
  BY <1>1, <1>2, TypeCorrect, LockCorrect, AbortCorrect, PTL DEF Spec

(* CallsTracked, by CallInv. *)
THEOREM CallsCorrect == Spec => []CallsTracked
<1>1. CallInv => CallsTracked
  BY DEF CallInv
<1>2. QED
  BY <1>1, CallListsCorrect, PTL

-----------------------------------------------------------------------------
Connecting == {"prepare", "vk", "spawn", "abandon"}

\* What a teardown has cleared by each of its steps, and what is shown meanwhile. With the
\* resources gone (ResourceInv) this is what the next holder of the lock finds.
RestInv ==
  /\ ~cut =>
       /\ \A t \in Task : pc[t] \in PastJoin \ {"tun"} => ~socks
       /\ \A t \in Task : pc[t] \in {"kill", "calls"} => phase = "disconnected"
       /\ \A t \in Task : pc[t] \in Connecting => phase = "connecting"
  /\ RestIsClean

(* With the lock free and no watchdog alive nothing of a session is left over.             *)
LEMMA RestInvariant == Spec => []RestInv
<1>1. Init => RestInv
  BY TasksAssumption DEF Init, ResourceInv, SupervisorInv, OneSupervisor, AbortInv, CallInv,
      RestInv, RestIsClean, AtRest, Connecting, Live, PastJoin, Task, Stopper
<1>2. TypeOK /\ LockInv /\ ResourceInv /\ SupervisorInv /\ AbortInv /\ CallInv /\ RestInv
    /\ [Next]_vars => RestInv'
  <2> SUFFICES ASSUME TypeOK, LockInv, ResourceInv, SupervisorInv, AbortInv, CallInv,
      RestInv, [Next]_vars PROVE RestInv'
    OBVIOUS
  <2>0. /\ pc \in [Task -> HandlerPc \cup CleanerPc \cup WatchdogPc]
        /\ op \in Task \cup {NoOne}
        /\ \A h \in Handler : pc[h] \in HandlerPc
        /\ pc[Cleaner] \in CleanerPc
        /\ \A w \in Watchdog : pc[w] \in WatchdogPc
        /\ running \in BOOLEAN /\ socks \in BOOLEAN /\ cut \in BOOLEAN
    BY DEF TypeOK
  <2> USE TasksAssumption, <2>0 DEF LockInv, LockedPc, ResourceInv, SupervisorInv,
        OneSupervisor, AbortInv, CallInv, RestInv, RestIsClean, AtRest, Connecting, Live,
        PastJoin, Task, Stopper, HandlerPc, CleanerPc, WatchdogPc
  <2>1. ASSUME NEW h \in Handler, HandlerNext(h)  PROVE RestInv'
    <3>1. ASSUME NEW r \in Request, Ask(h, r)  PROVE RestInv'
      BY <3>1 DEF Ask, Goto, tunnel, shown, calls
    <3>2. CASE NoConfig(h)
      BY <3>2 DEF NoConfig, Replied, Goto, NoRequest, tunnel, shown, calls
    <3>3. CASE BeginConnect(h)
      BY <3>3 DEF BeginConnect, Lock, AbortWatchdog, Goto, Live, tunnel, shown, calls
    <3>4. CASE BeginDisconnect(h)
      BY <3>4 DEF BeginDisconnect, Show, Lock, AbortWatchdog, Goto, Live, tunnel, calls
    <3>5. CASE DisconnectReplied(h)
      BY <3>5 DEF DisconnectReplied, Show, Reply, Replied, Goto, NoRequest, FinishedAt,
        tunnel, calls
    <3>6. CASE ReconnectPauses(h)
      BY <3>6 DEF ReconnectPauses, Goto, Show, FinishedAt, tunnel, calls
    <3>7. CASE ReconnectResumes(h)
      BY <3>7 DEF ReconnectResumes, Goto, tunnel, shown, calls
    <3>8. CASE ConnectCleared(h)
      BY <3>8 DEF ConnectCleared, Goto, Show, FinishedAt, tunnel, calls
    <3>9. CASE PrepareFails(h)
      BY <3>9 DEF PrepareFails, Reply, Replied, Goto, NoRequest, tunnel, shown, calls
    <3>10. CASE Prepared(h)
      BY <3>10 DEF Prepared, Goto, tunnel, shown, calls
    <3>11. CASE StartCall(h)
      BY <3>11 DEF StartCall, tasks, tunnel, shown
    <3>12. CASE CallsStarted(h)
      BY <3>12 DEF CallsStarted, Goto, tunnel, shown, calls
    <3>13. CASE NoCalls(h)
      BY <3>13 DEF NoCalls, Reply, Replied, Goto, NoRequest, tunnel, shown, calls
    <3>14. CASE GiveUp(h)
      BY <3>14 DEF GiveUp, Goto, tunnel, shown
    <3>15. CASE GaveUp(h)
      BY <3>15 DEF GaveUp, Reply, Replied, Goto, NoRequest, FinishedAt, tunnel, shown, calls
    <3>16. CASE Spawn(h)
      BY <3>16 DEF Spawn, Live, NoRequest, shown
    <3>17. CASE Drop(h)
      <4>1. CASE op = h
        BY <3>17, <4>1 DEF Drop
      <4>2. CASE op # h
        <5>1. pc[h] \notin LockedPc
          BY <4>2
        <5>2. /\ pc' = [pc EXCEPT ![h] = "idle"]
              /\ op' = op
              /\ cut' = cut
              /\ UNCHANGED <<session, core, running, socks, phase, active>>
          BY <3>17, <4>2, <5>1 DEF Drop, Replied, Goto, shown
        <5> QED BY <5>1, <5>2
      <4> QED BY <4>1, <4>2
    <3> HIDE DEF LockInv, LockedPc, ResourceInv, SupervisorInv, OneSupervisor, AbortInv,
           CallInv, RestInv, RestIsClean, AtRest, Connecting, Live, PastJoin, Task, Stopper,
           HandlerPc, CleanerPc, WatchdogPc
    <3> QED
      BY <2>1, <3>1, <3>2, <3>3, <3>4, <3>5, <3>6, <3>7, <3>8, <3>9, <3>10, <3>11, <3>12,
        <3>13, <3>14, <3>15, <3>16, <3>17
      DEF HandlerNext
  <2>2. ASSUME NEW w \in Watchdog, WatchdogNext(w)  PROVE RestInv'
    <3>1. CASE SeeActive(w)
      BY <3>1 DEF SeeActive, Show, tunnel, shown, calls
    <3>2. CASE SeeIdle(w)
      BY <3>2 DEF SeeIdle, Show, tunnel, calls
    <3>3. CASE Ready(w)
      BY <3>3 DEF Ready, Goto, tunnel, shown, calls
    <3>4. CASE TimesOut(w)
      BY <3>4 DEF TimesOut, Goto, Show, tunnel, calls
    <3>5. CASE LockToStart(w)
      BY <3>5 DEF LockToStart, Goto, Lock, tunnel, shown, calls
    <3>6. CASE LockTooLate(w)
      BY <3>6 DEF LockTooLate, Goto, tunnel, shown, calls
    <3>7. CASE TunStarts(w)
      BY <3>7 DEF TunStarts, Goto, shown, calls
    <3>8. CASE TunFails(w)
      BY <3>8 DEF TunFails, Goto, tunnel, calls
    <3>9. CASE SocksFails(w)
      BY <3>9 DEF SocksFails, Goto, shown, calls
    <3>10. CASE Announce(w)
      BY <3>10 DEF Announce, Goto, Show, tunnel, calls
    <3>11. CASE SeeStopped(w)
      BY <3>11 DEF SeeStopped, Goto, tunnel, shown, calls
    <3>12. CASE LockToFinish(w)
      BY <3>12 DEF LockToFinish, Goto, Lock, tunnel, shown, calls
    <3>13. CASE WatchdogFinished(w)
      BY <3>13 DEF WatchdogFinished, Goto, Show, FinishedAt, tunnel, calls
    <3>14. CASE DiesAborted(w)
      BY <3>14 DEF DiesAborted, Goto, AwaitsUnlocked, AwaitsLocked, shown, calls
    <3> HIDE DEF LockInv, LockedPc, ResourceInv, SupervisorInv, OneSupervisor, AbortInv,
           CallInv, RestInv, RestIsClean, AtRest, Connecting, Live, PastJoin, Task, Stopper,
           HandlerPc, CleanerPc, WatchdogPc
    <3> QED
      BY <2>2, <3>1, <3>2, <3>3, <3>4, <3>5, <3>6, <3>7, <3>8, <3>9, <3>10, <3>11, <3>12,
        <3>13, <3>14
      DEF WatchdogNext
  <2>3. ASSUME NEW t \in Task, TeardownNext(t)  PROVE RestInv'
    <3>1. CASE StopTun(t)
      BY <3>1 DEF StopTun, Goto, Joined, Live, shown, calls
    <3>2. CASE TunStopped(t)
      BY <3>2 DEF TunStopped, Goto, calls
    <3>3. CASE KillCore(t)
      BY <3>3 DEF KillCore, Goto, shown, calls
    <3>4. CASE FinishCall(t)
      BY <3>4 DEF FinishCall, tasks, tunnel, shown, calls
    <3> HIDE DEF LockInv, LockedPc, ResourceInv, SupervisorInv, OneSupervisor, AbortInv,
           CallInv, RestInv, RestIsClean, AtRest, Connecting, Live, PastJoin, Task, Stopper,
           HandlerPc, CleanerPc, WatchdogPc
    <3> QED
      BY <2>3, <3>1, <3>2, <3>3, <3>4
      DEF TeardownNext
  <2>4. CASE Signal
    BY <2>4 DEF Signal, Goto, tunnel, shown, calls
  <2>5. CASE BeginCleanup
    BY <2>5 DEF BeginCleanup, Lock, AbortWatchdog, Goto, Live, shown, calls
  <2>6. CASE CleanupDone
    BY <2>6 DEF CleanupDone, Goto, shown, calls
  <2>7. CASE CoreExits
    BY <2>7 DEF CoreExits, tasks, shown, calls
  <2>8. CASE BridgeEnds
    BY <2>8 DEF BridgeEnds, tasks, calls
  <2>9. CASE Terminated
    BY <2>9 DEF Terminated, Live, vars, tasks, tunnel, shown, calls
  <2>10. CASE ReportOther
    BY <2>10 DEF ReportOther, tasks, tunnel, shown
  <2>11. CASE StopOther
    BY <2>11 DEF StopOther, tasks, tunnel, shown
  <2>12. CASE UNCHANGED vars
    BY <2>12 DEF vars, tasks, tunnel, shown, calls
  <2> HIDE DEF LockInv, LockedPc, ResourceInv, SupervisorInv, OneSupervisor, AbortInv,
           CallInv, RestInv, RestIsClean, AtRest, Connecting, Live, PastJoin, Task, Stopper,
           HandlerPc, CleanerPc, WatchdogPc
  <2> QED
    BY <2>1, <2>2, <2>3, <2>4, <2>5, <2>6, <2>7, <2>8, <2>9, <2>10, <2>11, <2>12
    DEF Next
<1>3. QED
  BY <1>1, <1>2, TypeCorrect, LockCorrect, ResourcesCorrect, SupervisorInvariant, AbortCorrect,
     CallListsCorrect, PTL DEF Spec

(* RestIsClean, by RestInv. *)
THEOREM RestCorrect == Spec => []RestIsClean
<1>1. RestInv => RestIsClean
  BY DEF RestInv
<1>2. QED
  BY <1>1, RestInvariant, PTL

-----------------------------------------------------------------------------
\* The event of a connect in progress, and at rest the event of whatever ended the session.
EventInv ==
  /\ ~cut => \A t \in Task : pc[t] \in Connecting => event = <<FALSE, "connecting">>
  /\ EventsSettle

(* At rest a subscriber has last been told what the status route answers: the bridge and   *)
(* the watchdog of a session emit nothing once a stopper has got past its join.            *)
THEOREM EventsCorrect == Spec => []EventsSettle
<1>1. Init => EventInv
  BY TasksAssumption DEF Init, ResourceInv, SupervisorInv, OneSupervisor, AbortInv, RestInv,
      RestIsClean, EventInv, EventsSettle, AtRest, Connecting, Live, PastJoin, Task, Stopper
<1>2. TypeOK /\ LockInv /\ ResourceInv /\ SupervisorInv /\ AbortInv /\ CallInv /\ RestInv
    /\ EventInv /\ [Next]_vars => EventInv'
  <2> SUFFICES ASSUME TypeOK, LockInv, ResourceInv, SupervisorInv, AbortInv, CallInv,
      RestInv, EventInv, [Next]_vars PROVE EventInv'
    OBVIOUS
  <2>0. /\ pc \in [Task -> HandlerPc \cup CleanerPc \cup WatchdogPc]
        /\ op \in Task \cup {NoOne}
        /\ \A h \in Handler : pc[h] \in HandlerPc
        /\ pc[Cleaner] \in CleanerPc
        /\ \A w \in Watchdog : pc[w] \in WatchdogPc
        /\ running \in BOOLEAN
        /\ cut \in BOOLEAN
    BY DEF TypeOK
  <2>a. \A t \in Task : ~cut /\ pc[t] \in Connecting =>
          /\ running = FALSE
          /\ session = "none"
          /\ phase = "connecting"
          /\ \A w \in Watchdog : pc[w] = "dead"
    <3> SUFFICES ASSUME NEW t \in Task, ~cut, pc[t] \in Connecting
                 PROVE  /\ running = FALSE
                        /\ session = "none"
                        /\ phase = "connecting"
                        /\ \A w \in Watchdog : pc[w] = "dead"
      OBVIOUS
    <3>1. t \in Stopper
      BY <2>0 DEF Connecting, Task, WatchdogPc
    <3> QED
      BY <2>0, <3>1 DEF Connecting, PastJoin, ResourceInv, RestInv, SupervisorInv,
          OneSupervisor,
         Live
  <2>b. \A t \in Task : pc[t] = "calls" => running = FALSE
    BY <2>0 DEF ResourceInv, PastJoin
  <2>c. ~cut /\ AtRest => running = FALSE /\ session = "none"
    BY <2>0 DEF RestInv, RestIsClean
  <2>d. ~cut => \A w \in aborted : op # NoOne /\ op # w
    <3> SUFFICES ASSUME ~cut, NEW w \in aborted PROVE op # NoOne /\ op # w
      OBVIOUS
    <3>1. PICK s \in Stopper : pc[s] = "join"
      BY DEF AbortInv
    <3>2. op = s
      BY <3>1 DEF LockInv, LockedPc, Task
    <3>3. w \in Watchdog
      BY DEF TypeOK
    <3> QED BY <3>2, <3>3, TasksAssumption DEF Stopper
  <2> USE TasksAssumption, <2>0, <2>a, <2>b, <2>c, <2>d DEF LockInv, LockedPc, EventInv,
        EventsSettle, AtRest, Connecting, Live, Task, Stopper, HandlerPc, CleanerPc,
        WatchdogPc
  <2>1. ASSUME NEW h \in Handler, HandlerNext(h)  PROVE EventInv'
    <3>1. ASSUME NEW r \in Request, Ask(h, r)  PROVE EventInv'
      BY <3>1 DEF Ask, Goto, tunnel, shown, calls
    <3>2. CASE NoConfig(h)
      BY <3>2 DEF NoConfig, Replied, Goto, NoRequest, tunnel, shown, calls
    <3>3. CASE BeginConnect(h)
      BY <3>3 DEF BeginConnect, Lock, AbortWatchdog, Goto, Live, tunnel, shown, calls
    <3>4. CASE BeginDisconnect(h)
      BY <3>4 DEF BeginDisconnect, Show, Lock, AbortWatchdog, Goto, Live, tunnel, calls
    <3>5. CASE DisconnectReplied(h)
      BY <3>5 DEF DisconnectReplied, Show, Reply, Replied, Goto, NoRequest, FinishedAt,
        tunnel, calls
    <3>6. CASE ReconnectPauses(h)
      BY <3>6 DEF ReconnectPauses, Goto, Show, FinishedAt, tunnel, calls
    <3>7. CASE ReconnectResumes(h)
      BY <3>7 DEF ReconnectResumes, Goto, tunnel, shown, calls
    <3>8. CASE ConnectCleared(h)
      BY <3>8 DEF ConnectCleared, Goto, Show, FinishedAt, tunnel, calls
    <3>9. CASE PrepareFails(h)
      BY <3>9 DEF PrepareFails, Reply, Replied, Goto, NoRequest, tunnel, shown, calls
    <3>10. CASE Prepared(h)
      BY <3>10 DEF Prepared, Goto, tunnel, shown, calls
    <3>11. CASE StartCall(h)
      BY <3>11 DEF StartCall, tasks, tunnel, shown
    <3>12. CASE CallsStarted(h)
      BY <3>12 DEF CallsStarted, Goto, tunnel, shown, calls
    <3>13. CASE NoCalls(h)
      BY <3>13 DEF NoCalls, Reply, Replied, Goto, NoRequest, tunnel, shown, calls
    <3>14. CASE GiveUp(h)
      BY <3>14 DEF GiveUp, Goto, tunnel, shown
    <3>15. CASE GaveUp(h)
      BY <3>15 DEF GaveUp, Reply, Replied, Goto, NoRequest, FinishedAt, tunnel, shown, calls
    <3>16. CASE Spawn(h)
      BY <3>16 DEF Spawn, Live, NoRequest, shown
    <3>17. CASE Drop(h)
      <4>1. CASE op = h
        BY <3>17, <4>1 DEF Drop
      <4>2. CASE op # h
        <5>1. pc[h] \notin LockedPc
          BY <4>2
        <5>2. /\ pc' = [pc EXCEPT ![h] = "idle"]
              /\ UNCHANGED <<op, cut, running, phase, event>>
          BY <3>17, <4>2, <5>1 DEF Drop, Replied, Goto, shown
        <5> QED BY <5>1, <5>2
      <4> QED BY <4>1, <4>2
    <3> HIDE DEF LockInv, LockedPc, EventInv, EventsSettle, AtRest, Connecting, Live, Task,
           Stopper, HandlerPc, CleanerPc, WatchdogPc
    <3> QED
      BY <2>1, <3>1, <3>2, <3>3, <3>4, <3>5, <3>6, <3>7, <3>8, <3>9, <3>10, <3>11, <3>12,
        <3>13, <3>14, <3>15, <3>16, <3>17
      DEF HandlerNext
  <2>2. ASSUME NEW w \in Watchdog, WatchdogNext(w)  PROVE EventInv'
    <3>1. CASE SeeActive(w)
      BY <3>1 DEF SeeActive, Show, tunnel, shown, calls
    <3>2. CASE SeeIdle(w)
      BY <3>2 DEF SeeIdle, Show, tunnel, calls
    <3>3. CASE Ready(w)
      BY <3>3 DEF Ready, Goto, tunnel, shown, calls
    <3>4. CASE TimesOut(w)
      BY <3>4 DEF TimesOut, Goto, Show, tunnel, calls
    <3>5. CASE LockToStart(w)
      BY <3>5 DEF LockToStart, Goto, Lock, tunnel, shown, calls
    <3>6. CASE LockTooLate(w)
      BY <3>6 DEF LockTooLate, Goto, tunnel, shown, calls
    <3>7. CASE TunStarts(w)
      BY <3>7 DEF TunStarts, Goto, shown, calls
    <3>8. CASE TunFails(w)
      BY <3>8 DEF TunFails, Goto, tunnel, calls
    <3>9. CASE SocksFails(w)
      BY <3>9 DEF SocksFails, Goto, shown, calls
    <3>10. CASE Announce(w)
      BY <3>10 DEF Announce, Goto, Show, tunnel, calls
    <3>11. CASE SeeStopped(w)
      BY <3>11 DEF SeeStopped, Goto, tunnel, shown, calls
    <3>12. CASE LockToFinish(w)
      BY <3>12 DEF LockToFinish, Goto, Lock, tunnel, shown, calls
    <3>13. CASE WatchdogFinished(w)
      BY <3>13 DEF WatchdogFinished, Goto, Show, FinishedAt, tunnel, calls
    <3>14. CASE DiesAborted(w)
      BY <3>14 DEF DiesAborted, Goto, AwaitsUnlocked, AwaitsLocked, shown, calls
    <3> HIDE DEF LockInv, LockedPc, EventInv, EventsSettle, AtRest, Connecting, Live, Task,
           Stopper, HandlerPc, CleanerPc, WatchdogPc
    <3> QED
      BY <2>2, <3>1, <3>2, <3>3, <3>4, <3>5, <3>6, <3>7, <3>8, <3>9, <3>10, <3>11, <3>12,
        <3>13, <3>14
      DEF WatchdogNext
  <2>3. ASSUME NEW t \in Task, TeardownNext(t)  PROVE EventInv'
    <3>1. CASE StopTun(t)
      BY <3>1 DEF StopTun, Goto, Joined, Live, shown, calls
    <3>2. CASE TunStopped(t)
      BY <3>2 DEF TunStopped, Goto, calls
    <3>3. CASE KillCore(t)
      BY <3>3 DEF KillCore, Goto, shown, calls
    <3>4. CASE FinishCall(t)
      BY <3>4 DEF FinishCall, tasks, tunnel, shown, calls
    <3> HIDE DEF LockInv, LockedPc, EventInv, EventsSettle, AtRest, Connecting, Live, Task,
           Stopper, HandlerPc, CleanerPc, WatchdogPc
    <3> QED
      BY <2>3, <3>1, <3>2, <3>3, <3>4
      DEF TeardownNext
  <2>4. CASE Signal
    BY <2>4 DEF Signal, Goto, tunnel, shown, calls
  <2>5. CASE BeginCleanup
    BY <2>5 DEF BeginCleanup, Lock, AbortWatchdog, Goto, Live, shown, calls
  <2>6. CASE CleanupDone
    BY <2>6 DEF CleanupDone, Goto, shown, calls
  <2>7. CASE CoreExits
    BY <2>7 DEF CoreExits, tasks, shown, calls
  <2>8. CASE BridgeEnds
    BY <2>8 DEF BridgeEnds, tasks, calls
  <2>9. CASE Terminated
    BY <2>9 DEF Terminated, Live, vars, tasks, tunnel, shown, calls
  <2>10. CASE ReportOther
    BY <2>10 DEF ReportOther, tasks, tunnel, shown
  <2>11. CASE StopOther
    BY <2>11 DEF StopOther, tasks, tunnel, shown
  <2>12. CASE UNCHANGED vars
    BY <2>12 DEF vars, tasks, tunnel, shown, calls
  <2> HIDE DEF LockInv, LockedPc, EventInv, EventsSettle, AtRest, Connecting, Live, Task,
           Stopper, HandlerPc, CleanerPc, WatchdogPc
  <2> QED
    BY <2>1, <2>2, <2>3, <2>4, <2>5, <2>6, <2>7, <2>8, <2>9, <2>10, <2>11, <2>12
    DEF Next
<1>3. EventInv => EventsSettle
  BY DEF EventInv
<1>4. QED
  BY <1>1, <1>2, <1>3, TypeCorrect, LockCorrect, ResourcesCorrect, SupervisorInvariant,
      AbortCorrect, CallListsCorrect, RestInvariant, PTL DEF Spec

-----------------------------------------------------------------------------
(* DesktopVpn implements TunnelSession with state.core, vpn.handle and vpn.running for the *)
(* core, the tunnel and the flow. Spawn starts a core, TunStarts and SocksFails open the   *)
(* tunnel, StopTun stops the flow, TunStopped closes the tunnel, KillCore and CleanupDone  *)
(* remove the core; a task dropped or aborted inside of one of the last two takes that     *)
(* step itself. Every other step stutters.                                                 *)
THEOREM Refinement == Spec => ImplementsTunnelSession
<1>1. Init => Session!Init
  BY DEF Init, Session!Init
<1>2. TypeOK /\ LockInv /\ ResourceInv /\ [Next]_vars => [Session!Next]_(Session!vars)
  <2> SUFFICES ASSUME TypeOK, LockInv, ResourceInv, [Next]_vars
               PROVE  [Session!Next]_(Session!vars)
    OBVIOUS
  <2>0. /\ core \in {"none", "alive", "exited"}
        /\ session \in {"none", "up", "ended"}
        /\ running \in BOOLEAN
    BY DEF TypeOK
  <2>stutter. UNCHANGED <<core, session, running>> => [Session!Next]_(Session!vars)
    BY DEF Session!vars
  <2>1. ASSUME NEW h \in Handler, HandlerNext(h)  PROVE [Session!Next]_(Session!vars)
    <3>1. ASSUME NEW r \in Request, Ask(h, r)  PROVE [Session!Next]_(Session!vars)
      BY <3>1, <2>stutter DEF Ask, tunnel
    <3>2. CASE NoConfig(h)
      BY <3>2, <2>stutter DEF NoConfig, tunnel
    <3>3. CASE BeginConnect(h)
      BY <3>3, <2>stutter DEF BeginConnect, tunnel
    <3>4. CASE BeginDisconnect(h)
      BY <3>4, <2>stutter DEF BeginDisconnect, tunnel
    <3>5. CASE DisconnectReplied(h)
      BY <3>5, <2>stutter DEF DisconnectReplied, tunnel
    <3>6. CASE ReconnectPauses(h)
      BY <3>6, <2>stutter DEF ReconnectPauses, tunnel
    <3>7. CASE ReconnectResumes(h)
      BY <3>7, <2>stutter DEF ReconnectResumes, tunnel
    <3>8. CASE ConnectCleared(h)
      BY <3>8, <2>stutter DEF ConnectCleared, tunnel
    <3>9. CASE PrepareFails(h)
      BY <3>9, <2>stutter DEF PrepareFails, tunnel
    <3>10. CASE Prepared(h)
      BY <3>10, <2>stutter DEF Prepared, tunnel
    <3>11. CASE StartCall(h)
      BY <3>11, <2>stutter DEF StartCall, tunnel
    <3>12. CASE CallsStarted(h)
      BY <3>12, <2>stutter DEF CallsStarted, tunnel
    <3>13. CASE NoCalls(h)
      BY <3>13, <2>stutter DEF NoCalls, tunnel
    <3>14. CASE GiveUp(h)
      BY <3>14, <2>stutter DEF GiveUp, tunnel
    <3>15. CASE GaveUp(h)
      BY <3>15, <2>stutter DEF GaveUp, tunnel
    <3>16. CASE Spawn(h)
      BY <3>16, <2>0 DEF Spawn, LockInv, LockedPc, ResourceInv, PastJoin, Task, Stopper,
        Session!Next, Session!StartCore, Session!vars
    <3>17. CASE Drop(h)
      BY <3>17, <2>0 DEF Drop, LockInv, LockedPc, ResourceInv, PastJoin, Task, Stopper,
        Session!Next, Session!CloseTunnel, Session!RemoveCore, Session!vars
    <3> QED
      BY <2>1, <3>1, <3>2, <3>3, <3>4, <3>5, <3>6, <3>7, <3>8, <3>9, <3>10, <3>11, <3>12,
        <3>13, <3>14, <3>15, <3>16, <3>17
      DEF HandlerNext
  <2>2. ASSUME NEW w \in Watchdog, WatchdogNext(w)  PROVE [Session!Next]_(Session!vars)
    <3>1. CASE SeeActive(w)
      BY <3>1, <2>stutter DEF SeeActive, tunnel
    <3>2. CASE SeeIdle(w)
      BY <3>2, <2>stutter DEF SeeIdle, tunnel
    <3>3. CASE Ready(w)
      BY <3>3, <2>stutter DEF Ready, tunnel
    <3>4. CASE TimesOut(w)
      BY <3>4, <2>stutter DEF TimesOut, tunnel
    <3>5. CASE LockToStart(w)
      BY <3>5, <2>stutter DEF LockToStart, tunnel
    <3>6. CASE LockTooLate(w)
      BY <3>6, <2>stutter DEF LockTooLate, tunnel
    <3>7. CASE TunStarts(w)
      BY <3>7, <2>0 DEF TunStarts, LockInv, LockedPc, ResourceInv, PastJoin, Task, Stopper,
        Session!Next, Session!OpenTunnel, Session!vars
    <3>8. CASE TunFails(w)
      BY <3>8, <2>stutter DEF TunFails, tunnel
    <3>9. CASE SocksFails(w)
      BY <3>9, <2>0 DEF SocksFails, LockInv, LockedPc, ResourceInv, PastJoin, Task, Stopper,
        Session!Next, Session!OpenTunnel, Session!vars
    <3>10. CASE Announce(w)
      BY <3>10, <2>stutter DEF Announce, tunnel
    <3>11. CASE SeeStopped(w)
      BY <3>11, <2>stutter DEF SeeStopped, tunnel
    <3>12. CASE LockToFinish(w)
      BY <3>12, <2>stutter DEF LockToFinish, tunnel
    <3>13. CASE WatchdogFinished(w)
      BY <3>13, <2>stutter DEF WatchdogFinished, tunnel
    <3>14. CASE DiesAborted(w)
      BY <3>14, <2>0 DEF DiesAborted, LockInv, LockedPc, ResourceInv, PastJoin, Task, Stopper,
        Session!Next, Session!CloseTunnel, Session!RemoveCore, Session!vars
    <3> QED
      BY <2>2, <3>1, <3>2, <3>3, <3>4, <3>5, <3>6, <3>7, <3>8, <3>9, <3>10, <3>11, <3>12,
        <3>13, <3>14
      DEF WatchdogNext
  <2>3. ASSUME NEW t \in Task, TeardownNext(t)  PROVE [Session!Next]_(Session!vars)
    <3>1. CASE StopTun(t)
      BY <3>1, <2>0 DEF StopTun, LockInv, LockedPc, ResourceInv, PastJoin, Task, Stopper,
        Session!Next, Session!StopFlow, Session!vars
    <3>2. CASE TunStopped(t)
      BY <3>2, <2>0 DEF TunStopped, LockInv, LockedPc, ResourceInv, PastJoin, Task, Stopper,
        Session!Next, Session!CloseTunnel, Session!vars
    <3>3. CASE KillCore(t)
      BY <3>3, <2>0 DEF KillCore, LockInv, LockedPc, ResourceInv, PastJoin, Task, Stopper,
        Session!Next, Session!RemoveCore, Session!vars
    <3>4. CASE FinishCall(t)
      BY <3>4, <2>stutter DEF FinishCall, tunnel
    <3> QED
      BY <2>3, <3>1, <3>2, <3>3, <3>4
      DEF TeardownNext
  <2>4. CASE Signal
    BY <2>4, <2>stutter DEF Signal, tunnel
  <2>5. CASE BeginCleanup
    BY <2>5, <2>stutter DEF BeginCleanup
  <2>6. CASE CleanupDone
    BY <2>6, <2>0 DEF CleanupDone, LockInv, LockedPc, ResourceInv, PastJoin, Task, Stopper,
      Session!Next, Session!RemoveCore, Session!vars
  <2>7. CASE CoreExits
    BY <2>7, <2>0 DEF CoreExits, tasks, LockInv, LockedPc, ResourceInv, PastJoin, Task,
      Stopper, Session!Next, Session!CoreExits, Session!vars
  <2>8. CASE BridgeEnds
    BY <2>8, <2>0 DEF BridgeEnds, tasks, LockInv, LockedPc, ResourceInv, PastJoin, Task,
      Stopper, Session!Next, Session!TunnelEnds, Session!vars
  <2>9. CASE Terminated
    BY <2>9, <2>stutter DEF Terminated, vars, tunnel
  <2>10. CASE ReportOther
    BY <2>10, <2>stutter DEF ReportOther, tunnel
  <2>11. CASE StopOther
    BY <2>11, <2>stutter DEF StopOther, tunnel
  <2>12. CASE UNCHANGED vars
    BY <2>12, <2>stutter DEF vars, tunnel
  <2> QED
    BY <2>1, <2>2, <2>3, <2>4, <2>5, <2>6, <2>7, <2>8, <2>9, <2>10, <2>11, <2>12
    DEF Next
<1>3. QED
  BY <1>1, <1>2, TypeCorrect, LockCorrect, ResourcesCorrect, PTL
     DEF Spec, ImplementsTunnelSession, Session!Spec

-----------------------------------------------------------------------------
(* A corollary of the refinement: the backend never reports the VPN as running    *)
(* without an open TUN and a core, whichever task set or cleared vpn.running last.        *)
THEOREM FlowSafe == Spec => [](Session!TypeOK /\ Session!FlowNeedsSession)
<1> DEFINE Inv == Session!TypeOK /\ Session!FlowNeedsSession
<1>1. Session!Init => Inv
  BY DEF Session!Init, Session!TypeOK, Session!FlowNeedsSession
<1>2. Inv /\ [Session!Next]_(Session!vars) => Inv'
  <2> SUFFICES ASSUME Inv, [Session!Next]_(Session!vars) PROVE Inv'
    OBVIOUS
  <2> USE DEF Session!TypeOK, Session!FlowNeedsSession
  <2>1. CASE Session!StartCore
    BY <2>1 DEF Session!StartCore
  <2>2. CASE Session!OpenTunnel
    BY <2>2 DEF Session!OpenTunnel
  <2>3. CASE Session!CoreExits
    BY <2>3 DEF Session!CoreExits
  <2>4. CASE Session!TunnelEnds
    BY <2>4 DEF Session!TunnelEnds
  <2>5. CASE Session!StopFlow
    BY <2>5 DEF Session!StopFlow
  <2>6. CASE Session!CloseTunnel
    BY <2>6 DEF Session!CloseTunnel
  <2>7. CASE Session!RemoveCore
    BY <2>7 DEF Session!RemoveCore
  <2>8. CASE UNCHANGED Session!vars
    BY <2>8 DEF Session!vars
  <2> QED
    BY <2>1, <2>2, <2>3, <2>4, <2>5, <2>6, <2>7, <2>8 DEF Session!Next
<1>3. QED
  BY <1>1, <1>2, Refinement, PTL DEF ImplementsTunnelSession, Session!Spec
=============================================================================
