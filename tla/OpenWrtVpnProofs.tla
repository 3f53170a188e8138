-------------------------- MODULE OpenWrtVpnProofs --------------------------
(***************************************************************************)
(* Proofs about OpenWrtVpn, for any number of handlers, watchdogs and VK   *)
(* calls and with requests dropped anywhere.                               *)
(*                                                                         *)
(*   TypeOK    is inductive;                                               *)
(*   LockInv   a task is in a critical section iff it holds the lock;      *)
(*   GroundInv what is down already at each place of the teardown: with    *)
(*             LockInv it gives RoutingNeedsTun and ConnectStartsClean;    *)
(*   KnownCallsTracked is inductive;                                       *)
(*   SupervisorInv where a live watchdog is recorded;                      *)
(*   CoreInv   a watchdog that has still to open the TUN finds a core:     *)
(*             with GroundInv it gives the refinement of TunnelSession.    *)
(***************************************************************************)
EXTENDS OpenWrtVpn, TLAPS

-----------------------------------------------------------------------------
(* The variables keep the types TypeOK gives them.                         *)
THEOREM TypeCorrect == Spec => []TypeOK
<1>1. Init => TypeOK
  <2> SUFFICES ASSUME Init PROVE TypeOK
    OBVIOUS
  <2>1. pc \in [Task -> {"dead", "idle"}]
    BY DEF Init
  <2>2. \A h \in Handler : pc[h] = "idle"
    BY TasksAssumption DEF Init, Task, Stopper
  <2>3. \A w \in Watchdog : pc[w] = "dead"
    BY DEF Init, Task
  <2>4. pc[Cleaner] = "idle"
    BY TasksAssumption DEF Init, Task, Stopper
  <2>5. /\ pc \in [Task -> HandlerPc \cup CleanerPc \cup WatchdogPc]
        /\ \A h \in Handler : pc[h] \in HandlerPc
        /\ pc[Cleaner] \in CleanerPc
        /\ \A w \in Watchdog : pc[w] \in WatchdogPc
    BY <2>1, <2>2, <2>3, <2>4 DEF HandlerPc, CleanerPc, WatchdogPc
  <2> QED
    BY <2>5 DEF Init, TypeOK, NoRequest
<1>2. TypeOK /\ [Next]_vars => TypeOK'
  <2> SUFFICES ASSUME TypeOK, [Next]_vars PROVE TypeOK'
    OBVIOUS
  <2> USE TasksAssumption DEF TypeOK, Task, Stopper, HandlerPc, CleanerPc, WatchdogPc
  <2>1. ASSUME NEW h \in Handler, HandlerNext(h)  PROVE TypeOK'
    <3>1. ASSUME NEW r \in Request, Ask(h, r)  PROVE TypeOK'
      BY <3>1, SMTT(30) DEF Ask, Goto, tunnel, shown, calls
    <3>2. CASE Refused(h)
      BY <3>2, SMTT(30) DEF Refused, Replied, tunnel, shown, calls, Goto, NoRequest
    <3>3. CASE Begin(h)
      BY <3>3, SMTT(30) DEF Begin, Lock, AbortWatchdog, tunnel, shown, calls, Goto, Live
    <3>4. CASE DisconnectReplied(h)
      BY <3>4 DEF DisconnectReplied, Replied, FinishedAt, tunnel, calls, Goto, NoRequest
    <3>5. CASE ReconnectPauses(h)
      BY <3>5 DEF ReconnectPauses, Goto, FinishedAt, tunnel, calls
    <3>6. CASE ReconnectResumes(h)
      BY <3>6, SMTT(30) DEF ReconnectResumes, Request, Goto, tunnel, shown, calls
    <3>7. CASE ConnectCleared(h)
      <4>1. event' \in BOOLEAN /\ connecting' \in BOOLEAN
        BY <3>7 DEF ConnectCleared
      <4> QED
        BY <3>7, <4>1 DEF ConnectCleared, Goto, tunnel, calls
    <3>8. CASE Prepared(h)
      BY <3>8, SMTT(30) DEF Prepared, Goto, tunnel, shown, calls
    <3>9. CASE StartCall(h)
      BY <3>9, SMTT(30) DEF StartCall, tasks, tunnel, shown
    <3>10. CASE CallAnswered(h)
      BY <3>10, SMTT(30) DEF CallAnswered, tasks, tunnel, shown
    <3>11. CASE CallsStarted(h)
      <4>1. /\ lost' \subseteq Call
            /\ asked' \in [Handler -> SUBSET Call]
        BY <3>11, SMTT(30) DEF CallsStarted
      <4>2. pc' \in [Task -> HandlerPc \cup CleanerPc \cup WatchdogPc]
        BY <3>11, SMTT(30) DEF CallsStarted, Goto
      <4>3. \A i \in Task : pc'[i] = IF i = h THEN "spawn" ELSE pc[i]
        BY <3>11, SMTT(30) DEF CallsStarted, Goto
      <4> QED
        BY <3>11, <4>1, <4>2, <4>3 DEF CallsStarted, tunnel, shown
    <3>12. CASE ConnectFails(h)
      <4>1. /\ dropping' \subseteq Call /\ lost' \subseteq Call
            /\ mine' \in [Handler -> SUBSET Call] /\ asked' \in [Handler -> SUBSET Call]
        BY <3>12, SMTT(30) DEF ConnectFails, DropCalls
      <4>2. connecting' \in BOOLEAN
        BY <3>12 DEF ConnectFails
      <4>3. pc' \in [Task -> HandlerPc \cup CleanerPc \cup WatchdogPc]
        BY <3>12, SMTT(30) DEF ConnectFails, Replied, Goto
      <4>4. \A i \in Task : pc'[i] = IF i = h THEN "idle" ELSE pc[i]
        BY <3>12, SMTT(30) DEF ConnectFails, Replied, Goto
      <4>5. req' \in [Handler -> Request \cup {NoRequest}] /\ op' = NoOne
        BY <3>12, SMTT(30) DEF ConnectFails, Replied
      <4> QED
        BY <3>12, <4>1, <4>2, <4>3, <4>4, <4>5 DEF ConnectFails, tunnel
    <3>13. CASE Spawn(h)
      <4>1. PICK w \in Watchdog : slot' = w /\ pc' = [pc EXCEPT ![w] = "watch", ![h] = "idle"]
        BY <3>13 DEF Spawn
      <4>2. /\ pc' \in [Task -> HandlerPc \cup CleanerPc \cup WatchdogPc]
            /\ \A g \in Handler : pc'[g] \in HandlerPc
            /\ pc'[Cleaner] \in CleanerPc
            /\ \A v \in Watchdog : pc'[v] \in WatchdogPc
        BY <4>1
      <4>3. /\ core' = "alive" /\ socks' \in BOOLEAN /\ connecting' = FALSE /\ op' = NoOne
            /\ UNCHANGED <<joining, aborted, session, routing, running, event, cut>>
        BY <3>13 DEF Spawn
      <4>4. /\ active' = mine[h] /\ dropping' = dropping \cup active
            /\ mine' = [mine EXCEPT ![h] = {}]
            /\ req' = [req EXCEPT ![h] = NoRequest]
            /\ UNCHANGED <<asked, ending, open, lost>>
        BY <3>13 DEF Spawn
      <4> QED
        BY <4>1, <4>2, <4>3, <4>4 DEF NoRequest
    <3>14. CASE Drop(h)
      BY <3>14 DEF Drop, Replied, Joined, Goto, NoRequest
    <3> HIDE DEF TypeOK, Task, Stopper, HandlerPc, CleanerPc, WatchdogPc
    <3> QED
      BY <2>1, <3>1, <3>2, <3>3, <3>4, <3>5, <3>6, <3>7, <3>8, <3>9, <3>10, <3>11,
        <3>12, <3>13, <3>14 DEF HandlerNext
  <2>2. ASSUME NEW w \in Watchdog, WatchdogNext(w)  PROVE TypeOK'
    <3>1. CASE Ready(w)
      BY <3>1, SMTT(30) DEF Ready, Goto, tunnel, shown, calls
    <3>2. CASE TimesOut(w)
      <4>1. event' \in BOOLEAN
        BY <3>2 DEF TimesOut
      <4> QED
        BY <3>2, <4>1 DEF TimesOut, Goto, tunnel, calls
    <3>3. CASE LockToStart(w)
      BY <3>3, SMTT(30) DEF LockToStart, Goto, Lock, tunnel, shown, calls
    <3>4. CASE TunStarts(w)
      BY <3>4, SMTT(30) DEF TunStarts, Goto, shown, calls
    <3>5. CASE TunFails(w)
      BY <3>5, SMTT(30) DEF TunFails, Goto, tunnel, shown, calls
    <3>6. CASE Announce(w)
      BY <3>6, SMTT(30) DEF Announce, Goto, tunnel, calls
    <3>7. CASE SeeStopped(w)
      BY <3>7, SMTT(30) DEF SeeStopped, Goto, tunnel, shown, calls
    <3>8. CASE LockToFinish(w)
      BY <3>8, SMTT(30) DEF LockToFinish, Goto, Lock, tunnel, shown, calls
    <3>9. CASE WatchdogFinished(w)
      BY <3>9 DEF WatchdogFinished, Goto, FinishedAt, tunnel, calls
    <3>10. CASE DiesAborted(w)
      BY <3>10, SMTT(30) DEF DiesAborted, Goto, shown, AwaitsUnlocked, AwaitsLocked, calls
    <3> HIDE DEF TypeOK, Task, Stopper, HandlerPc, CleanerPc, WatchdogPc
    <3> QED
      BY <2>2, <3>1, <3>2, <3>3, <3>4, <3>5, <3>6, <3>7, <3>8, <3>9, <3>10 DEF
        WatchdogNext
  <2>3. ASSUME NEW t \in Task, TeardownNext(t)  PROVE TypeOK'
    <3>1. CASE StopTun(t)
      <4>1. running' \in BOOLEAN /\ routing' \in BOOLEAN
        BY <3>1 DEF StopTun
      <4>2. joining' \in [Stopper -> Watchdog \cup {NoOne}]
        BY <3>1, SMTT(30) DEF StopTun, Joined
      <4>3. pc[t] # "dead" /\ t \in Task
        BY <3>1, SMTT(30) DEF StopTun
      <4> QED
        BY <3>1, <4>1, <4>2, <4>3 DEF StopTun, Goto, shown, calls
    <3>2. CASE TunStopped(t)
      BY <3>2 DEF TunStopped, Goto, shown, calls
    <3>3. CASE KillCore(t)
      BY <3>3, SMTT(30) DEF KillCore, Goto, shown, calls
    <3>4. CASE FinishCall(t)
      BY <3>4, SMTT(30) DEF FinishCall, Closes, tasks, tunnel, shown, calls
    <3> HIDE DEF TypeOK, Task, Stopper, HandlerPc, CleanerPc, WatchdogPc
    <3> QED
      BY <2>3, <3>1, <3>2, <3>3, <3>4 DEF TeardownNext
  <2>4. CASE FinishDropped
    BY <2>4 DEF FinishDropped, Closes, tasks, tunnel, shown
  <2>5. CASE Signal
    BY <2>5 DEF Signal, Goto, tunnel, shown, calls
  <2>6. CASE BeginCleanup
    BY <2>6 DEF BeginCleanup, Lock, AbortWatchdog, shown, calls, Goto, Live
  <2>7. CASE CleanupDone
    BY <2>7 DEF CleanupDone, Goto, FinishedAt, tunnel, shown, calls
  <2>8. CASE CoreExits
    BY <2>8 DEF CoreExits, tasks, shown, calls
  <2>9. CASE BridgeEnds
    <3>1. running' \in BOOLEAN /\ event' \in BOOLEAN /\ session' \in {"none", "up", "ended"}
      BY <2>9 DEF BridgeEnds
    <3> QED
      BY <2>9, <3>1 DEF BridgeEnds, tasks, calls
  <2>10. CASE Terminated
    BY <2>10 DEF Terminated, Live, vars, tasks, tunnel, shown, calls
  <2>11. CASE UNCHANGED vars
    BY <2>11 DEF vars, tasks, tunnel, shown, calls
  <2> HIDE DEF TypeOK, Task, Stopper, HandlerPc, CleanerPc, WatchdogPc
  <2> QED
    BY <2>1, <2>2, <2>3, <2>4, <2>5, <2>6, <2>7, <2>8, <2>9, <2>10, <2>11 DEF Next
<1>3. QED
  BY <1>1, <1>2, PTL DEF Spec

-----------------------------------------------------------------------------
LockedPc == {"join", "tun", "kill", "calls", "prepare", "vk", "spawn", "start", "announce",
             "stop"}

\* A task is between two points at which it releases the lock iff it is the holder.
LockInv == \A t \in Task : pc[t] \in LockedPc <=> op = t

(* The mutex of the router's backend excludes its critical sections, also when a handler  *)
(* is dropped or a watchdog aborted inside of one.                                        *)
THEOREM LockCorrect == Spec => []LockInv
<1>1. Init => LockInv
  BY TasksAssumption DEF Init, LockInv, LockedPc, Task, Stopper
<1>2. TypeOK /\ LockInv /\ [Next]_vars => LockInv'
  <2> SUFFICES ASSUME TypeOK, LockInv, [Next]_vars PROVE LockInv'
    OBVIOUS
  <2> DEFINE Types == pc \in [Task -> HandlerPc \cup CleanerPc \cup WatchdogPc]
                      /\ op \in Task \cup {NoOne}
  <2>0. Types
    BY DEF TypeOK
  <2> USE TasksAssumption, <2>0 DEF LockInv, LockedPc, Task, Stopper
  <2>1. ASSUME NEW h \in Handler, HandlerNext(h)  PROVE LockInv'
    <3>1. ASSUME NEW r \in Request, Ask(h, r)  PROVE LockInv'
      BY <3>1 DEF Ask, Goto, tunnel, shown, calls
    <3>2. CASE Refused(h)
      BY <3>2 DEF Refused, Replied, tunnel, shown, calls, Goto, NoRequest
    <3>3. CASE Begin(h)
      BY <3>3 DEF Begin, Lock, AbortWatchdog, tunnel, shown, calls, Goto, Live
    <3>4. CASE DisconnectReplied(h)
      BY <3>4 DEF DisconnectReplied, Replied, FinishedAt, tunnel, calls, Goto, NoRequest
    <3>5. CASE ReconnectPauses(h)
      BY <3>5 DEF ReconnectPauses, Goto, FinishedAt, tunnel, calls
    <3>6. CASE ReconnectResumes(h)
      BY <3>6 DEF ReconnectResumes, Goto, tunnel, shown, calls
    <3>7. CASE ConnectCleared(h)
      BY <3>7 DEF ConnectCleared, Goto, FinishedAt, tunnel, calls
    <3>8. CASE Prepared(h)
      BY <3>8 DEF Prepared, Goto, tunnel, shown, calls
    <3>9. CASE StartCall(h)
      BY <3>9 DEF StartCall, tasks, tunnel, shown
    <3>10. CASE CallAnswered(h)
      BY <3>10 DEF CallAnswered, tasks, tunnel, shown
    <3>11. CASE CallsStarted(h)
      BY <3>11 DEF CallsStarted, Goto, tunnel, shown
    <3>12. CASE ConnectFails(h)
      BY <3>12 DEF ConnectFails, Replied, DropCalls, tunnel, Goto, NoRequest
    <3>13. CASE Spawn(h)
      BY <3>13 DEF Spawn, Live, NoRequest
    <3>14. CASE Drop(h)
      BY <3>14 DEF Drop, Replied, Joined, Goto, NoRequest
    <3> HIDE DEF LockInv, LockedPc, Task, Stopper
    <3> QED
      BY <2>1, <3>1, <3>2, <3>3, <3>4, <3>5, <3>6, <3>7, <3>8, <3>9, <3>10, <3>11,
        <3>12, <3>13, <3>14 DEF HandlerNext
  <2>2. ASSUME NEW w \in Watchdog, WatchdogNext(w)  PROVE LockInv'
    <3>1. CASE Ready(w)
      BY <3>1 DEF Ready, Goto, tunnel, shown, calls
    <3>2. CASE TimesOut(w)
      BY <3>2 DEF TimesOut, Goto, tunnel, calls
    <3>3. CASE LockToStart(w)
      BY <3>3 DEF LockToStart, Goto, Lock, tunnel, shown, calls
    <3>4. CASE TunStarts(w)
      BY <3>4 DEF TunStarts, Goto, shown, calls
    <3>5. CASE TunFails(w)
      BY <3>5 DEF TunFails, Goto, tunnel, shown, calls
    <3>6. CASE Announce(w)
      BY <3>6 DEF Announce, Goto, tunnel, calls
    <3>7. CASE SeeStopped(w)
      BY <3>7 DEF SeeStopped, Goto, tunnel, shown, calls
    <3>8. CASE LockToFinish(w)
      BY <3>8 DEF LockToFinish, Goto, Lock, tunnel, shown, calls
    <3>9. CASE WatchdogFinished(w)
      BY <3>9 DEF WatchdogFinished, Goto, FinishedAt, tunnel, calls
    <3>10. CASE DiesAborted(w)
      BY <3>10 DEF DiesAborted, Goto, shown, AwaitsUnlocked, AwaitsLocked, calls
    <3> HIDE DEF LockInv, LockedPc, Task, Stopper
    <3> QED
      BY <2>2, <3>1, <3>2, <3>3, <3>4, <3>5, <3>6, <3>7, <3>8, <3>9, <3>10 DEF
        WatchdogNext
  <2>3. ASSUME NEW t \in Task, TeardownNext(t)  PROVE LockInv'
    <3>1. CASE StopTun(t)
      BY <3>1 DEF StopTun, Goto, Joined, Live, shown, calls
    <3>2. CASE TunStopped(t)
      BY <3>2 DEF TunStopped, Goto, shown, calls
    <3>3. CASE KillCore(t)
      BY <3>3 DEF KillCore, Goto, shown, calls
    <3>4. CASE FinishCall(t)
      BY <3>4 DEF FinishCall, Closes, tasks, tunnel, shown, calls
    <3> HIDE DEF LockInv, LockedPc, Task, Stopper
    <3> QED
      BY <2>3, <3>1, <3>2, <3>3, <3>4 DEF TeardownNext
  <2>4. CASE FinishDropped
    BY <2>4 DEF FinishDropped, Closes, tasks, tunnel, shown
  <2>5. CASE Signal
    BY <2>5 DEF Signal, Goto, tunnel, shown, calls
  <2>6. CASE BeginCleanup
    BY <2>6 DEF BeginCleanup, Lock, AbortWatchdog, shown, calls, Goto, Live
  <2>7. CASE CleanupDone
    BY <2>7 DEF CleanupDone, Goto, FinishedAt, tunnel, shown, calls
  <2>8. CASE CoreExits
    BY <2>8 DEF CoreExits, tasks, shown, calls
  <2>9. CASE BridgeEnds
    BY <2>9 DEF BridgeEnds, tasks, calls
  <2>10. CASE Terminated
    BY <2>10 DEF Terminated, Live, vars, tasks, tunnel, shown, calls
  <2>11. CASE UNCHANGED vars
    BY <2>11 DEF vars, tasks, tunnel, shown, calls
  <2> HIDE DEF LockInv, LockedPc, Task, Stopper
  <2> QED
    BY <2>1, <2>2, <2>3, <2>4, <2>5, <2>6, <2>7, <2>8, <2>9, <2>10, <2>11 DEF Next
<1>3. QED
  BY <1>1, <1>2, TypeCorrect, PTL DEF Spec

-----------------------------------------------------------------------------
Cleared == {"prepare", "vk", "spawn"}

\* What is down already where: flow and routing once a task closes the TUN, the TUN and the
\* proxy once it kills the core, and everything when a connect begins to set up its own.
GroundInv ==
  /\ RoutingNeedsTun
  /\ \A t \in Task : pc[t] \in {"tun", "kill", "calls"} \cup Cleared => ~routing /\ ~running
  /\ \A t \in Task : pc[t] \in {"kill", "calls"} \cup Cleared => session = "none" /\ ~socks
  /\ \A t \in Task : pc[t] \in {"calls"} \cup Cleared => core = "none" /\ active = {}

(* The teardown keeps its order, whatever was dropped, aborted or has failed before.     *)
LEMMA GroundInvariant == Spec => []GroundInv
<1>1. Init => GroundInv
  BY TasksAssumption DEF Init, GroundInv, RoutingNeedsTun, Cleared, Task, Stopper
<1>2. TypeOK /\ LockInv /\ GroundInv /\ [Next]_vars => GroundInv'
  <2> SUFFICES ASSUME TypeOK, LockInv, GroundInv, [Next]_vars PROVE GroundInv'
    OBVIOUS
  <2>0. /\ pc \in [Task -> HandlerPc \cup CleanerPc \cup WatchdogPc]
        /\ op \in Task \cup {NoOne}
        /\ \A h \in Handler : pc[h] \in HandlerPc
        /\ pc[Cleaner] \in CleanerPc
        /\ \A w \in Watchdog : pc[w] \in WatchdogPc
    BY DEF TypeOK
  <2> USE TasksAssumption, <2>0 DEF LockInv, LockedPc, GroundInv, RoutingNeedsTun, Cleared,
      Task,
        Stopper, HandlerPc, CleanerPc, WatchdogPc
  <2>1. ASSUME NEW h \in Handler, HandlerNext(h)  PROVE GroundInv'
    <3>1. ASSUME NEW r \in Request, Ask(h, r)  PROVE GroundInv'
      BY <3>1 DEF Ask, Goto, tunnel, shown, calls
    <3>2. CASE Refused(h)
      BY <3>2 DEF Refused, Replied, tunnel, shown, calls, Goto, NoRequest
    <3>3. CASE Begin(h)
      BY <3>3 DEF Begin, Lock, AbortWatchdog, tunnel, shown, calls, Goto, Live
    <3>4. CASE DisconnectReplied(h)
      BY <3>4 DEF DisconnectReplied, Replied, FinishedAt, tunnel, calls, Goto, NoRequest
    <3>5. CASE ReconnectPauses(h)
      BY <3>5 DEF ReconnectPauses, Goto, FinishedAt, tunnel, calls
    <3>6. CASE ReconnectResumes(h)
      BY <3>6 DEF ReconnectResumes, Goto, tunnel, shown, calls
    <3>7. CASE ConnectCleared(h)
      BY <3>7 DEF ConnectCleared, Goto, FinishedAt, tunnel, calls
    <3>8. CASE Prepared(h)
      BY <3>8 DEF Prepared, Goto, tunnel, shown, calls
    <3>9. CASE StartCall(h)
      BY <3>9 DEF StartCall, tasks, tunnel, shown
    <3>10. CASE CallAnswered(h)
      BY <3>10 DEF CallAnswered, tasks, tunnel, shown
    <3>11. CASE CallsStarted(h)
      BY <3>11 DEF CallsStarted, Goto, tunnel, shown
    <3>12. CASE ConnectFails(h)
      BY <3>12 DEF ConnectFails, Replied, DropCalls, tunnel, Goto, NoRequest
    <3>13. CASE Spawn(h)
      BY <3>13 DEF Spawn, Live, NoRequest
    <3>14. CASE Drop(h)
      BY <3>14 DEF Drop, Replied, Joined, Goto, NoRequest
    <3> HIDE DEF LockInv, LockedPc, GroundInv, RoutingNeedsTun, Cleared, Task, Stopper,
           HandlerPc, CleanerPc, WatchdogPc
    <3> QED
      BY <2>1, <3>1, <3>2, <3>3, <3>4, <3>5, <3>6, <3>7, <3>8, <3>9, <3>10, <3>11,
        <3>12, <3>13, <3>14 DEF HandlerNext
  <2>2. ASSUME NEW w \in Watchdog, WatchdogNext(w)  PROVE GroundInv'
    <3>1. CASE Ready(w)
      BY <3>1 DEF Ready, Goto, tunnel, shown, calls
    <3>2. CASE TimesOut(w)
      BY <3>2 DEF TimesOut, Goto, tunnel, calls
    <3>3. CASE LockToStart(w)
      BY <3>3 DEF LockToStart, Goto, Lock, tunnel, shown, calls
    <3>4. CASE TunStarts(w)
      BY <3>4 DEF TunStarts, Goto, shown, calls
    <3>5. CASE TunFails(w)
      BY <3>5 DEF TunFails, Goto, tunnel, shown, calls
    <3>6. CASE Announce(w)
      BY <3>6 DEF Announce, Goto, tunnel, calls
    <3>7. CASE SeeStopped(w)
      BY <3>7 DEF SeeStopped, Goto, tunnel, shown, calls
    <3>8. CASE LockToFinish(w)
      BY <3>8 DEF LockToFinish, Goto, Lock, tunnel, shown, calls
    <3>9. CASE WatchdogFinished(w)
      BY <3>9 DEF WatchdogFinished, Goto, FinishedAt, tunnel, calls
    <3>10. CASE DiesAborted(w)
      BY <3>10 DEF DiesAborted, Goto, shown, AwaitsUnlocked, AwaitsLocked, calls
    <3> HIDE DEF LockInv, LockedPc, GroundInv, RoutingNeedsTun, Cleared, Task, Stopper,
           HandlerPc, CleanerPc, WatchdogPc
    <3> QED
      BY <2>2, <3>1, <3>2, <3>3, <3>4, <3>5, <3>6, <3>7, <3>8, <3>9, <3>10 DEF
        WatchdogNext
  <2>3. ASSUME NEW t \in Task, TeardownNext(t)  PROVE GroundInv'
    <3>1. CASE StopTun(t)
      BY <3>1 DEF StopTun, Goto, Joined, Live, shown, calls
    <3>2. CASE TunStopped(t)
      BY <3>2 DEF TunStopped, Goto, shown, calls
    <3>3. CASE KillCore(t)
      BY <3>3 DEF KillCore, Goto, shown, calls
    <3>4. CASE FinishCall(t)
      BY <3>4 DEF FinishCall, Closes, tasks, tunnel, shown, calls
    <3> HIDE DEF LockInv, LockedPc, GroundInv, RoutingNeedsTun, Cleared, Task, Stopper,
           HandlerPc, CleanerPc, WatchdogPc
    <3> QED
      BY <2>3, <3>1, <3>2, <3>3, <3>4 DEF TeardownNext
  <2>4. CASE FinishDropped
    BY <2>4 DEF FinishDropped, Closes, tasks, tunnel, shown
  <2>5. CASE Signal
    BY <2>5 DEF Signal, Goto, tunnel, shown, calls
  <2>6. CASE BeginCleanup
    BY <2>6 DEF BeginCleanup, Lock, AbortWatchdog, shown, calls, Goto, Live
  <2>7. CASE CleanupDone
    BY <2>7 DEF CleanupDone, Goto, FinishedAt, tunnel, shown, calls
  <2>8. CASE CoreExits
    BY <2>8 DEF CoreExits, tasks, shown, calls
  <2>9. CASE BridgeEnds
    BY <2>9 DEF BridgeEnds, tasks, calls
  <2>10. CASE Terminated
    BY <2>10 DEF Terminated, Live, vars, tasks, tunnel, shown, calls
  <2>11. CASE UNCHANGED vars
    BY <2>11 DEF vars, tasks, tunnel, shown, calls
  <2> HIDE DEF LockInv, LockedPc, GroundInv, RoutingNeedsTun, Cleared, Task, Stopper,
           HandlerPc, CleanerPc, WatchdogPc
  <2> QED
    BY <2>1, <2>2, <2>3, <2>4, <2>5, <2>6, <2>7, <2>8, <2>9, <2>10, <2>11 DEF Next
<1>3. QED
  BY <1>1, <1>2, TypeCorrect, LockCorrect, PTL DEF Spec

(* Packets are selected for a TUN that exists only, and a connect finds clean ground,     *)
(* whatever was dropped, aborted or has failed before.                                    *)
THEOREM GroundCorrect == Spec => [](RoutingNeedsTun /\ ConnectStartsClean)
<1>1. GroundInv => RoutingNeedsTun /\ ConnectStartsClean
  BY DEF GroundInv, ConnectStartsClean, Cleared, Task, Stopper
<1>2. QED
  BY <1>1, GroundInvariant, PTL

-----------------------------------------------------------------------------
\* A task closes calls at one place only, and leaves it when none is left.
EndingInv == \A t \in Task : pc[t] # "calls" => ending[t] = {}

(* Only a task at "calls" holds calls it is closing.                                      *)
LEMMA EndingCorrect == Spec => []EndingInv
<1>1. Init => EndingInv
  BY DEF Init, EndingInv
<1>2. TypeOK /\ EndingInv /\ [Next]_vars => EndingInv'
  <2> SUFFICES ASSUME TypeOK, EndingInv, [Next]_vars PROVE EndingInv'
    OBVIOUS
  <2>0. /\ pc \in [Task -> HandlerPc \cup CleanerPc \cup WatchdogPc]
        /\ ending \in [Task -> SUBSET Call]
    BY DEF TypeOK
  <2> USE TasksAssumption, <2>0 DEF EndingInv, Task, Stopper
  <2>1. ASSUME NEW h \in Handler, HandlerNext(h)  PROVE EndingInv'
    <3>1. ASSUME NEW r \in Request, Ask(h, r)  PROVE EndingInv'
      BY <3>1 DEF Ask, Goto, tunnel, shown, calls
    <3>2. CASE Refused(h)
      BY <3>2 DEF Refused, Replied, tunnel, shown, calls, Goto, NoRequest
    <3>3. CASE Begin(h)
      BY <3>3 DEF Begin, Lock, AbortWatchdog, tunnel, shown, calls, Goto, Live
    <3>4. CASE DisconnectReplied(h)
      BY <3>4 DEF DisconnectReplied, Replied, FinishedAt, tunnel, calls, Goto, NoRequest
    <3>5. CASE ReconnectPauses(h)
      BY <3>5 DEF ReconnectPauses, Goto, FinishedAt, tunnel, calls
    <3>6. CASE ReconnectResumes(h)
      BY <3>6 DEF ReconnectResumes, Goto, tunnel, shown, calls
    <3>7. CASE ConnectCleared(h)
      BY <3>7 DEF ConnectCleared, Goto, FinishedAt, tunnel, calls
    <3>8. CASE Prepared(h)
      BY <3>8 DEF Prepared, Goto, tunnel, shown, calls
    <3>9. CASE StartCall(h)
      BY <3>9 DEF StartCall, tasks, tunnel, shown
    <3>10. CASE CallAnswered(h)
      BY <3>10 DEF CallAnswered, tasks, tunnel, shown
    <3>11. CASE CallsStarted(h)
      BY <3>11 DEF CallsStarted, Goto, tunnel, shown
    <3>12. CASE ConnectFails(h)
      BY <3>12 DEF ConnectFails, Replied, DropCalls, tunnel, Goto, NoRequest
    <3>13. CASE Spawn(h)
      BY <3>13 DEF Spawn, Live, NoRequest
    <3>14. CASE Drop(h)
      BY <3>14 DEF Drop, Replied, Joined, Goto, NoRequest
    <3> HIDE DEF EndingInv, Task, Stopper
    <3> QED
      BY <2>1, <3>1, <3>2, <3>3, <3>4, <3>5, <3>6, <3>7, <3>8, <3>9, <3>10, <3>11,
        <3>12, <3>13, <3>14 DEF HandlerNext
  <2>2. ASSUME NEW w \in Watchdog, WatchdogNext(w)  PROVE EndingInv'
    <3>1. CASE Ready(w)
      BY <3>1 DEF Ready, Goto, tunnel, shown, calls
    <3>2. CASE TimesOut(w)
      BY <3>2 DEF TimesOut, Goto, tunnel, calls
    <3>3. CASE LockToStart(w)
      BY <3>3 DEF LockToStart, Goto, Lock, tunnel, shown, calls
    <3>4. CASE TunStarts(w)
      BY <3>4 DEF TunStarts, Goto, shown, calls
    <3>5. CASE TunFails(w)
      BY <3>5 DEF TunFails, Goto, tunnel, shown, calls
    <3>6. CASE Announce(w)
      BY <3>6 DEF Announce, Goto, tunnel, calls
    <3>7. CASE SeeStopped(w)
      BY <3>7 DEF SeeStopped, Goto, tunnel, shown, calls
    <3>8. CASE LockToFinish(w)
      BY <3>8 DEF LockToFinish, Goto, Lock, tunnel, shown, calls
    <3>9. CASE WatchdogFinished(w)
      BY <3>9 DEF WatchdogFinished, Goto, FinishedAt, tunnel, calls
    <3>10. CASE DiesAborted(w)
      BY <3>10 DEF DiesAborted, Goto, shown, AwaitsUnlocked, AwaitsLocked, calls
    <3> HIDE DEF EndingInv, Task, Stopper
    <3> QED
      BY <2>2, <3>1, <3>2, <3>3, <3>4, <3>5, <3>6, <3>7, <3>8, <3>9, <3>10 DEF
        WatchdogNext
  <2>3. ASSUME NEW t \in Task, TeardownNext(t)  PROVE EndingInv'
    <3>1. CASE StopTun(t)
      BY <3>1 DEF StopTun, Goto, Joined, Live, shown, calls
    <3>2. CASE TunStopped(t)
      BY <3>2 DEF TunStopped, Goto, shown, calls
    <3>3. CASE KillCore(t)
      BY <3>3 DEF KillCore, Goto, shown, calls
    <3>4. CASE FinishCall(t)
      BY <3>4 DEF FinishCall, Closes, tasks, tunnel, shown, calls
    <3> HIDE DEF EndingInv, Task, Stopper
    <3> QED
      BY <2>3, <3>1, <3>2, <3>3, <3>4 DEF TeardownNext
  <2>4. CASE FinishDropped
    BY <2>4 DEF FinishDropped, Closes, tasks, tunnel, shown
  <2>5. CASE Signal
    BY <2>5 DEF Signal, Goto, tunnel, shown, calls
  <2>6. CASE BeginCleanup
    BY <2>6 DEF BeginCleanup, Lock, AbortWatchdog, shown, calls, Goto, Live
  <2>7. CASE CleanupDone
    BY <2>7 DEF CleanupDone, Goto, FinishedAt, tunnel, shown, calls
  <2>8. CASE CoreExits
    BY <2>8 DEF CoreExits, tasks, shown, calls
  <2>9. CASE BridgeEnds
    BY <2>9 DEF BridgeEnds, tasks, calls
  <2>10. CASE Terminated
    BY <2>10 DEF Terminated, Live, vars, tasks, tunnel, shown, calls
  <2>11. CASE UNCHANGED vars
    BY <2>11 DEF vars, tasks, tunnel, shown, calls
  <2> HIDE DEF EndingInv, Task, Stopper
  <2> QED
    BY <2>1, <2>2, <2>3, <2>4, <2>5, <2>6, <2>7, <2>8, <2>9, <2>10, <2>11 DEF Next
<1>3. QED
  BY <1>1, <1>2, TypeCorrect, PTL DEF Spec

(* ActiveCalls: no error, cancellation or abort forgets a call whose id was read.         *)
THEOREM CallsCorrect == Spec => []KnownCallsTracked
<1>1. Init => KnownCallsTracked
  BY DEF Init, KnownCallsTracked
<1>2. TypeOK /\ EndingInv /\ KnownCallsTracked /\ [Next]_vars => KnownCallsTracked'
  <2> DEFINE Goal == KnownCallsTracked'
  <2> SUFFICES ASSUME TypeOK, EndingInv, KnownCallsTracked, [Next]_vars
               PROVE  KnownCallsTracked'
    OBVIOUS
  <2> USE DEF KnownCallsTracked
  <2>0. /\ mine \in [Handler -> SUBSET Call]
        /\ asked \in [Handler -> SUBSET Call]
        /\ ending \in [Task -> SUBSET Call]
        /\ Handler \subseteq Task /\ Watchdog \subseteq Task
        /\ \A t \in Task : pc[t] # "calls" => ending[t] = {}
    BY DEF TypeOK, EndingInv, Task, Stopper
  <2>same. ASSUME UNCHANGED calls PROVE Goal
    BY <2>same DEF calls, Tracked
  <2>1. ASSUME NEW h \in Handler, HandlerNext(h)  PROVE Goal
    <3>1. ASSUME NEW r \in Request, Ask(h, r)  PROVE Goal
      BY <3>1, <2>same DEF Ask, calls
    <3>2. CASE Refused(h)
      BY <3>2, <2>same DEF Refused, calls
    <3>3. CASE Begin(h)
      BY <3>3, <2>same DEF Begin, calls
    <3>4. CASE DisconnectReplied(h)
      BY <3>4, <2>same DEF DisconnectReplied, calls
    <3>5. CASE ReconnectPauses(h)
      BY <3>5, <2>same DEF ReconnectPauses, calls
    <3>6. CASE ReconnectResumes(h)
      BY <3>6, <2>same DEF ReconnectResumes, calls
    <3>7. CASE ConnectCleared(h)
      BY <3>7, <2>same DEF ConnectCleared, calls
    <3>8. CASE Prepared(h)
      BY <3>8, <2>same DEF Prepared, calls
    <3>9. CASE StartCall(h)
      BY <3>9, <2>0 DEF Tracked, StartCall, tasks, tunnel, shown
    <3>10. CASE CallAnswered(h)
      BY <3>10, <2>0 DEF Tracked, CallAnswered, tasks, tunnel, shown
    <3>11. CASE CallsStarted(h)
      BY <3>11, <2>0 DEF Tracked, CallsStarted, Goto, tunnel, shown
    <3>12. CASE ConnectFails(h)
      BY <3>12, <2>0 DEF Tracked, ConnectFails, Replied, DropCalls, tunnel, Goto, NoRequest
    <3>13. CASE Spawn(h)
      BY <3>13, <2>0 DEF Tracked, Spawn, Live, NoRequest
    <3>14. CASE Drop(h)
      BY <3>14, <2>0 DEF Tracked, Drop, Replied, Joined, Goto, NoRequest
    <3> HIDE DEF Goal
    <3> QED
      BY <2>1, <3>1, <3>2, <3>3, <3>4, <3>5, <3>6, <3>7, <3>8, <3>9, <3>10, <3>11,
        <3>12, <3>13, <3>14 DEF HandlerNext
  <2>2. ASSUME NEW w \in Watchdog, WatchdogNext(w)  PROVE Goal
    <3>1. CASE Ready(w)
      BY <3>1, <2>same DEF Ready, calls
    <3>2. CASE TimesOut(w)
      BY <3>2, <2>same DEF TimesOut, calls
    <3>3. CASE LockToStart(w)
      BY <3>3, <2>same DEF LockToStart, calls
    <3>4. CASE TunStarts(w)
      BY <3>4, <2>same DEF TunStarts, calls
    <3>5. CASE TunFails(w)
      BY <3>5, <2>same DEF TunFails, calls
    <3>6. CASE Announce(w)
      BY <3>6, <2>same DEF Announce, calls
    <3>7. CASE SeeStopped(w)
      BY <3>7, <2>same DEF SeeStopped, calls
    <3>8. CASE LockToFinish(w)
      BY <3>8, <2>same DEF LockToFinish, calls
    <3>9. CASE WatchdogFinished(w)
      BY <3>9, <2>same DEF WatchdogFinished, calls
    <3>10. CASE DiesAborted(w)
      BY <3>10, <2>0 DEF Tracked, DiesAborted, Goto, shown, AwaitsUnlocked, AwaitsLocked, calls
    <3> HIDE DEF Goal
    <3> QED
      BY <2>2, <3>1, <3>2, <3>3, <3>4, <3>5, <3>6, <3>7, <3>8, <3>9, <3>10 DEF
        WatchdogNext
  <2>3. ASSUME NEW t \in Task, TeardownNext(t)  PROVE Goal
    <3>1. CASE StopTun(t)
      BY <3>1, <2>same DEF StopTun, calls
    <3>2. CASE TunStopped(t)
      BY <3>2, <2>same DEF TunStopped, calls
    <3>3. CASE KillCore(t)
      BY <3>3, <2>0 DEF Tracked, KillCore, Goto, shown, calls
    <3>4. CASE FinishCall(t)
      BY <3>4, <2>0 DEF Tracked, FinishCall, Closes, tasks, tunnel, shown, calls
    <3> HIDE DEF Goal
    <3> QED
      BY <2>3, <3>1, <3>2, <3>3, <3>4 DEF TeardownNext
  <2>4. CASE FinishDropped
    BY <2>4, <2>0 DEF Tracked, FinishDropped, Closes, tasks, tunnel, shown
  <2>5. CASE Signal
    BY <2>5, <2>same DEF Signal, calls
  <2>6. CASE BeginCleanup
    BY <2>6, <2>same DEF BeginCleanup, calls
  <2>7. CASE CleanupDone
    BY <2>7, <2>same DEF CleanupDone, calls
  <2>8. CASE CoreExits
    BY <2>8, <2>same DEF CoreExits, calls
  <2>9. CASE BridgeEnds
    BY <2>9, <2>same DEF BridgeEnds, calls
  <2>10. CASE Terminated
    BY <2>10, <2>same DEF Terminated, vars, calls
  <2>11. CASE UNCHANGED vars
    BY <2>11, <2>same DEF vars, calls
  <2> QED
    BY <2>1, <2>2, <2>3, <2>4, <2>5, <2>6, <2>7, <2>8, <2>9, <2>10, <2>11 DEF Next
<1>3. QED
  BY <1>1, <1>2, TypeCorrect, EndingCorrect, PTL DEF Spec

-----------------------------------------------------------------------------
\* Where a stopper is once the watchdog of the old session is gone.
PastJoin == {"tun", "kill", "calls"} \cup Cleared

\* Where a live watchdog is recorded, and that there is one at most: in vpn.watchdog, or with
\* the stopper that awaits its end.
SupervisorInv ==
  /\ \A s \in Stopper : joining[s] # NoOne => pc[s] = "join"
  /\ \A s \in Stopper : pc[s] \in {"join"} \cup PastJoin => slot = NoOne
  /\ ~cut =>
       /\ \A w \in Watchdog : Live(w) =>
            slot = w \/ \E s \in Stopper : pc[s] = "join" /\ joining[s] = w
       /\ \A v, w \in Watchdog : Live(v) /\ Live(w) => v = w
       /\ \A s \in Stopper : pc[s] \in PastJoin => \A w \in Watchdog : ~Live(w)

(* As on the desktop, a stopper that is past its join shares the session with no watchdog. *)
LEMMA SupervisorCorrect == Spec => []SupervisorInv
<1>1. Init => SupervisorInv
  BY TasksAssumption DEF Init, SupervisorInv, Live, Cleared, PastJoin, Task, Stopper
<1>2. TypeOK /\ LockInv /\ SupervisorInv /\ [Next]_vars => SupervisorInv'
  <2> SUFFICES ASSUME TypeOK, LockInv, SupervisorInv, [Next]_vars PROVE SupervisorInv'
    OBVIOUS
  <2>0. /\ pc \in [Task -> HandlerPc \cup CleanerPc \cup WatchdogPc]
        /\ op \in Task \cup {NoOne}
        /\ \A h \in Handler : pc[h] \in HandlerPc
        /\ pc[Cleaner] \in CleanerPc
        /\ \A w \in Watchdog : pc[w] \in WatchdogPc
        /\ slot \in Watchdog \cup {NoOne}
        /\ joining \in [Stopper -> Watchdog \cup {NoOne}]
        /\ cut \in BOOLEAN
    BY DEF TypeOK
  <2> USE TasksAssumption, <2>0 DEF LockInv, LockedPc, SupervisorInv, Live, Cleared,
        PastJoin, Task, Stopper, HandlerPc, CleanerPc, WatchdogPc
  <2>1. ASSUME NEW h \in Handler, HandlerNext(h)  PROVE SupervisorInv'
    <3>1. ASSUME NEW r \in Request, Ask(h, r)  PROVE SupervisorInv'
      BY <3>1 DEF Ask, Goto, tunnel, shown, calls
    <3>2. CASE Refused(h)
      BY <3>2 DEF Refused, Replied, tunnel, shown, calls, Goto, NoRequest
    <3>3. CASE Begin(h)
      BY <3>3 DEF Begin, Lock, AbortWatchdog, tunnel, shown, calls, Goto, Live
    <3>4. CASE DisconnectReplied(h)
      BY <3>4 DEF DisconnectReplied, Replied, FinishedAt, tunnel, calls, Goto, NoRequest
    <3>5. CASE ReconnectPauses(h)
      BY <3>5 DEF ReconnectPauses, Goto, FinishedAt, tunnel, calls
    <3>6. CASE ReconnectResumes(h)
      BY <3>6 DEF ReconnectResumes, Goto, tunnel, shown, calls
    <3>7. CASE ConnectCleared(h)
      BY <3>7 DEF ConnectCleared, Goto, FinishedAt, tunnel, calls
    <3>8. CASE Prepared(h)
      BY <3>8 DEF Prepared, Goto, tunnel, shown, calls
    <3>9. CASE StartCall(h)
      BY <3>9 DEF StartCall, tasks, tunnel, shown
    <3>10. CASE CallAnswered(h)
      BY <3>10 DEF CallAnswered, tasks, tunnel, shown
    <3>11. CASE CallsStarted(h)
      BY <3>11 DEF CallsStarted, Goto, tunnel, shown
    <3>12. CASE ConnectFails(h)
      BY <3>12 DEF ConnectFails, Replied, DropCalls, tunnel, Goto, NoRequest
    <3>13. CASE Spawn(h)
      BY <3>13 DEF Spawn, Live, NoRequest
    <3>14. CASE Drop(h)
      <4>0. /\ pc' = [pc EXCEPT ![h] = "idle"]
            /\ \A s \in Stopper : joining'[s] = IF s = h THEN NoOne ELSE joining[s]
            /\ slot' = slot
            /\ cut' = (cut \/ op = h)
        BY <3>14 DEF Drop, Replied, Joined, Goto
      <4>1. CASE op = h
        <5>1. cut'
          BY <4>0, <4>1
        <5>2. /\ \A s \in Stopper : joining'[s] # NoOne => pc'[s] = "join"
              /\ \A s \in Stopper : pc'[s] \in {"join"} \cup PastJoin => slot' = NoOne
          BY <4>0
        <5> QED BY <5>1, <5>2
      <4>2. CASE op # h
        BY <4>0, <4>2
      <4> QED BY <4>1, <4>2
    <3> HIDE DEF LockInv, LockedPc, SupervisorInv, Live, Cleared, PastJoin, Task, Stopper,
           HandlerPc, CleanerPc, WatchdogPc
    <3> QED
      BY <2>1, <3>1, <3>2, <3>3, <3>4, <3>5, <3>6, <3>7, <3>8, <3>9, <3>10, <3>11,
        <3>12, <3>13, <3>14 DEF HandlerNext
  <2>2. ASSUME NEW w \in Watchdog, WatchdogNext(w)  PROVE SupervisorInv'
    <3>1. CASE Ready(w)
      BY <3>1 DEF Ready, Goto, tunnel, shown, calls
    <3>2. CASE TimesOut(w)
      BY <3>2 DEF TimesOut, Goto, tunnel, calls
    <3>3. CASE LockToStart(w)
      BY <3>3 DEF LockToStart, Goto, Lock, tunnel, shown, calls
    <3>4. CASE TunStarts(w)
      BY <3>4 DEF TunStarts, Goto, shown, calls
    <3>5. CASE TunFails(w)
      BY <3>5 DEF TunFails, Goto, tunnel, shown, calls
    <3>6. CASE Announce(w)
      BY <3>6 DEF Announce, Goto, tunnel, calls
    <3>7. CASE SeeStopped(w)
      BY <3>7 DEF SeeStopped, Goto, tunnel, shown, calls
    <3>8. CASE LockToFinish(w)
      BY <3>8 DEF LockToFinish, Goto, Lock, tunnel, shown, calls
    <3>9. CASE WatchdogFinished(w)
      BY <3>9 DEF WatchdogFinished, Goto, FinishedAt, tunnel, calls
    <3>10. CASE DiesAborted(w)
      BY <3>10 DEF DiesAborted, Goto, shown, AwaitsUnlocked, AwaitsLocked, calls
    <3> HIDE DEF LockInv, LockedPc, SupervisorInv, Live, Cleared, PastJoin, Task, Stopper,
           HandlerPc, CleanerPc, WatchdogPc
    <3> QED
      BY <2>2, <3>1, <3>2, <3>3, <3>4, <3>5, <3>6, <3>7, <3>8, <3>9, <3>10 DEF
        WatchdogNext
  <2>3. ASSUME NEW t \in Task, TeardownNext(t)  PROVE SupervisorInv'
    <3>1. CASE StopTun(t)
      BY <3>1 DEF StopTun, Goto, Joined, Live, shown, calls
    <3>2. CASE TunStopped(t)
      BY <3>2 DEF TunStopped, Goto, shown, calls
    <3>3. CASE KillCore(t)
      BY <3>3 DEF KillCore, Goto, shown, calls
    <3>4. CASE FinishCall(t)
      BY <3>4 DEF FinishCall, Closes, tasks, tunnel, shown, calls
    <3> HIDE DEF LockInv, LockedPc, SupervisorInv, Live, Cleared, PastJoin, Task, Stopper,
           HandlerPc, CleanerPc, WatchdogPc
    <3> QED
      BY <2>3, <3>1, <3>2, <3>3, <3>4 DEF TeardownNext
  <2>4. CASE FinishDropped
    BY <2>4 DEF FinishDropped, Closes, tasks, tunnel, shown
  <2>5. CASE Signal
    BY <2>5 DEF Signal, Goto, tunnel, shown, calls
  <2>6. CASE BeginCleanup
    BY <2>6 DEF BeginCleanup, Lock, AbortWatchdog, shown, calls, Goto, Live
  <2>7. CASE CleanupDone
    BY <2>7 DEF CleanupDone, Goto, FinishedAt, tunnel, shown, calls
  <2>8. CASE CoreExits
    BY <2>8 DEF CoreExits, tasks, shown, calls
  <2>9. CASE BridgeEnds
    BY <2>9 DEF BridgeEnds, tasks, calls
  <2>10. CASE Terminated
    BY <2>10 DEF Terminated, Live, vars, tasks, tunnel, shown, calls
  <2>11. CASE UNCHANGED vars
    BY <2>11 DEF vars, tasks, tunnel, shown, calls
  <2> HIDE DEF LockInv, LockedPc, SupervisorInv, Live, Cleared, PastJoin, Task, Stopper,
           HandlerPc, CleanerPc, WatchdogPc
  <2> QED
    BY <2>1, <2>2, <2>3, <2>4, <2>5, <2>6, <2>7, <2>8, <2>9, <2>10, <2>11 DEF Next
<1>3. QED
  BY <1>1, <1>2, TypeCorrect, LockCorrect, PTL DEF Spec

-----------------------------------------------------------------------------
\* A watchdog that has still to open the TUN finds a core for it.
CoreInv == ~cut => \A w \in Watchdog : pc[w] \in {"watch", "lock", "start"} => core # "none"

(* The watchdog does not look at the core again once it has the lock. It need not: whoever *)
(* removes the core has seen the watchdog's end first.                                     *)
LEMMA CoreCorrect == Spec => []CoreInv
<1>1. Init => CoreInv
  BY TasksAssumption DEF Init, SupervisorInv, CoreInv, Live, Cleared, PastJoin, Task, Stopper
<1>2. TypeOK /\ LockInv /\ SupervisorInv /\ CoreInv /\ [Next]_vars => CoreInv'
  <2> SUFFICES ASSUME TypeOK, LockInv, SupervisorInv, CoreInv, [Next]_vars PROVE CoreInv'
    OBVIOUS
  <2>0. /\ pc \in [Task -> HandlerPc \cup CleanerPc \cup WatchdogPc]
        /\ op \in Task \cup {NoOne}
        /\ \A h \in Handler : pc[h] \in HandlerPc
        /\ pc[Cleaner] \in CleanerPc
        /\ \A w \in Watchdog : pc[w] \in WatchdogPc
        /\ core \in {"none", "alive", "exited"}
        /\ cut \in BOOLEAN
    BY DEF TypeOK
  <2> USE TasksAssumption, <2>0 DEF LockInv, LockedPc, SupervisorInv, CoreInv, Live,
        Cleared, PastJoin, Task, Stopper, HandlerPc, CleanerPc, WatchdogPc
  <2>1. ASSUME NEW h \in Handler, HandlerNext(h)  PROVE CoreInv'
    <3>1. ASSUME NEW r \in Request, Ask(h, r)  PROVE CoreInv'
      BY <3>1 DEF Ask, Goto, tunnel, shown, calls
    <3>2. CASE Refused(h)
      BY <3>2 DEF Refused, Replied, tunnel, shown, calls, Goto, NoRequest
    <3>3. CASE Begin(h)
      BY <3>3 DEF Begin, Lock, AbortWatchdog, tunnel, shown, calls, Goto, Live
    <3>4. CASE DisconnectReplied(h)
      BY <3>4 DEF DisconnectReplied, Replied, FinishedAt, tunnel, calls, Goto, NoRequest
    <3>5. CASE ReconnectPauses(h)
      BY <3>5 DEF ReconnectPauses, Goto, FinishedAt, tunnel, calls
    <3>6. CASE ReconnectResumes(h)
      BY <3>6 DEF ReconnectResumes, Goto, tunnel, shown, calls
    <3>7. CASE ConnectCleared(h)
      BY <3>7 DEF ConnectCleared, Goto, FinishedAt, tunnel, calls
    <3>8. CASE Prepared(h)
      BY <3>8 DEF Prepared, Goto, tunnel, shown, calls
    <3>9. CASE StartCall(h)
      BY <3>9 DEF StartCall, tasks, tunnel, shown
    <3>10. CASE CallAnswered(h)
      BY <3>10 DEF CallAnswered, tasks, tunnel, shown
    <3>11. CASE CallsStarted(h)
      BY <3>11 DEF CallsStarted, Goto, tunnel, shown
    <3>12. CASE ConnectFails(h)
      BY <3>12 DEF ConnectFails, Replied, DropCalls, tunnel, Goto, NoRequest
    <3>13. CASE Spawn(h)
      BY <3>13 DEF Spawn, Live, NoRequest
    <3>14. CASE Drop(h)
      BY <3>14 DEF Drop, Replied, Joined, Goto, NoRequest
    <3> HIDE DEF LockInv, LockedPc, SupervisorInv, CoreInv, Live, Cleared, PastJoin, Task,
           Stopper, HandlerPc, CleanerPc, WatchdogPc
    <3> QED
      BY <2>1, <3>1, <3>2, <3>3, <3>4, <3>5, <3>6, <3>7, <3>8, <3>9, <3>10, <3>11,
        <3>12, <3>13, <3>14 DEF HandlerNext
  <2>2. ASSUME NEW w \in Watchdog, WatchdogNext(w)  PROVE CoreInv'
    <3>1. CASE Ready(w)
      BY <3>1 DEF Ready, Goto, tunnel, shown, calls
    <3>2. CASE TimesOut(w)
      BY <3>2 DEF TimesOut, Goto, tunnel, calls
    <3>3. CASE LockToStart(w)
      BY <3>3 DEF LockToStart, Goto, Lock, tunnel, shown, calls
    <3>4. CASE TunStarts(w)
      BY <3>4 DEF TunStarts, Goto, shown, calls
    <3>5. CASE TunFails(w)
      BY <3>5 DEF TunFails, Goto, tunnel, shown, calls
    <3>6. CASE Announce(w)
      BY <3>6 DEF Announce, Goto, tunnel, calls
    <3>7. CASE SeeStopped(w)
      BY <3>7 DEF SeeStopped, Goto, tunnel, shown, calls
    <3>8. CASE LockToFinish(w)
      BY <3>8 DEF LockToFinish, Goto, Lock, tunnel, shown, calls
    <3>9. CASE WatchdogFinished(w)
      BY <3>9 DEF WatchdogFinished, Goto, FinishedAt, tunnel, calls
    <3>10. CASE DiesAborted(w)
      BY <3>10 DEF DiesAborted, Goto, shown, AwaitsUnlocked, AwaitsLocked, calls
    <3> HIDE DEF LockInv, LockedPc, SupervisorInv, CoreInv, Live, Cleared, PastJoin, Task,
           Stopper, HandlerPc, CleanerPc, WatchdogPc
    <3> QED
      BY <2>2, <3>1, <3>2, <3>3, <3>4, <3>5, <3>6, <3>7, <3>8, <3>9, <3>10 DEF
        WatchdogNext
  <2>3. ASSUME NEW t \in Task, TeardownNext(t)  PROVE CoreInv'
    <3>1. CASE StopTun(t)
      BY <3>1 DEF StopTun, Goto, Joined, Live, shown, calls
    <3>2. CASE TunStopped(t)
      BY <3>2 DEF TunStopped, Goto, shown, calls
    <3>3. CASE KillCore(t)
      BY <3>3 DEF KillCore, Goto, shown, calls
    <3>4. CASE FinishCall(t)
      BY <3>4 DEF FinishCall, Closes, tasks, tunnel, shown, calls
    <3> HIDE DEF LockInv, LockedPc, SupervisorInv, CoreInv, Live, Cleared, PastJoin, Task,
           Stopper, HandlerPc, CleanerPc, WatchdogPc
    <3> QED
      BY <2>3, <3>1, <3>2, <3>3, <3>4 DEF TeardownNext
  <2>4. CASE FinishDropped
    BY <2>4 DEF FinishDropped, Closes, tasks, tunnel, shown
  <2>5. CASE Signal
    BY <2>5 DEF Signal, Goto, tunnel, shown, calls
  <2>6. CASE BeginCleanup
    BY <2>6 DEF BeginCleanup, Lock, AbortWatchdog, shown, calls, Goto, Live
  <2>7. CASE CleanupDone
    BY <2>7 DEF CleanupDone, Goto, FinishedAt, tunnel, shown, calls
  <2>8. CASE CoreExits
    BY <2>8 DEF CoreExits, tasks, shown, calls
  <2>9. CASE BridgeEnds
    BY <2>9 DEF BridgeEnds, tasks, calls
  <2>10. CASE Terminated
    BY <2>10 DEF Terminated, Live, vars, tasks, tunnel, shown, calls
  <2>11. CASE UNCHANGED vars
    BY <2>11 DEF vars, tasks, tunnel, shown, calls
  <2> HIDE DEF LockInv, LockedPc, SupervisorInv, CoreInv, Live, Cleared, PastJoin, Task,
           Stopper, HandlerPc, CleanerPc, WatchdogPc
  <2> QED
    BY <2>1, <2>2, <2>3, <2>4, <2>5, <2>6, <2>7, <2>8, <2>9, <2>10, <2>11 DEF Next
<1>3. QED
  BY <1>1, <1>2, TypeCorrect, LockCorrect, SupervisorCorrect, PTL DEF Spec

-----------------------------------------------------------------------------
(* OpenWrtVpn implements TunnelSession until a handler is cut off in its critical section. *)
(* Spawn starts a core, TunStarts opens the tunnel, StopTun stops the flow, TunStopped     *)
(* closes the tunnel, KillCore removes the core; a task dropped or aborted inside of one   *)
(* of the last two takes that step itself, and every other step stutters.                  *)
THEOREM Refinement == Spec => ImplementsTunnelSession
<1> DEFINE Goal == [cut \/ Session!Next]_(Session!vars)
<1>1. Init => Session!Init
  BY DEF Init, Session!Init
<1>2. TypeOK /\ LockInv /\ GroundInv /\ CoreInv /\ [Next]_vars => Goal
  <2> SUFFICES ASSUME TypeOK, LockInv, GroundInv, CoreInv, [Next]_vars, ~cut
               PROVE  Goal
    OBVIOUS
  <2>0. /\ core \in {"none", "alive", "exited"}
        /\ session \in {"none", "up", "ended"}
        /\ running \in BOOLEAN
    BY DEF TypeOK
  <2>a. /\ \A t \in Task : pc[t] \in {"tun", "kill"} => running = FALSE
        /\ \A t \in Task : pc[t] = "kill" => session = "none"
        /\ \A t \in Task : pc[t] = "spawn" => core = "none" /\ session = "none"
        /\ \A w \in Watchdog : pc[w] = "start" => core # "none"
        /\ Handler \subseteq Task /\ Watchdog \subseteq Task
    BY <2>0 DEF GroundInv, Cleared, CoreInv, Task, Stopper
  <2>stutter. UNCHANGED <<core, session, running>> => Goal
    BY DEF Session!vars
  <2>1. ASSUME NEW h \in Handler, HandlerNext(h)  PROVE Goal
    <3>1. ASSUME NEW r \in Request, Ask(h, r)  PROVE Goal
      BY <3>1, <2>stutter DEF Ask, tunnel
    <3>2. CASE Refused(h)
      BY <3>2, <2>stutter DEF Refused, tunnel
    <3>3. CASE Begin(h)
      BY <3>3, <2>stutter DEF Begin, tunnel
    <3>4. CASE DisconnectReplied(h)
      BY <3>4, <2>stutter DEF DisconnectReplied, tunnel
    <3>5. CASE ReconnectPauses(h)
      BY <3>5, <2>stutter DEF ReconnectPauses, tunnel
    <3>6. CASE ReconnectResumes(h)
      BY <3>6, <2>stutter DEF ReconnectResumes, tunnel
    <3>7. CASE ConnectCleared(h)
      BY <3>7, <2>stutter DEF ConnectCleared, tunnel
    <3>8. CASE Prepared(h)
      BY <3>8, <2>stutter DEF Prepared, tunnel
    <3>9. CASE StartCall(h)
      BY <3>9, <2>stutter DEF StartCall, tunnel
    <3>10. CASE CallAnswered(h)
      BY <3>10, <2>stutter DEF CallAnswered, tunnel
    <3>11. CASE CallsStarted(h)
      BY <3>11, <2>stutter DEF CallsStarted, tunnel
    <3>12. CASE ConnectFails(h)
      BY <3>12, <2>stutter DEF ConnectFails, tunnel
    <3>13. CASE Spawn(h)
      BY <3>13, <2>0, <2>a DEF Spawn, Session!Next, Session!StartCore
    <3>14. CASE Drop(h)
      <4>0. /\ session' = IF pc[h] = "tun" THEN "none" ELSE session
            /\ core' = IF pc[h] = "kill" THEN "none" ELSE core
            /\ running' = running
        BY <3>14 DEF Drop
      <4>1. CASE pc[h] = "tun"
        BY <4>0, <4>1, <2>a DEF Session!Next, Session!CloseTunnel
      <4>2. CASE pc[h] = "kill"
        BY <4>0, <4>2, <2>a DEF Session!Next, Session!RemoveCore
      <4>3. CASE pc[h] \notin {"tun", "kill"}
        BY <4>0, <4>3, <2>stutter
      <4> QED BY <4>1, <4>2, <4>3
    <3> QED
      BY <2>1, <3>1, <3>2, <3>3, <3>4, <3>5, <3>6, <3>7, <3>8, <3>9, <3>10, <3>11,
        <3>12, <3>13, <3>14 DEF HandlerNext
  <2>2. ASSUME NEW w \in Watchdog, WatchdogNext(w)  PROVE Goal
    <3>1. CASE Ready(w)
      BY <3>1, <2>stutter DEF Ready, tunnel
    <3>2. CASE TimesOut(w)
      BY <3>2, <2>stutter DEF TimesOut, tunnel
    <3>3. CASE LockToStart(w)
      BY <3>3, <2>stutter DEF LockToStart, tunnel
    <3>4. CASE TunStarts(w)
      BY <3>4, <2>0, <2>a DEF TunStarts, Session!Next, Session!OpenTunnel
    <3>5. CASE TunFails(w)
      BY <3>5, <2>stutter DEF TunFails, tunnel
    <3>6. CASE Announce(w)
      BY <3>6, <2>stutter DEF Announce, tunnel
    <3>7. CASE SeeStopped(w)
      BY <3>7, <2>stutter DEF SeeStopped, tunnel
    <3>8. CASE LockToFinish(w)
      BY <3>8, <2>stutter DEF LockToFinish, tunnel
    <3>9. CASE WatchdogFinished(w)
      BY <3>9, <2>stutter DEF WatchdogFinished, tunnel
    <3>10. CASE DiesAborted(w)
      <4>0. /\ session' = IF pc[w] = "tun" THEN "none" ELSE session
            /\ core' = IF pc[w] = "kill" THEN "none" ELSE core
            /\ running' = running
        BY <3>10 DEF DiesAborted
      <4>1. CASE pc[w] = "tun"
        BY <4>0, <4>1, <2>a DEF Session!Next, Session!CloseTunnel
      <4>2. CASE pc[w] = "kill"
        BY <4>0, <4>2, <2>a DEF Session!Next, Session!RemoveCore
      <4>3. CASE pc[w] \notin {"tun", "kill"}
        BY <4>0, <4>3, <2>stutter
      <4> QED BY <4>1, <4>2, <4>3
    <3> QED
      BY <2>2, <3>1, <3>2, <3>3, <3>4, <3>5, <3>6, <3>7, <3>8, <3>9, <3>10 DEF
        WatchdogNext
  <2>3. ASSUME NEW t \in Task, TeardownNext(t)  PROVE Goal
    <3>1. CASE StopTun(t)
      BY <3>1, <2>0, <2>a DEF StopTun, Session!Next, Session!StopFlow
    <3>2. CASE TunStopped(t)
      BY <3>2, <2>0, <2>a DEF TunStopped, Session!Next, Session!CloseTunnel
    <3>3. CASE KillCore(t)
      BY <3>3, <2>0, <2>a DEF KillCore, Session!Next, Session!RemoveCore
    <3>4. CASE FinishCall(t)
      BY <3>4, <2>stutter DEF FinishCall, tunnel
    <3> QED
      BY <2>3, <3>1, <3>2, <3>3, <3>4 DEF TeardownNext
  <2>4. CASE FinishDropped
    BY <2>4, <2>stutter DEF FinishDropped, tunnel
  <2>5. CASE Signal
    BY <2>5, <2>stutter DEF Signal, tunnel
  <2>6. CASE BeginCleanup
    BY <2>6, <2>stutter DEF BeginCleanup
  <2>7. CASE CleanupDone
    BY <2>7, <2>stutter DEF CleanupDone, tunnel
  <2>8. CASE CoreExits
    BY <2>8, <2>0, <2>a DEF CoreExits, tasks, Session!Next, Session!CoreExits
  <2>9. CASE BridgeEnds
    BY <2>9, <2>0, <2>a DEF BridgeEnds, tasks, Session!Next, Session!TunnelEnds
  <2>10. CASE Terminated
    BY <2>10, <2>stutter DEF Terminated, vars, tunnel
  <2>11. CASE UNCHANGED vars
    BY <2>11, <2>stutter DEF vars, tunnel
  <2> QED
    BY <2>1, <2>2, <2>3, <2>4, <2>5, <2>6, <2>7, <2>8, <2>9, <2>10, <2>11 DEF Next
<1>3. QED
  BY <1>1, <1>2, TypeCorrect, LockCorrect, GroundInvariant, CoreCorrect, PTL
     DEF Spec, ImplementsTunnelSession
=============================================================================
