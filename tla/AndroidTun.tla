----------------------------- MODULE AndroidTun -----------------------------
(***************************************************************************)
(* LaLuneVpnService of the Android app: the coroutine that reads the log   *)
(* of the core and opens the TUN, the teardowns that the screen launches,  *)
(* and START, STOP, onDestroy and the screen receiver on the main thread.  *)
(*                                                                         *)
(* establishTun and the teardowns exclude each other with tunnelMutex;     *)
(* stopFlow and the receiver do not take it. builder.establish() hops to   *)
(* the main thread and back, where a cancelled coroutine gets no result.   *)
(***************************************************************************)
EXTENDS Naturals

CONSTANTS
  Flow,        \* coroutines running watchLogsAndManageTunnel
  Closer,      \* coroutines launched by ACTION_SCREEN_OFF
  NoFlow,
  Required,    \* REQUIRED_ACTIVE_TICKS
  MaxFaults    \* bound on the times the interface or the socket fails

ASSUME AndroidAssumption ==
  /\ NoFlow \notin Flow \cup Closer /\ Flow \cap Closer = {}
  /\ Required \in Nat \ {0} /\ MaxFaults \in Nat

VARIABLES
  service,     \* "none", "alive", or "leaving" after stopSelf
  running, screen, established, establishing,  \* fields of the service
  ticks, rescan,
  held,        \* vpnInterface is open
  known,       \* detectedTunIP is set
  bridged,     \* the bridges of the open interface go on
  own,         \* the interface has been given the address of the log, not the default one
  raced,       \* a write came too late for its session: see TunReturns
  mutex,       \* owner of tunnelMutex, or NoFlow
  flowJob,     \* the coroutine startFlow has launched last
  at, result,  \* per flow: where it is, and what establishTun returned
  cancelled,   \* flows whose job is cancelled
  closing,     \* per closer: where it is
  active,      \* the core serves: its lines say so, one after the other
  tail, unread, broke, \* active lines at the end of logs.log; of those unread;
                       \* there is an inactive line among the unread
  whole,       \* lastOffset = 0: the flow has yet to read from the start
  faults

fields == <<running, established, establishing, ticks, rescan, known>>
interface == <<held, bridged, own, raced>>
tasks == <<mutex, flowJob, at, result, cancelled, closing>>
log == <<active, tail, unread, broke, whole>>
androidVars == <<service, screen, fields, interface, tasks, log, faults>>

Upto(n) == IF n < Required THEN n ELSE Required

\* vpnInterface and its bridges, as teardownTunnelOnlyLocked and stopFlow leave them.
Closed == established' = FALSE /\ held' = FALSE /\ bridged' = FALSE /\ own' = FALSE

\* stopFlow's assignments.
Down ==
  /\ Closed /\ running' = FALSE /\ establishing' = FALSE
  /\ ticks' = 0 /\ known' = FALSE /\ raced' = FALSE

\* The fields as the next instance of the service will have them.
Fresh == Down /\ rescan' = FALSE

AndroidInit ==
  /\ service = "none" /\ screen \in BOOLEAN
  /\ running = FALSE /\ established = FALSE /\ establishing = FALSE
  /\ ticks = 0 /\ rescan = FALSE /\ known = FALSE
  /\ held = FALSE /\ bridged = FALSE /\ own = FALSE /\ raced = FALSE
  /\ mutex = NoFlow /\ flowJob = NoFlow
  /\ at = [f \in Flow |-> "none"] /\ result = [f \in Flow |-> FALSE]
  /\ cancelled = {} /\ closing = [c \in Closer |-> "none"]
  /\ active = FALSE /\ tail = 0 /\ unread = 0 /\ broke = FALSE /\ whole = FALSE
  /\ faults = 0

-----------------------------------------------------------------------------
(* The main thread. Its handlers do not interrupt one another.             *)

\* Also the sticky restart after a kill, with an intent that says nothing.
Create ==
  /\ service = "none" /\ \A f \in Flow : at[f] = "none"
  /\ service' = "alive"
  /\ UNCHANGED <<screen, fields, interface, tasks, log, faults>>

\* A START may reach an instance that has called stopSelf: on its way to onDestroy, or one
\* that goes on, started again before the system has destroyed it.
StartFlow(f) ==
  /\ service # "none" /\ ~running /\ at[f] = "none"
  /\ service' \in {service, "alive"}
  /\ running' = TRUE
  /\ flowJob' = f /\ at' = [at EXCEPT ![f] = "poll"]
  /\ cancelled' = (cancelled \cup {flowJob}) \ {f, NoFlow}
  /\ whole' = TRUE /\ unread' = tail /\ broke' = TRUE
  /\ UNCHANGED <<screen, established, establishing, ticks, rescan, known, interface,
                 mutex, result, closing, active, tail, faults>>

NoJob == cancelled' = (cancelled \cup {flowJob}) \ {NoFlow} /\ flowJob' = NoFlow

\* The mutated form leaves the flag of an establishTun under way to its flow.
StopFlowStillEstablishing ==
  /\ service # "none"
  /\ Closed /\ running' = FALSE
  /\ ticks' = 0 /\ known' = FALSE /\ raced' = FALSE /\ NoJob
  /\ service' = "leaving"
  /\ UNCHANGED <<screen, establishing, rescan, mutex, at, result, closing, log, faults>>

StopFlow ==
  /\ service # "none"
  /\ Down /\ NoJob
  /\ service' = "leaving"
  /\ UNCHANGED <<screen, rescan, mutex, at, result, closing, log, faults>>

\* onDestroy: stopFlow once more, then scope.cancel(). What is suspended ends.
Destroy ==
  /\ service = "leaving"
  /\ Fresh /\ NoJob
  /\ service' = "none"
  /\ at' = [f \in Flow |-> IF at[f] \in {"poll", "lock"} THEN "none" ELSE at[f]]
  /\ closing' = [c \in Closer |-> "none"]
  /\ UNCHANGED <<screen, mutex, result, log, faults>>

ScreenOff(c) ==
  /\ screen /\ closing[c] = "none"
  /\ screen' = FALSE
  /\ closing' = IF service = "none" THEN closing ELSE [closing EXCEPT ![c] = "lock"]
  /\ UNCHANGED <<service, fields, interface, mutex, flowJob, at, result, cancelled, log, faults>>

\* consecutiveActiveTicks, detectedTunIP and rescanLogsRequested. A flow on its way into
\* establishTun has read the address already.
Rescan ==
  /\ ticks' = 0 /\ known' = FALSE /\ rescan' = TRUE
  /\ raced' = (raced \/ \E f \in Flow : at[f] = "lock")

ScreenOn ==
  /\ ~screen /\ screen' = TRUE
  /\ IF service = "none" THEN UNCHANGED <<ticks, known, rescan, raced>> ELSE Rescan
  /\ UNCHANGED <<service, running, established, establishing, held, bridged, own, tasks, log,
                 faults>>

-----------------------------------------------------------------------------
(* The teardown coroutine of ACTION_SCREEN_OFF.                            *)

CloseTun(c) ==
  /\ closing[c] = "lock" /\ mutex = NoFlow
  /\ Closed
  /\ closing' = [closing EXCEPT ![c] = "reset"]
  /\ UNCHANGED <<service, screen, running, establishing, ticks, rescan, known, raced,
                 mutex, flowJob, at, result, cancelled, log, faults>>

\* After the mutex, at any time.
ResetScan(c) ==
  /\ closing[c] = "reset"
  /\ closing' = [closing EXCEPT ![c] = "none"]
  /\ Rescan
  /\ UNCHANGED <<service, screen, running, established, establishing, held, bridged, own,
                 mutex, flowJob, at, result, cancelled, log, faults>>

-----------------------------------------------------------------------------
(* watchLogsAndManageTunnel and establishTun.                              *)

Goto(f, place) == at' = [at EXCEPT ![f] = place]

\* What the lines read make of the ticks: all of the log after a rescan.
Counted ==
  IF established \/ establishing THEN IF rescan THEN 0 ELSE ticks
  ELSE IF rescan THEN tail
  ELSE Upto((IF broke THEN 0 ELSE ticks) + unread)

\* The core has logged its parameters before its first statistics: who reads the log from
\* the start has the address.
PollLogs(f) ==
  /\ at[f] = "poll" /\ f \notin cancelled /\ running /\ screen
  /\ ticks' = Counted /\ rescan' = FALSE
  /\ known' = (known \/ rescan \/ whole)
  /\ unread' = 0 /\ broke' = FALSE /\ whole' = FALSE
  /\ Goto(f, "ready")
  /\ UNCHANGED <<service, screen, running, established, establishing, interface,
                 mutex, flowJob, result, cancelled, closing, active, tail, faults>>

\* readyForTun. A STOP, also with a START after it, may have come since the poll.
Decide(f) ==
  /\ at[f] = "ready"
  /\ IF ~established /\ ~establishing /\ ticks >= Required
       THEN /\ establishing' = TRUE /\ Goto(f, "lock")
            /\ raced' = (raced \/ f \in cancelled)
       ELSE Goto(f, "poll") /\ UNCHANGED <<establishing, raced>>
  /\ UNCHANGED <<service, screen, running, established, ticks, rescan, known, held, bridged,
                 own, mutex, flowJob, result, cancelled, closing, log, faults>>

\* The end of its while loop, or the cancelled delay in it, or lock() where it has to wait
\* (for a closer too, whose teardown is one step here).
FlowEnds(f) ==
  /\ at[f] \in {"poll", "lock"} /\ (f \in cancelled \/ (~running /\ at[f] = "poll"))
  /\ Goto(f, "none") /\ cancelled' = cancelled \ {f}
  /\ UNCHANGED <<service, screen, fields, interface, mutex, flowJob, result, closing, log,
                 faults>>

Leaves(f, answer) ==
  /\ mutex' = NoFlow /\ Goto(f, "after") /\ result' = [result EXCEPT ![f] = answer]

\* The mutated form does not look at the screen again.
EnterUnseeing(f) ==
  /\ at[f] = "lock" /\ mutex = NoFlow
  /\ IF established \/ ~running
       THEN Leaves(f, FALSE) /\ UNCHANGED <<established, held, bridged, own>>
       ELSE /\ mutex' = f /\ Goto(f, "build") /\ UNCHANGED result
            /\ established' = FALSE /\ held' = FALSE /\ bridged' = FALSE /\ own' = known
  /\ UNCHANGED <<service, screen, running, establishing, ticks, rescan, known, raced,
                 flowJob, cancelled, closing, log, faults>>

\* withLock, which looks at a cancellation only when it has to wait; the check; the interface
\* that is left closed; and detectedTunIP, or else the default address.
Enter(f) ==
  /\ at[f] = "lock" /\ mutex = NoFlow
  /\ IF established \/ ~running \/ ~screen
       THEN Leaves(f, FALSE) /\ UNCHANGED <<established, held, bridged, own>>
       ELSE /\ mutex' = f /\ Goto(f, "build") /\ UNCHANGED result
            /\ established' = FALSE /\ held' = FALSE /\ bridged' = FALSE /\ own' = known
  /\ UNCHANGED <<service, screen, running, establishing, ticks, rescan, known, raced,
                 flowJob, cancelled, closing, log, faults>>

\* builder.establish() on the main thread.
Build(f) ==
  /\ at[f] = "build" /\ f \notin cancelled
  /\ Goto(f, "built")
  /\ UNCHANGED <<service, screen, fields, interface, mutex, flowJob, result, cancelled,
                 closing, log, faults>>

\* No permission, no socket, or cancelled on the way to the main thread or back,
\* where the coroutine gets CancellationException instead of the interface.
BuildFails(f) ==
  /\ at[f] \in {"build", "built"}
  /\ IF f \in cancelled THEN UNCHANGED faults
     ELSE faults < MaxFaults /\ faults' = faults + 1
  /\ Leaves(f, FALSE)
  /\ Closed
  /\ UNCHANGED <<service, screen, running, establishing, ticks, rescan, known, raced,
                 flowJob, cancelled, closing, log>>

\* The coroutine is back: no cancellation reaches it before it has published.
Publish(f) ==
  /\ at[f] = "built" /\ f \notin cancelled
  /\ Goto(f, "publish")
  /\ UNCHANGED <<service, screen, fields, interface, mutex, flowJob, result, cancelled,
                 closing, log, faults>>

\* vpnInterface = iface, tunEstablished = true, and the bridges are launched. After onDestroy
\* the fields are those of an instance nobody has.
Published(f) ==
  /\ at[f] = "publish"
  /\ IF service = "none" THEN UNCHANGED <<established, held, bridged, raced>>
     ELSE /\ established' = TRUE /\ held' = TRUE /\ bridged' = TRUE
          /\ raced' = (raced \/ f \in cancelled)
  /\ Leaves(f, TRUE)
  /\ UNCHANGED <<service, screen, running, establishing, ticks, rescan, known, own,
                 flowJob, cancelled, closing, log, faults>>

\* tunToUdp and udpToTun look at isRunning.
BridgesEnd ==
  /\ bridged /\ ~running
  /\ bridged' = FALSE
  /\ UNCHANGED <<service, screen, fields, held, own, raced, tasks, log, faults>>

After(f) ==
  /\ at[f] = "after"
  /\ Goto(f, "poll") /\ result' = [result EXCEPT ![f] = FALSE]
  /\ establishing' = FALSE
  /\ IF result[f] /\ running /\ screen
       THEN UNCHANGED <<ticks, rescan>>
       ELSE /\ ticks' = IF running THEN 0 ELSE ticks
            /\ rescan' = (rescan \/ running)
  /\ UNCHANGED <<service, screen, running, established, known, interface,
                 mutex, flowJob, cancelled, closing, log, faults>>

-----------------------------------------------------------------------------
(* The core, and the process.                                              *)

\* A line of statistics: active or not.
Prints ==
  /\ tail' = IF active THEN Upto(tail + 1) ELSE 0
  /\ unread' = IF active THEN Upto(unread + 1) ELSE 0
  /\ broke' = (broke \/ ~active)
  /\ UNCHANGED <<service, screen, fields, interface, tasks, active, whole, faults>>

CoreTurns ==
  /\ active' = ~active
  /\ UNCHANGED <<service, screen, fields, interface, tasks, tail, unread, broke, whole, faults>>

Killed ==
  /\ service # "none"
  /\ service' = "none" /\ Fresh
  /\ mutex' = NoFlow /\ flowJob' = NoFlow /\ cancelled' = {}
  /\ at' = [f \in Flow |-> "none"] /\ result' = [f \in Flow |-> FALSE]
  /\ closing' = [c \in Closer |-> "none"]
  /\ UNCHANGED <<screen, log, faults>>

FlowNext(f) ==
  \/ PollLogs(f) \/ Decide(f) \/ FlowEnds(f) \/ Enter(f) \/ Build(f) \/ BuildFails(f)
  \/ Publish(f) \/ Published(f) \/ After(f)

AndroidNext ==
  \/ Create \/ StopFlow \/ Destroy \/ ScreenOn \/ Prints \/ CoreTurns \/ Killed \/ BridgesEnd
  \/ \E f \in Flow : StartFlow(f) \/ FlowNext(f)
  \/ \E c \in Closer : ScreenOff(c) \/ CloseTun(c) \/ ResetScan(c)

AndroidSpec == AndroidInit /\ [][AndroidNext]_androidVars

-----------------------------------------------------------------------------

FlagsOK ==
  /\ screen \in BOOLEAN /\ running \in BOOLEAN
  /\ established \in BOOLEAN /\ establishing \in BOOLEAN /\ rescan \in BOOLEAN

InterfaceOK ==
  /\ known \in BOOLEAN /\ held \in BOOLEAN /\ bridged \in BOOLEAN /\ own \in BOOLEAN
  /\ raced \in BOOLEAN

LogOK == active \in BOOLEAN /\ broke \in BOOLEAN /\ whole \in BOOLEAN

PlacesOK ==
  /\ service \in {"none", "alive", "leaving"}
  /\ ticks \in 0..Required /\ tail \in 0..Required /\ unread \in 0..Required
  /\ mutex \in Flow \cup {NoFlow} /\ flowJob \in Flow \cup {NoFlow} /\ cancelled \subseteq Flow
  /\ at \in [Flow -> {"none", "poll", "ready", "lock", "build", "built", "publish", "after"}]
  /\ result \in [Flow -> BOOLEAN] /\ closing \in [Closer -> {"none", "lock", "reset"}]
  /\ faults \in 0..MaxFaults

AndroidTypeOK == FlagsOK /\ InterfaceOK /\ LogOK /\ PlacesOK

\* "screen off: closing TUN only": once the teardowns that the screen has
\* launched are through, no TUN is open behind a dark screen, whichever
\* establishTun was under way when it went off.
ScreenOffCloses ==
  service # "none" /\ ~screen /\ (\A c \in Closer : closing[c] = "none") => ~held

\* "screen on: re-reading TUN params and reconnecting": while the session runs, the screen
\* is on and the core serves, the TUN comes back with the address of the log and with its
\* bridges, whatever teardowns and failed attempts have left, and a session stopped before it
\* in the same instance - unless a write came too late for its session (raced): the flow of
\* a stopped session published its interface or announced one, or a screen event took the
\* address from a flow about to enter establishTun.
TunReturns ==
  (service = "alive" /\ running /\ screen /\ active)
    ~> \/ established /\ bridged /\ own
       \/ raced \/ service # "alive" \/ ~running \/ ~screen \/ ~active

\* The third step of connecting opens the TUN with its UDP bridge and then counts the
\* connection as established: a TUN that counts for a running session has its bridges.
TunIsServed == running /\ established => bridged
=============================================================================
