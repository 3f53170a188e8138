----------------------------- MODULE DesktopVpn -----------------------------
(***************************************************************************)
(* The life of a VPN session in the desktop backend (Linux build):         *)
(* Backend/Desktop/src/api.rs (vpn_connect, vpn_disconnect, vpn_reconnect, *)
(* finish_vpn and the watchdog task vpn_connect spawns), vpn.rs (stop,     *)
(* stop_tun), state.rs (cleanup) and the bridge task of linux_tun.rs.      *)
(*                                                                         *)
(* HTTP handlers, watchdog tasks and the shutdown cleanup run on a         *)
(* multi-threaded tokio runtime and serialise on the mutex vpn.operation.  *)
(* An action is the code between two await points of one task; a task that *)
(* writes shared state outside the mutex has an action of its own for it.  *)
(***************************************************************************)
EXTENDS Naturals, FiniteSets

CONSTANTS
  Handler,     \* HTTP requests in flight at once
  Watchdog,    \* watchdog tasks; a finished one may be spawned again
  Cleaner,     \* the task that runs cleanup after a shutdown signal
  Call,        \* VK calls that calls.start can create for a session
  Other,       \* VK calls that vk_calls_start can report beside the sessions
  NoOne,
  ReadyTicks,  \* statistics lines with Active > 0 before the TUN starts
  PaperFlux,   \* whether a core may be PaperFlux's, ready with its first output
  MayDrop      \* whether a client may drop its request: hyper then drops the handler

ASSUME TasksAssumption ==
  /\ Handler \cap Watchdog = {}
  /\ Cleaner \notin Handler \cup Watchdog
  /\ NoOne \notin Handler \cup Watchdog \cup {Cleaner}

ASSUME TicksAssumption == ReadyTicks \in Nat \ {0}

ASSUME ChoicesAssumption == MayDrop \in BOOLEAN /\ PaperFlux \in BOOLEAN

ASSUME CallsAssumption == Call \cap Other = {}

Stopper == Handler \cup {Cleaner}   \* the tasks that call VpnRuntime::stop
Task == Stopper \cup Watchdog

VARIABLES
  op,        \* holder of vpn.operation
  pc,        \* where each task is
  req,       \* what each handler was asked for
  slot,      \* vpn.watchdog: the task whose JoinHandle is stored
  joining,   \* the aborted watchdog a stopper awaits
  aborted,   \* watchdogs whose abort was requested
  ticks,     \* consecutive_active_ticks of each watchdog
  core,      \* state.core
  session,   \* vpn.handle: no session, bridge running, bridge ended by itself
  running,   \* vpn.running
  socks,     \* state.socks5: the listener
  phase,     \* vpn.phase
  event,     \* the last status event <<connected, state>> on the event bus
  active,    \* state.active_vk_call_ids, of sessions and of other requests
  mine,      \* auto_api_call_ids of a connect handler
  ending,    \* the calls a task is finishing in stop_vk_calls
  open,      \* calls of sessions that VK has started and no one has tried to finish
  cut        \* a handler was dropped while it held the lock

tasks   == <<op, pc, req, slot, joining, aborted, ticks>>
tunnel  == <<core, session, running, socks>>
shown   == <<phase, event>>
calls   == <<active, mine, ending, open>>
vars    == <<tasks, tunnel, shown, calls, cut>>

Phase == {"disconnected", "connecting", "checking", "connected", "disconnecting", "error"}
StatusEvent == BOOLEAN \X Phase
Request == {"connect", "disconnect", "reconnect"}
NoRequest == "none"

HandlerPc == {"idle", "queued", "join", "tun", "kill", "calls", "prepare", "vk",
              "spawn", "abandon", "pause"}
CleanerPc == {"idle", "queued", "join", "tun", "kill", "stopped"}
WatchdogPc == {"dead", "watch", "lock", "late", "start", "announce", "poll", "relock",
               "stop", "tun", "kill", "calls"}

Live(w) == pc[w] # "dead"

Goto(t, label) == pc' = [pc EXCEPT ![t] = label]

Show(connected, state) ==
  /\ phase' = state
  /\ event' = <<connected, state>>

Init ==
  /\ op = NoOne
  /\ pc = [t \in Task |-> IF t \in Watchdog THEN "dead" ELSE "idle"]
  /\ req = [h \in Handler |-> NoRequest]
  /\ slot = NoOne
  /\ joining = [s \in Stopper |-> NoOne]
  /\ aborted = {}
  /\ ticks = [w \in Watchdog |-> 0]
  /\ core = "none"
  /\ session = "none"
  /\ running = FALSE
  /\ socks = FALSE
  /\ phase = "disconnected"
  /\ event = <<FALSE, "disconnected">>
  /\ active = {}
  /\ mine = [h \in Handler |-> {}]
  /\ ending = [t \in Task |-> {}]
  /\ open = {}
  /\ cut = FALSE

-----------------------------------------------------------------------------
(* A stopper takes the lock, aborts the watchdog and waits for its end.    *)

Ask(h, r) ==
  /\ pc[h] = "idle"
  /\ pc[Cleaner] # "stopped"
  /\ Goto(h, "queued")
  /\ req' = [req EXCEPT ![h] = r]
  /\ UNCHANGED <<op, slot, joining, aborted, ticks, tunnel, shown, calls, cut>>

Signal ==
  /\ pc[Cleaner] = "idle"
  /\ Goto(Cleaner, "queued")
  /\ UNCHANGED <<op, req, slot, joining, aborted, ticks, tunnel, shown, calls, cut>>

\* The request is answered or dropped.
Replied(h) ==
  /\ Goto(h, "idle")
  /\ req' = [req EXCEPT ![h] = NoRequest]

Reply(h) ==
  /\ op' = NoOne
  /\ Replied(h)

Lock(t) ==
  /\ op = NoOne
  /\ op' = t

\* The mutated form takes the JoinHandle and awaits it without aborting the task.
AwaitWatchdogOnly(s) ==
  /\ joining' = [joining EXCEPT ![s] = slot]
  /\ slot' = NoOne
  /\ Goto(s, "join")
  /\ UNCHANGED aborted

\* VpnRuntime::stop up to its first await.
AbortWatchdog(s) ==
  /\ joining' = [joining EXCEPT ![s] = slot]
  /\ aborted' = aborted \cup {w \in Watchdog : w = slot /\ Live(w)}
  /\ slot' = NoOne
  /\ Goto(s, "join")

\* No config with the given id, or none selected: answered 400, nothing is touched.
NoConfig(h) ==
  /\ pc[h] = "queued"
  /\ req[h] = "connect"
  /\ op = NoOne
  /\ Replied(h)
  /\ UNCHANGED <<op, slot, joining, aborted, ticks, tunnel, shown, calls, cut>>

BeginConnect(h) ==
  /\ pc[h] = "queued"
  /\ req[h] = "connect"
  /\ Lock(h)
  /\ AbortWatchdog(h)
  /\ UNCHANGED <<req, ticks, tunnel, shown, calls, cut>>

BeginDisconnect(h) ==
  /\ pc[h] = "queued"
  /\ req[h] # "connect"
  /\ Lock(h)
  /\ Show(FALSE, "disconnecting")
  /\ AbortWatchdog(h)
  /\ UNCHANGED <<req, ticks, tunnel, calls, cut>>

BeginCleanup ==
  /\ pc[Cleaner] = "queued"
  /\ Lock(Cleaner)
  /\ socks' = FALSE
  /\ AbortWatchdog(Cleaner)
  /\ UNCHANGED <<req, ticks, core, session, running, shown, calls, cut>>

-----------------------------------------------------------------------------
(* Teardown: VpnRuntime::stop_tun, then finish_vpn. A stopper gets here    *)
(* once its watchdog is gone, a watchdog at the end of its own session.    *)

Joined(t) == [s \in Stopper |-> IF s = t THEN NoOne ELSE joining[s]]

\* The mutated form stops the tunnel without awaiting the aborted task.
StopTunNoJoin(t) ==
  /\ pc[t] \in {"join", "stop"}
  /\ running' = FALSE
  /\ joining' = Joined(t)
  /\ Goto(t, "tun")
  /\ UNCHANGED <<op, req, slot, aborted, ticks, core, session, socks, shown, calls, cut>>

StopTun(t) ==
  /\ \/ pc[t] = "join" /\ \A w \in Watchdog : joining[t] = w => ~Live(w)
     \/ pc[t] = "stop"
  /\ running' = FALSE
  /\ joining' = Joined(t)
  /\ Goto(t, "tun")
  /\ UNCHANGED <<op, req, slot, aborted, ticks, core, session, socks, shown, calls, cut>>

\* The mutated form leaves the SOCKS5 listener of the session open.
TunStoppedKeepsSocks(t) ==
  /\ pc[t] = "tun"
  /\ session' = "none"
  /\ phase' = "disconnected"
  /\ Goto(t, "kill")
  /\ UNCHANGED <<op, req, slot, joining, aborted, ticks, core, running, socks, event, calls, cut>>

\* The bridge task has ended. stop_tun shows "disconnected" without an event; finish_vpn
\* (its own stop_tun finds nothing left) stops the SOCKS5 listener and takes the core.
TunStopped(t) ==
  /\ pc[t] = "tun"
  /\ session' = "none"
  /\ phase' = "disconnected"
  /\ socks' = FALSE
  /\ Goto(t, "kill")
  /\ UNCHANGED <<op, req, slot, joining, aborted, ticks, core, running, event, calls, cut>>

\* CoreProcess::kill, then finish_vpn takes the call ids; cleanup leaves them alone.
KillCore(t) ==
  /\ pc[t] = "kill"
  /\ t # Cleaner
  /\ core' = "none"
  /\ ending' = [ending EXCEPT ![t] = active]
  /\ active' = {}
  /\ Goto(t, "calls")
  /\ UNCHANGED <<op, req, slot, joining, aborted, ticks, session, running, socks, shown,
                 mine, open, cut>>

CleanupDone ==
  /\ pc[Cleaner] = "kill"
  /\ core' = "none"
  /\ op' = NoOne
  /\ Goto(Cleaner, "stopped")
  /\ UNCHANGED <<req, slot, joining, aborted, ticks, session, running, socks, shown, calls, cut>>

\* One turn of stop_vk_calls: forceFinish closes the call, or fails and is only logged, as
\* without a token.
FinishCall(t) ==
  /\ pc[t] \in {"calls", "abandon"}
  /\ \E c \in ending[t] :
       /\ ending' = [ending EXCEPT ![t] = @ \ {c}]
       /\ open' = open \ {c}
  /\ UNCHANGED <<tasks, tunnel, shown, active, mine, cut>>

FinishedAt(t, label) == pc[t] = label /\ ending[t] = {}

\* The mutated form sets the phase and emits no event.
WatchdogFinishedSilently(w) ==
  /\ FinishedAt(w, "calls")
  /\ phase' = "disconnected"
  /\ op' = NoOne
  /\ Goto(w, "dead")
  /\ aborted' = aborted \ {w}
  /\ UNCHANGED <<req, slot, joining, ticks, tunnel, event, calls, cut>>

WatchdogFinished(w) ==
  /\ FinishedAt(w, "calls")
  /\ Show(FALSE, "disconnected")
  /\ op' = NoOne
  /\ Goto(w, "dead")
  /\ aborted' = aborted \ {w}
  /\ UNCHANGED <<req, slot, joining, ticks, tunnel, calls, cut>>

DisconnectReplied(h) ==
  /\ FinishedAt(h, "calls")
  /\ req[h] = "disconnect"
  /\ Show(FALSE, "disconnected")
  /\ Reply(h)
  /\ UNCHANGED <<slot, joining, aborted, ticks, tunnel, calls, cut>>

\* vpn_reconnect: a whole disconnect, 500 ms without the lock, then a connect.
ReconnectPauses(h) ==
  /\ FinishedAt(h, "calls")
  /\ req[h] = "reconnect"
  /\ Show(FALSE, "disconnected")
  /\ op' = NoOne
  /\ Goto(h, "pause")
  /\ UNCHANGED <<req, slot, joining, aborted, ticks, tunnel, calls, cut>>

ReconnectResumes(h) ==
  /\ pc[h] = "pause"
  /\ Goto(h, "queued")
  /\ req' = [req EXCEPT ![h] = "connect"]
  /\ UNCHANGED <<op, slot, joining, aborted, ticks, tunnel, shown, calls, cut>>

ConnectCleared(h) ==
  /\ FinishedAt(h, "calls")
  /\ req[h] = "connect"
  /\ Show(FALSE, "connecting")
  /\ Goto(h, "prepare")
  /\ UNCHANGED <<op, req, slot, joining, aborted, ticks, tunnel, calls, cut>>

-----------------------------------------------------------------------------
(* The rest of vpn_connect: the core's download, the VK calls, the spawn.  *)

\* Download failed, or Auto API without a token. The phase stays "connecting".
PrepareFails(h) ==
  /\ pc[h] = "prepare"
  /\ Reply(h)
  /\ UNCHANGED <<slot, joining, aborted, ticks, tunnel, shown, calls, cut>>

Prepared(h) ==
  /\ pc[h] = "prepare"
  /\ \E label \in {"vk", "spawn"} : Goto(h, label)
  /\ UNCHANGED <<op, req, slot, joining, aborted, ticks, tunnel, shown, calls, cut>>

\* A calls.start that succeeds; one that fails is logged and changes nothing.
StartCall(h) ==
  /\ pc[h] = "vk"
  /\ \E c \in Call \ open :
       /\ open' = open \cup {c}
       /\ mine' = [mine EXCEPT ![h] = @ \cup {c}]
  /\ UNCHANGED <<tasks, tunnel, shown, active, ending, cut>>

CallsStarted(h) ==
  /\ pc[h] = "vk"
  /\ mine[h] # {}
  /\ Goto(h, "spawn")
  /\ UNCHANGED <<op, req, slot, joining, aborted, ticks, tunnel, shown, calls, cut>>

NoCalls(h) ==
  /\ pc[h] = "vk"
  /\ mine[h] = {}
  /\ Reply(h)
  /\ UNCHANGED <<slot, joining, aborted, ticks, tunnel, shown, calls, cut>>

\* The mutated form answers the error and forgets the calls it has started.
GiveUpForgets(h) ==
  /\ pc[h] \in {"vk", "spawn"}
  /\ mine' = [mine EXCEPT ![h] = {}]
  /\ Goto(h, "abandon")
  /\ UNCHANGED <<op, req, slot, joining, aborted, ticks, tunnel, shown, active, ending, open,
                 cut>>

\* Token invalid, core log not writable or spawn failed: the calls are finished first.
GiveUp(h) ==
  /\ pc[h] \in {"vk", "spawn"}
  /\ ending' = [ending EXCEPT ![h] = mine[h]]
  /\ mine' = [mine EXCEPT ![h] = {}]
  /\ Goto(h, "abandon")
  /\ UNCHANGED <<op, req, slot, joining, aborted, ticks, tunnel, shown, active, open, cut>>

GaveUp(h) ==
  /\ FinishedAt(h, "abandon")
  /\ Reply(h)
  /\ UNCHANGED <<slot, joining, aborted, ticks, tunnel, shown, calls, cut>>

\* The core runs, its calls are handed over and a watchdog is spawned and stored.
Spawn(h) ==
  /\ pc[h] = "spawn"
  /\ core' = "alive"
  /\ active' = IF mine[h] = {} THEN active ELSE mine[h]
  /\ mine' = [mine EXCEPT ![h] = {}]
  /\ \E w \in {v \in Watchdog : ~Live(v)} :
       /\ slot' = w
       /\ pc' = [pc EXCEPT ![w] = "watch", ![h] = "idle"]
  /\ req' = [req EXCEPT ![h] = NoRequest]
  /\ op' = NoOne
  /\ UNCHANGED <<joining, aborted, ticks, session, running, socks, shown, ending, open, cut>>

-----------------------------------------------------------------------------
(* The watchdog task.                                                      *)

\* A statistics line with Active > 0, and one with Active = 0.
SeeActive(w) ==
  /\ pc[w] = "watch"
  /\ ticks[w] < ReadyTicks
  /\ ticks' = [ticks EXCEPT ![w] = @ + 1]
  /\ IF ticks[w] = 0 THEN Show(FALSE, "checking") ELSE UNCHANGED shown
  /\ UNCHANGED <<op, pc, req, slot, joining, aborted, tunnel, calls, cut>>

SeeIdle(w) ==
  /\ pc[w] = "watch"
  /\ ticks[w] > 0
  /\ ticks' = [ticks EXCEPT ![w] = 0]
  /\ Show(FALSE, "connecting")
  /\ UNCHANGED <<op, pc, req, slot, joining, aborted, tunnel, calls, cut>>

Ready(w) ==
  /\ pc[w] = "watch"
  /\ ticks[w] = ReadyTicks \/ PaperFlux
  /\ Goto(w, "lock")
  /\ ticks' = [ticks EXCEPT ![w] = 0]
  /\ UNCHANGED <<op, req, slot, joining, aborted, tunnel, shown, calls, cut>>

\* The mutated form has no deadline.
TimesOutWithCore(w) ==
  /\ pc[w] \in {"watch", "late"}
  /\ core # "alive"
  /\ Show(FALSE, "error")
  /\ Goto(w, "relock")
  /\ ticks' = [ticks EXCEPT ![w] = 0]
  /\ UNCHANGED <<op, req, slot, joining, aborted, tunnel, calls, cut>>

\* The core has stopped or the 90 s deadline has passed.
TimesOut(w) ==
  /\ pc[w] \in {"watch", "late"}
  /\ Show(FALSE, "error")
  /\ Goto(w, "relock")
  /\ ticks' = [ticks EXCEPT ![w] = 0]
  /\ UNCHANGED <<op, req, slot, joining, aborted, tunnel, calls, cut>>

\* The mutated form starts the tunnel without looking at the core again.
LockToStartUnchecked(w) ==
  /\ pc[w] = "lock"
  /\ Lock(w)
  /\ Goto(w, "start")
  /\ UNCHANGED <<req, slot, joining, aborted, ticks, tunnel, shown, calls, cut>>

LockToStart(w) ==
  /\ pc[w] = "lock"
  /\ Lock(w)
  /\ core = "alive"
  /\ Goto(w, "start")
  /\ UNCHANGED <<req, slot, joining, aborted, ticks, tunnel, shown, calls, cut>>

\* The core has stopped while the watchdog waited: it lets go of the lock and leaves the loop.
LockTooLate(w) ==
  /\ pc[w] = "lock"
  /\ op = NoOne
  /\ core # "alive"
  /\ Goto(w, "late")
  /\ UNCHANGED <<op, req, slot, joining, aborted, ticks, tunnel, shown, calls, cut>>

\* start_tun or start_proxy_tun, and with the latter the SOCKS5 listener. The interface
\* csqtt0 cannot be opened twice.
TunStarts(w) ==
  /\ pc[w] = "start"
  /\ session # "up"
  /\ session' = "up"
  /\ running' = TRUE
  /\ socks' \in {socks, TRUE}
  /\ op' = NoOne
  /\ Goto(w, "announce")
  /\ UNCHANGED <<req, slot, joining, aborted, ticks, core, shown, calls, cut>>

\* The phase "error" set here is overwritten by the finish_vpn that follows at once.
TunFails(w) ==
  /\ pc[w] = "start"
  /\ phase' = "error"
  /\ Goto(w, "stop")
  /\ UNCHANGED <<op, req, slot, joining, aborted, ticks, tunnel, event, calls, cut>>

SocksFails(w) ==
  /\ pc[w] = "start"
  /\ session # "up"
  /\ session' = "up"
  /\ running' = TRUE
  /\ Goto(w, "stop")
  /\ UNCHANGED <<op, req, slot, joining, aborted, ticks, core, socks, shown, calls, cut>>

\* The lock is already released here: a stopper may hold it.
Announce(w) ==
  /\ pc[w] = "announce"
  /\ Show(TRUE, "connected")
  /\ Goto(w, "poll")
  /\ UNCHANGED <<op, req, slot, joining, aborted, ticks, tunnel, calls, cut>>

\* The mutated form polls vpn.running alone.
SeeStoppedBridgeOnly(w) ==
  /\ pc[w] = "poll"
  /\ ~running
  /\ Goto(w, "relock")
  /\ UNCHANGED <<op, req, slot, joining, aborted, ticks, tunnel, shown, calls, cut>>

SeeStopped(w) ==
  /\ pc[w] = "poll"
  /\ core # "alive" \/ ~running
  /\ Goto(w, "relock")
  /\ UNCHANGED <<op, req, slot, joining, aborted, ticks, tunnel, shown, calls, cut>>

LockToFinish(w) ==
  /\ pc[w] = "relock"
  /\ Lock(w)
  /\ Goto(w, "stop")
  /\ UNCHANGED <<req, slot, joining, aborted, ticks, tunnel, shown, calls, cut>>

\* An abort takes effect at an await point, wherever the task has got to by then.
AwaitsUnlocked == {"watch", "lock", "poll", "relock"}
AwaitsLocked == {"tun", "kill", "calls"}

DiesAborted(w) ==
  /\ w \in aborted
  /\ pc[w] \in AwaitsUnlocked \cup AwaitsLocked
  /\ Goto(w, "dead")
  /\ aborted' = aborted \ {w}
  /\ ticks' = [ticks EXCEPT ![w] = 0]
  /\ op' = IF op = w THEN NoOne ELSE op
  /\ session' = IF pc[w] = "tun" THEN "none" ELSE session
  /\ core' = IF pc[w] = "kill" THEN "none" ELSE core
  /\ ending' = [ending EXCEPT ![w] = {}]
  /\ UNCHANGED <<req, slot, joining, running, socks, shown, active, mine, open, cut>>

-----------------------------------------------------------------------------
(* The environment: the core and the bridge end by themselves, a client    *)
(* drops its request and the handler with it.                              *)

CoreExits ==
  /\ core = "alive"
  /\ core' = "exited"
  /\ UNCHANGED <<tasks, session, running, socks, shown, calls, cut>>

\* The bridge task stores running = false and emits a status event of its own.
BridgeEnds ==
  /\ session = "up"
  /\ session' = "ended"
  /\ running' = FALSE
  /\ event' = <<FALSE, "disconnected">>
  /\ UNCHANGED <<tasks, core, socks, phase, calls, cut>>

\* What the handler held is dropped: its lock, the session and the core it had taken
\* (aborted, killed), and its lists of call ids.
Drop(h) ==
  /\ MayDrop
  /\ pc[h] # "idle"
  /\ Replied(h)
  /\ joining' = Joined(h)
  /\ op' = IF op = h THEN NoOne ELSE op
  /\ session' = IF pc[h] = "tun" THEN "none" ELSE session
  /\ core' = IF pc[h] = "kill" THEN "none" ELSE core
  /\ mine' = [mine EXCEPT ![h] = {}]
  /\ ending' = [ending EXCEPT ![h] = {}]
  /\ cut' = (cut \/ op = h)
  /\ UNCHANGED <<slot, aborted, ticks, running, socks, shown, active, open>>

\* vk_calls_start, vk_calls_stop and vk_calls_stop_all take no lock: see VkCalls. Those
\* that finish calls find a session's among them.
ReportOther ==
  /\ pc[Cleaner] # "stopped"
  /\ \E c \in Other \ active : active' = active \cup {c}
  /\ UNCHANGED <<tasks, tunnel, shown, mine, ending, open, cut>>

StopOther ==
  /\ pc[Cleaner] # "stopped"
  /\ \E c \in active :
       /\ active' = active \ {c}
       /\ open' = open \ {c}
  /\ UNCHANGED <<tasks, tunnel, shown, mine, ending, cut>>

\* The process has nothing left to do after its shutdown.
Terminated ==
  /\ pc[Cleaner] = "stopped"
  /\ \A h \in Handler : pc[h] = "idle"
  /\ \A w \in Watchdog : ~Live(w)
  /\ UNCHANGED vars

-----------------------------------------------------------------------------
HandlerNext(h) ==
  \/ \E r \in Request : Ask(h, r)
  \/ NoConfig(h) \/ BeginConnect(h) \/ BeginDisconnect(h)
  \/ DisconnectReplied(h) \/ ReconnectPauses(h) \/ ReconnectResumes(h)
  \/ ConnectCleared(h) \/ PrepareFails(h) \/ Prepared(h)
  \/ StartCall(h) \/ CallsStarted(h) \/ NoCalls(h)
  \/ GiveUp(h) \/ GaveUp(h) \/ Spawn(h)
  \/ Drop(h)

WatchdogNext(w) ==
  \/ SeeActive(w) \/ SeeIdle(w) \/ Ready(w) \/ TimesOut(w)
  \/ LockToStart(w) \/ LockTooLate(w)
  \/ TunStarts(w) \/ TunFails(w) \/ SocksFails(w)
  \/ Announce(w) \/ SeeStopped(w) \/ LockToFinish(w)
  \/ WatchdogFinished(w) \/ DiesAborted(w)

TeardownNext(t) == StopTun(t) \/ TunStopped(t) \/ KillCore(t) \/ FinishCall(t)

Next ==
  \/ \E h \in Handler : HandlerNext(h)
  \/ \E w \in Watchdog : WatchdogNext(w)
  \/ \E t \in Task : TeardownNext(t)
  \/ Signal \/ BeginCleanup \/ CleanupDone
  \/ CoreExits \/ BridgeEnds \/ ReportOther \/ StopOther
  \/ Terminated

Spec == Init /\ [][Next]_vars

-----------------------------------------------------------------------------
(* Fairness: the runtime polls every task that can run, the core's kill,   *)
(* the VK requests and the 90 s deadline end, and the mutex is FIFO, so    *)
(* a task that waits for it gets it. Requests, signals, the core's output  *)
(* and its death are the environment's and are never forced.               *)

HandlerWork(h) ==
  \/ DisconnectReplied(h) \/ ReconnectPauses(h) \/ ReconnectResumes(h)
  \/ ConnectCleared(h) \/ PrepareFails(h) \/ Prepared(h)
  \/ CallsStarted(h) \/ NoCalls(h) \/ GaveUp(h) \/ Spawn(h)
  \/ TeardownNext(h)

WatchdogWork(w) ==
  \/ ticks[w] = ReadyTicks /\ Ready(w)
  \/ TimesOut(w) \/ TunStarts(w) \/ TunFails(w) \/ SocksFails(w)
  \/ Announce(w) \/ SeeStopped(w) \/ WatchdogFinished(w) \/ DiesAborted(w)
  \/ TeardownNext(w)

Fairness ==
  /\ \A h \in Handler : /\ WF_vars(HandlerWork(h))
                        /\ SF_vars(NoConfig(h) \/ BeginConnect(h) \/ BeginDisconnect(h))
  /\ \A w \in Watchdog : /\ WF_vars(WatchdogWork(w))
                         /\ SF_vars(LockToStart(w) \/ LockTooLate(w) \/ LockToFinish(w))
  /\ WF_vars(TeardownNext(Cleaner) \/ CleanupDone)
  /\ SF_vars(BeginCleanup)

FairSpec == Spec /\ Fairness

-----------------------------------------------------------------------------
(* What a stopper has after its join: the watchdog of the old session is   *)
(* gone before anything of that session is taken down.                     *)
PastJoin == {"tun", "kill", "calls", "prepare", "vk", "spawn", "abandon"}

TypeOK ==
  /\ op \in Task \cup {NoOne}
  /\ pc \in [Task -> HandlerPc \cup CleanerPc \cup WatchdogPc]
  /\ \A h \in Handler : pc[h] \in HandlerPc
  /\ pc[Cleaner] \in CleanerPc
  /\ \A w \in Watchdog : pc[w] \in WatchdogPc
  /\ req \in [Handler -> Request \cup {NoRequest}]
  /\ slot \in Watchdog \cup {NoOne}
  /\ joining \in [Stopper -> Watchdog \cup {NoOne}]
  /\ aborted \subseteq Watchdog
  /\ ticks \in [Watchdog -> 0..ReadyTicks]
  /\ core \in {"none", "alive", "exited"}
  /\ session \in {"none", "up", "ended"}
  /\ running \in BOOLEAN
  /\ socks \in BOOLEAN
  /\ phase \in Phase
  /\ event \in StatusEvent
  /\ active \subseteq Call \cup Other
  /\ mine \in [Handler -> SUBSET Call]
  /\ ending \in [Task -> SUBSET (Call \cup Other)]
  /\ open \subseteq Call
  /\ cut \in BOOLEAN

\* vpn_connect "stops" the previous session by aborting its watchdog and awaiting it: past
\* that point no watchdog is left that could start a TUN or tear down the new session, and
\* there is never a second one.
OneSupervisor ==
  ~cut =>
    /\ \A v, w \in Watchdog : Live(v) /\ Live(w) => v = w
    /\ \A s \in Stopper : pc[s] \in PastJoin => \A w \in Watchdog : ~Live(w)

Tracked(c) ==
  \/ c \in active
  \/ \E h \in Handler : c \in mine[h]
  \/ \E t \in Task : c \in ending[t]

\* A VK call that vpn_connect has started and no one has tried to finish is in a list some
\* task will finish: none of its error paths forgets one, nor do the requests that write the
\* list beside it. What vpn_connect does to the calls of those requests is CallsListed's.
CallsTracked == ~cut => \A c \in open : Tracked(c)

AtRest == op = NoOne /\ \A w \in Watchdog : ~Live(w)

\* With the lock free and no watchdog nothing of a session is left over, whichever way the
\* last one ended: no flow, no bridge, no core, no SOCKS5 listener, none of its calls.
RestIsClean ==
  ~cut /\ AtRest =>
    /\ ~running /\ session = "none" /\ core = "none" /\ ~socks
    /\ phase \in {"disconnected", "connecting"}
    /\ pc[Cleaner] # "stopped" => active \subseteq Other

\* A subscriber of the event stream is not left with a state the status route denies: at
\* rest the last status event is the one GET /vpn/status would answer. The bridge, the
\* watchdog and the handlers emit theirs without a common lock.
EventsSettle ==
  ~cut /\ AtRest /\ pc[Cleaner] \in {"idle", "queued"} => event = <<running, phase>>

\* The abstract service: state.core, vpn.handle and vpn.running are its three variables.
Session == INSTANCE TunnelSession
             WITH process <- core, tunnel <- session, flowing <- running

\* Every step of the handlers, the watchdogs and the cleanup is a step of the abstract
\* service or leaves its variables alone, even when handlers are dropped half-way: no second
\* core or bridge, no TUN without a core, no core removed under an open TUN.
ImplementsTunnelSession == Session!Spec

\* A connected session whose core or bridge has ended is torn down.
DeadSessionReaped ==
  (core = "exited" \/ session = "ended") ~> (cut \/ (core # "exited" /\ session # "ended"))

\* Every request is answered: a stopper awaits a watchdog that may be waiting for the lock
\* the stopper holds.
RequestsAnswered == \A h \in Handler : pc[h] # "idle" ~> pc[h] = "idle"

\* A connect that was answered with "connecting" does not stay so for ever: the watchdog
\* connects, or takes the session down.
ConnectDecided ==
  \A w \in Watchdog : pc[w] = "watch" ~> pc[w] \in {"poll", "dead"}
=============================================================================
