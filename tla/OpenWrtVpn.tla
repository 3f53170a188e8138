----------------------------- MODULE OpenWrtVpn -----------------------------
(***************************************************************************)
(* The life of a VPN session in the OpenWRT backend:                       *)
(* Backend/OpenWRT/src/api.rs (vpn_connect, vpn_disconnect, vpn_reconnect, *)
(* finish_vpn, the watchdog), vpn.rs (stop, stop_tun, start_tun), state.rs *)
(* (cleanup) and the calls of AutoAPI in vk.rs (ActiveCalls).              *)
(*                                                                         *)
(* As on the desktop, tasks serialise on vpn.operation and an action is    *)
(* the code between two awaits of a task. What differs: a profile is       *)
(* validated before the old session is touched, the connecting flag and    *)
(* the calls are owned by values whose destructors clean up, the proxy     *)
(* starts with the core, packet selection is a value of its own that goes  *)
(* before the TUN, and the watchdog does not look at the core again once   *)
(* it has the lock.                                                        *)
(***************************************************************************)
EXTENDS Naturals, FiniteSets

CONSTANTS
  Handler,   \* HTTP requests in flight at once
  Watchdog,  \* watchdog tasks; a finished one may be spawned again
  Cleaner,   \* the task that runs cleanup after a shutdown signal
  Call,      \* VK calls that calls.start can create
  NoOne

ASSUME TasksAssumption ==
  /\ Handler \cap Watchdog = {}
  /\ Cleaner \notin Handler \cup Watchdog
  /\ NoOne \notin Handler \cup Watchdog \cup {Cleaner}

Stopper == Handler \cup {Cleaner}   \* the tasks that call VpnRuntime::stop
Task == Stopper \cup Watchdog

VARIABLES
  op,          \* holder of vpn.operation
  pc,          \* where each task is
  req,         \* what each handler was asked for
  slot,        \* vpn.watchdog: the task whose JoinHandle is stored
  joining,     \* the aborted watchdog a stopper awaits
  aborted,     \* watchdogs whose abort was requested
  core,        \* state.core
  session,     \* vpn.handle: no session, bridge running, bridge ended by itself
  routing,     \* vpn.routing: iptables and policy rules select packets for the TUN
  running,     \* vpn.running
  socks,       \* state.socks5: the listener of share_vpn
  connecting,  \* vpn.connecting
  event,       \* the last status event
  active,      \* state.active_vk_calls
  mine,        \* the ActiveCalls of a connect handler
  asked,       \* calls a calls.start of a handler has opened before its answer is in
  ending,      \* the ActiveCalls a task is closing
  dropping,    \* calls the destructor of ActiveCalls has given to a task of their own
  open,        \* calls that are open on the VK side
  lost,        \* calls nothing can close: forceFinish failed twice, or their answer
               \* was never read
  cut          \* a handler was dropped while it held the lock

tasks   == <<op, pc, req, slot, joining, aborted>>
tunnel  == <<core, session, routing, running, socks>>
shown   == <<connecting, event>>
calls   == <<active, mine, asked, ending, dropping, open, lost>>
vars    == <<tasks, tunnel, shown, calls, cut>>

Request == {"connect", "disconnect", "reconnect"}
NoRequest == "none"

HandlerPc == {"idle", "queued", "join", "tun", "kill", "calls", "prepare", "vk", "spawn",
              "pause"}
CleanerPc == {"idle", "queued", "join", "tun", "kill", "calls", "stopped"}
WatchdogPc == {"dead", "watch", "lock", "start", "announce", "poll", "relock", "stop", "tun",
               "kill", "calls"}

Live(w) == pc[w] # "dead"

Goto(t, label) == pc' = [pc EXCEPT ![t] = label]

Init ==
  /\ op = NoOne
  /\ pc = [t \in Task |-> IF t \in Watchdog THEN "dead" ELSE "idle"]
  /\ req = [h \in Handler |-> NoRequest]
  /\ slot = NoOne
  /\ joining = [s \in Stopper |-> NoOne]
  /\ aborted = {}
  /\ core = "none"
  /\ session = "none"
  /\ routing = FALSE
  /\ running = FALSE
  /\ socks = FALSE
  /\ connecting = FALSE
  /\ event = FALSE
  /\ active = {}
  /\ mine = [h \in Handler |-> {}]
  /\ asked = [h \in Handler |-> {}]
  /\ ending = [t \in Task |-> {}]
  /\ dropping = {}
  /\ open = {}
  /\ lost = {}
  /\ cut = FALSE

-----------------------------------------------------------------------------
(* Requests, and what a stopper does first.                                *)

Ask(h, r) ==
  /\ pc[h] = "idle"
  /\ pc[Cleaner] # "stopped"
  /\ Goto(h, "queued")
  /\ req' = [req EXCEPT ![h] = r]
  /\ UNCHANGED <<op, slot, joining, aborted, tunnel, shown, calls, cut>>

Signal ==
  /\ pc[Cleaner] = "idle"
  /\ Goto(Cleaner, "queued")
  /\ UNCHANGED <<op, req, slot, joining, aborted, tunnel, shown, calls, cut>>

Replied(h) ==
  /\ Goto(h, "idle")
  /\ req' = [req EXCEPT ![h] = NoRequest]

Lock(t) ==
  /\ op = NoOne
  /\ op' = t

\* VpnRuntime::stop up to its first await.
AbortWatchdog(s) ==
  /\ joining' = [joining EXCEPT ![s] = slot]
  /\ aborted' = aborted \cup {w \in Watchdog : w = slot /\ Live(w)}
  /\ slot' = NoOne
  /\ Goto(s, "join")

\* No profile, an unsupported protocol, no address or password, no token: answered 400 with
\* the session that is up left alone.
Refused(h) ==
  /\ pc[h] = "queued"
  /\ req[h] = "connect"
  /\ op = NoOne
  /\ Replied(h)
  /\ UNCHANGED <<op, slot, joining, aborted, tunnel, shown, calls, cut>>

Begin(h) ==
  /\ pc[h] = "queued"
  /\ Lock(h)
  /\ AbortWatchdog(h)
  /\ UNCHANGED <<req, tunnel, shown, calls, cut>>

BeginCleanup ==
  /\ pc[Cleaner] = "queued"
  /\ Lock(Cleaner)
  /\ socks' = FALSE
  /\ AbortWatchdog(Cleaner)
  /\ UNCHANGED <<req, core, session, routing, running, shown, calls, cut>>

-----------------------------------------------------------------------------
(* Teardown: stop_tun, then finish_vpn, or the rest of cleanup.            *)

Joined(t) == [s \in Stopper |-> IF s = t THEN NoOne ELSE joining[s]]

\* The mutated form stops the tunnel without awaiting the aborted task.
StopTunNoJoin(t) ==
  /\ pc[t] \in {"join", "stop"}
  /\ running' = FALSE
  /\ routing' = FALSE
  /\ joining' = Joined(t)
  /\ Goto(t, "tun")
  /\ UNCHANGED <<op, req, slot, aborted, core, session, socks, shown, calls, cut>>

\* The flow and the routing go first, "so no new packet is sent to a TUN that is about to
\* disappear".
StopTun(t) ==
  /\ \/ pc[t] = "join" /\ \A w \in Watchdog : joining[t] = w => ~Live(w)
     \/ pc[t] = "stop"
  /\ running' = FALSE
  /\ routing' = FALSE
  /\ joining' = Joined(t)
  /\ Goto(t, "tun")
  /\ UNCHANGED <<op, req, slot, aborted, core, session, socks, shown, calls, cut>>

\* The mutated form leaves the SOCKS5 listener of the session open.
TunStoppedKeepsSocks(t) ==
  /\ pc[t] = "tun"
  /\ session' = "none"
  /\ Goto(t, "kill")
  /\ UNCHANGED <<op, req, slot, joining, aborted, core, routing, running, socks, shown, calls,
                 cut>>

TunStopped(t) ==
  /\ pc[t] = "tun"
  /\ session' = "none"
  /\ socks' = FALSE
  /\ Goto(t, "kill")
  /\ UNCHANGED <<op, req, slot, joining, aborted, core, routing, running, shown, calls, cut>>

\* CoreProcess::kill, then stop_auto_api_calls takes the calls, in cleanup as well.
KillCore(t) ==
  /\ pc[t] = "kill"
  /\ core' = "none"
  /\ ending' = [ending EXCEPT ![t] = active]
  /\ active' = {}
  /\ Goto(t, "calls")
  /\ UNCHANGED <<op, req, slot, joining, aborted, session, routing, running, socks, shown,
                 mine, asked, dropping, open, lost, cut>>

\* forceFinish closes the call, or fails twice and is only logged.
Closes(c) ==
  \/ open' = open \ {c} /\ UNCHANGED lost
  \/ lost' = lost \cup {c} /\ UNCHANGED open

FinishCall(t) ==
  /\ pc[t] = "calls"
  /\ \E c \in ending[t] : Closes(c) /\ ending' = [ending EXCEPT ![t] = @ \ {c}]
  /\ UNCHANGED <<tasks, tunnel, shown, active, mine, asked, dropping, cut>>

\* The task the destructor of ActiveCalls has spawned.
FinishDropped ==
  /\ \E c \in dropping : Closes(c) /\ dropping' = dropping \ {c}
  /\ UNCHANGED <<tasks, tunnel, shown, active, mine, asked, ending, cut>>

FinishedAt(t) == pc[t] = "calls" /\ ending[t] = {}

CleanupDone ==
  /\ FinishedAt(Cleaner)
  /\ op' = NoOne
  /\ Goto(Cleaner, "stopped")
  /\ UNCHANGED <<req, slot, joining, aborted, tunnel, shown, calls, cut>>

WatchdogFinished(w) ==
  /\ FinishedAt(w)
  /\ event' = FALSE
  /\ op' = NoOne
  /\ Goto(w, "dead")
  /\ aborted' = aborted \ {w}
  /\ UNCHANGED <<req, slot, joining, tunnel, connecting, calls, cut>>

DisconnectReplied(h) ==
  /\ FinishedAt(h)
  /\ req[h] = "disconnect"
  /\ event' = FALSE
  /\ op' = NoOne
  /\ Replied(h)
  /\ UNCHANGED <<slot, joining, aborted, tunnel, connecting, calls, cut>>

\* vpn_reconnect: a whole disconnect, 500 ms without the lock, then a connect.
ReconnectPauses(h) ==
  /\ FinishedAt(h)
  /\ req[h] = "reconnect"
  /\ event' = FALSE
  /\ op' = NoOne
  /\ Goto(h, "pause")
  /\ UNCHANGED <<req, slot, joining, aborted, tunnel, connecting, calls, cut>>

ReconnectResumes(h) ==
  /\ pc[h] = "pause"
  /\ Goto(h, "queued")
  /\ req' = [req EXCEPT ![h] = "connect"]
  /\ UNCHANGED <<op, slot, joining, aborted, tunnel, shown, calls, cut>>

ConnectCleared(h) ==
  /\ FinishedAt(h)
  /\ req[h] = "connect"
  /\ event' = FALSE
  /\ connecting' = TRUE
  /\ Goto(h, "prepare")
  /\ UNCHANGED <<op, req, slot, joining, aborted, tunnel, calls, cut>>

-----------------------------------------------------------------------------
(* The rest of vpn_connect. Its locals are dropped when it returns or is   *)
(* dropped itself: the guard clears vpn.connecting, ActiveCalls hands its  *)
(* calls to a task of its own, and the lock is released last.              *)

Prepared(h) ==
  /\ pc[h] = "prepare"
  /\ \E label \in {"vk", "spawn"} : Goto(h, label)
  /\ UNCHANGED <<op, req, slot, joining, aborted, tunnel, shown, calls, cut>>

\* ActiveCalls::start: the request, and its answer. A timeout reads no answer any more.
StartCall(h) ==
  /\ pc[h] = "vk"
  /\ asked[h] = {}
  /\ \E c \in Call \ (open \cup lost) :
       /\ open' = open \cup {c}
       /\ asked' = [asked EXCEPT ![h] = {c}]
  /\ UNCHANGED <<tasks, tunnel, shown, active, mine, ending, dropping, lost, cut>>

CallAnswered(h) ==
  /\ pc[h] = "vk"
  /\ asked[h] # {}
  /\ mine' = [mine EXCEPT ![h] = @ \cup asked[h]]
  /\ asked' = [asked EXCEPT ![h] = {}]
  /\ UNCHANGED <<tasks, tunnel, shown, active, ending, dropping, open, lost, cut>>

\* Enough calls, or the 20 s deadline with some.
CallsStarted(h) ==
  /\ pc[h] = "vk"
  /\ mine[h] # {}
  /\ lost' = lost \cup asked[h]
  /\ asked' = [asked EXCEPT ![h] = {}]
  /\ Goto(h, "spawn")
  /\ UNCHANGED <<op, req, slot, joining, aborted, tunnel, shown, active, mine, ending,
                 dropping, open, cut>>

\* The mutated form is ActiveCalls without its destructor.
ForgetCalls(h) ==
  /\ mine' = [mine EXCEPT ![h] = {}]
  /\ asked' = [asked EXCEPT ![h] = {}]
  /\ lost' = lost \cup asked[h]
  /\ UNCHANGED dropping

DropCalls(h) ==
  /\ dropping' = dropping \cup mine[h]
  /\ mine' = [mine EXCEPT ![h] = {}]
  /\ asked' = [asked EXCEPT ![h] = {}]
  /\ lost' = lost \cup asked[h]

\* Core not extracted or downloaded, token invalid, no calls, timeout, or spawn failed.
ConnectFails(h) ==
  /\ pc[h] \in {"prepare", "vk", "spawn"}
  /\ DropCalls(h)
  /\ connecting' = FALSE
  /\ op' = NoOne
  /\ Replied(h)
  /\ UNCHANGED <<slot, joining, aborted, tunnel, event, active, ending, open, cut>>

\* The core runs, its calls are handed over, the proxy listens if it is wanted and can, and
\* a watchdog is spawned and stored.
Spawn(h) ==
  /\ pc[h] = "spawn"
  /\ core' = "alive"
  /\ active' = mine[h]
  /\ dropping' = dropping \cup active
  /\ mine' = [mine EXCEPT ![h] = {}]
  /\ socks' \in {socks, TRUE}
  /\ \E w \in {v \in Watchdog : ~Live(v)} :
       /\ slot' = w
       /\ pc' = [pc EXCEPT ![w] = "watch", ![h] = "idle"]
  /\ req' = [req EXCEPT ![h] = NoRequest]
  /\ connecting' = FALSE
  /\ op' = NoOne
  /\ UNCHANGED <<joining, aborted, session, routing, running, event, asked, ending, open,
                 lost, cut>>

-----------------------------------------------------------------------------
(* The watchdog task.                                                      *)

\* The readiness of its own core has seen three active ticks.
Ready(w) ==
  /\ pc[w] = "watch"
  /\ core = "alive"
  /\ Goto(w, "lock")
  /\ UNCHANGED <<op, req, slot, joining, aborted, tunnel, shown, calls, cut>>

\* The core has stopped or the 90 s deadline has passed.
TimesOut(w) ==
  /\ pc[w] = "watch"
  /\ event' = FALSE
  /\ Goto(w, "relock")
  /\ UNCHANGED <<op, req, slot, joining, aborted, tunnel, connecting, calls, cut>>

LockToStart(w) ==
  /\ pc[w] = "lock"
  /\ Lock(w)
  /\ Goto(w, "start")
  /\ UNCHANGED <<req, slot, joining, aborted, tunnel, shown, calls, cut>>

\* start_tun: the TUN first, then the packet selection. lalune0 cannot be opened twice.
TunStarts(w) ==
  /\ pc[w] = "start"
  /\ session # "up"
  /\ session' = "up"
  /\ running' = TRUE
  /\ routing' = TRUE
  /\ Goto(w, "announce")
  /\ UNCHANGED <<op, req, slot, joining, aborted, core, socks, shown, calls, cut>>

\* The TUN was not opened, or closed again because its routing failed.
TunFails(w) ==
  /\ pc[w] = "start"
  /\ Goto(w, "stop")
  /\ UNCHANGED <<op, req, slot, joining, aborted, tunnel, shown, calls, cut>>

\* Still with the lock, unlike the desktop's watchdog.
Announce(w) ==
  /\ pc[w] = "announce"
  /\ event' = TRUE
  /\ op' = NoOne
  /\ Goto(w, "poll")
  /\ UNCHANGED <<req, slot, joining, aborted, tunnel, connecting, calls, cut>>

SeeStopped(w) ==
  /\ pc[w] = "poll"
  /\ core # "alive" \/ ~running
  /\ Goto(w, "relock")
  /\ UNCHANGED <<op, req, slot, joining, aborted, tunnel, shown, calls, cut>>

LockToFinish(w) ==
  /\ pc[w] = "relock"
  /\ Lock(w)
  /\ Goto(w, "stop")
  /\ UNCHANGED <<req, slot, joining, aborted, tunnel, shown, calls, cut>>

AwaitsUnlocked == {"watch", "lock", "poll", "relock"}
AwaitsLocked == {"tun", "kill", "calls"}

\* An abort takes effect at an await point; what the task held is dropped.
DiesAborted(w) ==
  /\ w \in aborted
  /\ pc[w] \in AwaitsUnlocked \cup AwaitsLocked
  /\ Goto(w, "dead")
  /\ aborted' = aborted \ {w}
  /\ op' = IF op = w THEN NoOne ELSE op
  /\ session' = IF pc[w] = "tun" THEN "none" ELSE session
  /\ core' = IF pc[w] = "kill" THEN "none" ELSE core
  /\ dropping' = dropping \cup ending[w]
  /\ ending' = [ending EXCEPT ![w] = {}]
  /\ UNCHANGED <<req, slot, joining, routing, running, socks, shown, active, mine, asked,
                 open, lost, cut>>

-----------------------------------------------------------------------------
(* The environment.                                                        *)

CoreExits ==
  /\ core = "alive"
  /\ core' = "exited"
  /\ UNCHANGED <<tasks, session, routing, running, socks, shown, calls, cut>>

\* The bridge task stores running = false and emits a status event of its own.
BridgeEnds ==
  /\ session = "up"
  /\ session' = "ended"
  /\ running' = FALSE
  /\ event' = FALSE
  /\ UNCHANGED <<tasks, core, routing, socks, connecting, calls, cut>>

\* A client closes its connection, hyper drops the handler.
Drop(h) ==
  /\ pc[h] # "idle"
  /\ Replied(h)
  /\ joining' = Joined(h)
  /\ op' = IF op = h THEN NoOne ELSE op
  /\ session' = IF pc[h] = "tun" THEN "none" ELSE session
  /\ core' = IF pc[h] = "kill" THEN "none" ELSE core
  /\ connecting' = IF pc[h] \in {"prepare", "vk", "spawn"} THEN FALSE ELSE connecting
  /\ dropping' = dropping \cup mine[h] \cup ending[h]
  /\ mine' = [mine EXCEPT ![h] = {}]
  /\ ending' = [ending EXCEPT ![h] = {}]
  /\ asked' = [asked EXCEPT ![h] = {}]
  /\ lost' = lost \cup asked[h]
  /\ cut' = (cut \/ op = h)
  /\ UNCHANGED <<slot, aborted, routing, running, socks, event, active, open>>

Terminated ==
  /\ pc[Cleaner] = "stopped"
  /\ \A h \in Handler : pc[h] = "idle"
  /\ \A w \in Watchdog : ~Live(w)
  /\ UNCHANGED vars

-----------------------------------------------------------------------------
HandlerNext(h) ==
  \/ \E r \in Request : Ask(h, r)
  \/ Refused(h) \/ Begin(h)
  \/ DisconnectReplied(h) \/ ReconnectPauses(h) \/ ReconnectResumes(h)
  \/ ConnectCleared(h) \/ Prepared(h)
  \/ StartCall(h) \/ CallAnswered(h) \/ CallsStarted(h) \/ ConnectFails(h)
  \/ Spawn(h)
  \/ Drop(h)

WatchdogNext(w) ==
  \/ Ready(w) \/ TimesOut(w) \/ LockToStart(w)
  \/ TunStarts(w) \/ TunFails(w) \/ Announce(w)
  \/ SeeStopped(w) \/ LockToFinish(w)
  \/ WatchdogFinished(w) \/ DiesAborted(w)

TeardownNext(t) == StopTun(t) \/ TunStopped(t) \/ KillCore(t) \/ FinishCall(t)

Next ==
  \/ \E h \in Handler : HandlerNext(h)
  \/ \E w \in Watchdog : WatchdogNext(w)
  \/ \E t \in Task : TeardownNext(t)
  \/ FinishDropped
  \/ Signal \/ BeginCleanup \/ CleanupDone
  \/ CoreExits \/ BridgeEnds
  \/ Terminated

Spec == Init /\ [][Next]_vars

-----------------------------------------------------------------------------
TypeOK ==
  /\ op \in Task \cup {NoOne}
  /\ pc \in [Task -> HandlerPc \cup CleanerPc \cup WatchdogPc]
  /\ \A h \in Handler : pc[h] \in HandlerPc
  /\ pc[Cleaner] \in CleanerPc
  /\ \A w \in Watchdog : pc[w] \in WatchdogPc
  /\ req \in [Handler -> Request \cup {NoRequest}]
  /\ slot \in Watchdog \cup {NoOne}
  /\ joining \in [Stopper -> Watchdog \cup {NoOne}]
  /\ aborted \subseteq Watchdog
  /\ core \in {"none", "alive", "exited"}
  /\ session \in {"none", "up", "ended"}
  /\ routing \in BOOLEAN
  /\ running \in BOOLEAN
  /\ socks \in BOOLEAN
  /\ connecting \in BOOLEAN
  /\ event \in BOOLEAN
  /\ active \subseteq Call
  /\ mine \in [Handler -> SUBSET Call]
  /\ asked \in [Handler -> SUBSET Call]
  /\ ending \in [Task -> SUBSET Call]
  /\ dropping \subseteq Call
  /\ open \subseteq Call
  /\ lost \subseteq Call
  /\ cut \in BOOLEAN

\* Somebody still has the id of the call, or it can no longer be known.
Tracked(c) ==
  \/ c \in active \cup dropping \cup lost
  \/ \E h \in Handler : c \in mine[h] \cup asked[h]
  \/ \E t \in Task : c \in ending[t]

\* "Dropping a cancelled connect also closes known calls": wherever a handler is cut off and
\* whichever way a session ends, a call whose id was read is on its way to being closed.
KnownCallsTracked == \A c \in open : Tracked(c)

\* Packets are selected for the TUN only while there is one: no step, no failure and no
\* dropped handler leaves the routing of a session behind its TUN.
RoutingNeedsTun == routing => session # "none"

\* A connect starts on clean ground whatever cut the session before it short.
ConnectStartsClean ==
  \A h \in Handler : pc[h] \in {"prepare", "vk", "spawn"} =>
    /\ core = "none" /\ session = "none" /\ ~routing /\ ~running /\ ~socks /\ active = {}

Session == INSTANCE TunnelSession
             WITH process <- core, tunnel <- session, flowing <- running

\* The router implements the abstract service as long as no handler is cut off inside its
\* critical section: past that, an aborted watchdog that has not come to an await yet may
\* find the lock free and open a TUN without looking at the core again.
ImplementsTunnelSession ==
  Session!Init /\ [][cut \/ Session!Next]_(Session!vars)
=============================================================================
