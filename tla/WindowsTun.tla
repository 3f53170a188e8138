----------------------------- MODULE WindowsTun -----------------------------
(***************************************************************************)
(* The tunnel of the desktop backend on Windows: start_tun_windows,        *)
(* stop_tun, the bypass routes and the two bridge threads of vpn.rs over   *)
(* the Wintun session of wintun.rs, with the SOCKS5 clients of ProxyRoutes *)
(* in the sessions that run without a default route.                       *)
(*                                                                         *)
(* The threads are not joined. They stop by themselves when `running` is   *)
(* down or tun_generation has moved on, and reach the Wintun session       *)
(* through a slot that may hold the next session by the time they lock it. *)
(***************************************************************************)
EXTENDS ProxyRoutes, Naturals

CONSTANTS
  Prefix,       \* destinations the settings may exclude from the tunnel
  MaxSessions   \* bound on the sessions started while the model runs

ASSUME TunAssumption == MaxSessions \in Nat \ {0}

VARIABLES
  running, generation, \* vpn.running, vpn.tun_generation
  wintun,       \* the session in vpn.wintun, 0 when there is none
  sessions,     \* sessions opened so far
  mine,         \* per session: the generation its threads were started with
  at, holds,    \* per thread: its place, and the session of its packet
  strays,       \* per thread: packets moved between two sessions
  bypass,       \* vpn.bypass_routes
  table,        \* routes to excluded prefixes over the physical gateway
  orphans       \* those whose deletion failed, or whose backend was killed

bridge == <<mine, at, holds, strays>>
slot == <<running, generation, wintun, sessions>>
bypassVars == <<bypass, table, orphans>>
tunVars == <<slot, bridge, bypassVars>>
vars == <<proxyVars, tunVars>>

Session == 1..MaxSessions
Thread == Session \X {"wintun->udp", "udp->wintun"}

Init ==
  /\ ProxyInit
  /\ running = FALSE /\ generation = 0 /\ wintun = 0 /\ sessions = 0
  /\ mine = [s \in Session |-> 0]
  /\ at = [t \in Thread |-> "none"]
  /\ holds = [t \in Thread |-> 0] /\ strays = [t \in Thread |-> 0]
  /\ bypass = {} /\ table = {} /\ orphans = {}

-----------------------------------------------------------------------------
(* vpn_connect and the watchdog.                                           *)

\* configure_bypass_routes: what parse_ipv4_prefix accepts, in blacklist mode.
Configure ==
  /\ tun = "cleared"
  /\ bypass' \in SUBSET Prefix
  /\ UNCHANGED <<proxyVars, slot, bridge, table, orphans>>

\* start_tun_windows to `running`. WintunSession::open_or_create comes first:
\* when it fails nothing has changed. The old session is dropped, if any.
Open ==
  /\ tun = "cleared" /\ sessions < MaxSessions
  /\ tun' = "opening"
  /\ sessions' = sessions + 1 /\ wintun' = sessions'
  /\ UNCHANGED <<listening, kernel, routes, clients, current, stale,
                 running, generation, bridge, bypassVars>>

Announce ==
  /\ tun = "opening" /\ ~running
  /\ generation' = generation + 1
  /\ mine' = [mine EXCEPT ![sessions] = generation']
  /\ running' = TRUE
  /\ UNCHANGED <<proxyVars, wintun, sessions, at, holds, strays, bypassVars>>

\* setup_routes_windows: every ADD may fail and is ignored; without a
\* gateway none is tried. A proxy session installs none.
SetupRoutes ==
  /\ tun = "opening" /\ running
  /\ \E added \in SUBSET bypass : table' = table \cup added
  /\ tun' = "routed"
  /\ UNCHANGED <<listening, kernel, routes, clients, current, stale,
                 slot, bridge, bypass, orphans>>

\* Both threads, or an error after the first; socks5::start in proxy mode.
SpawnBridge ==
  /\ tun = "routed"
  /\ \E started \in {{"wintun->udp"}, {"wintun->udp", "udp->wintun"}} :
       at' = [t \in Thread |-> IF t[1] = sessions /\ t[2] \in started THEN "loop" ELSE at[t]]
  /\ tun' = "up" /\ listening' \in BOOLEAN
  /\ UNCHANGED <<kernel, routes, clients, current, stale,
                 slot, mine, holds, strays, bypassVars>>

\* stop_tun: the generation first, so that no thread revives on the
\* `running` of the next session.
StopTun ==
  /\ TunStops
  /\ running' = FALSE /\ generation' = generation + 1 /\ wintun' = 0
  /\ UNCHANGED <<sessions, bridge, bypassVars>>

\* The mutated form clears the list before it deletes what the list names.
FinishVpnForgetting ==
  /\ Finish
  /\ bypass' = {}
  /\ UNCHANGED <<slot, bridge, table, orphans>>

\* The rest of finish_vpn, cleanup_routes_windows in it: every DELETE may fail.
FinishVpn ==
  /\ Finish
  /\ \E failed \in SUBSET (table \cap bypass) :
       table' = (table \ bypass) \cup failed /\ orphans' = orphans \cup failed
  /\ bypass' = {}
  /\ UNCHANGED <<slot, bridge>>

\* The backend is killed: the adapter goes with it, the routes over the
\* physical interface stay.
Kill ==
  /\ tun # "cleared"
  /\ tun' = "cleared" /\ listening' = FALSE
  /\ kernel' = {} /\ routes' = {} /\ current' = {} /\ stale' = {}
  /\ pc' = [c \in Client |-> "idle"]
  /\ running' = FALSE /\ generation' = 0 /\ wintun' = 0
  /\ at' = [t \in Thread |-> IF at[t] = "none" THEN "none" ELSE "ended"]
  /\ holds' = [t \in Thread |-> 0]
  /\ bypass' = {} /\ orphans' = orphans \cup table
  /\ UNCHANGED <<target, sessions, mine, strays, table>>

-----------------------------------------------------------------------------
(* The threads.                                                            *)

\* The mutated form looks at `running` alone.
CheckRunningOnly(t) ==
  /\ at[t] = "loop"
  /\ at' = [at EXCEPT ![t] = IF running THEN "take" ELSE "ended"]
  /\ UNCHANGED <<proxyVars, slot, mine, holds, strays, bypassVars>>

CheckLoop(t) ==
  /\ at[t] = "loop"
  /\ at' = [at EXCEPT ![t] = IF running /\ generation = mine[t[1]] THEN "take" ELSE "ended"]
  /\ UNCHANGED <<proxyVars, slot, mine, holds, strays, bypassVars>>

\* recv_into under the lock of the slot, or recv on the socket of the thread;
\* nothing there within 250 ms: back to the loop.
Take(t) ==
  /\ at[t] = "take"
  /\ \E from \in {0, IF t[2] = "wintun->udp" THEN wintun ELSE t[1]} :
       /\ holds' = [holds EXCEPT ![t] = from]
       /\ at' = [at EXCEPT ![t] = IF from = 0 THEN "loop" ELSE "give"]
  /\ UNCHANGED <<proxyVars, slot, mine, strays, bypassVars>>

\* recv fails, with ConnectionReset while no core listens: the thread ends
\* and `running` stays up.
RecvBreaks(t) ==
  /\ at[t] = "take" /\ t[2] = "udp->wintun"
  /\ at' = [at EXCEPT ![t] = "ended"]
  /\ UNCHANGED <<proxyVars, slot, mine, holds, strays, bypassVars>>

\* send on the socket of the thread, or send_packet to the slot, which drops
\* the packet when it is empty or the ring is full.
Give(t) ==
  LET to == IF t[2] = "wintun->udp" THEN t[1] ELSE wintun IN
  /\ at[t] = "give"
  /\ at' = [at EXCEPT ![t] = "loop"] /\ holds' = [holds EXCEPT ![t] = 0]
  /\ strays' = [strays EXCEPT ![t] = IF to \in {0, holds[t]} THEN @ ELSE @ + 1]
  /\ UNCHANGED <<proxyVars, slot, mine, bypassVars>>

Bridge(t) == CheckLoop(t) \/ Take(t) \/ RecvBreaks(t) \/ Give(t)

Next ==
  \/ Configure \/ Open \/ Announce \/ SetupRoutes \/ SpawnBridge
  \/ StopTun \/ FinishVpn \/ Kill
  \/ \E t \in Thread : Bridge(t)
  \/ ClientNext /\ UNCHANGED tunVars

Spec == Init /\ [][Next]_vars

-----------------------------------------------------------------------------

TypeOK ==
  /\ running \in BOOLEAN /\ generation \in 0..(2 * MaxSessions)
  /\ wintun \in 0..MaxSessions /\ sessions \in 0..MaxSessions
  /\ at \in [Thread -> {"none", "loop", "take", "give", "ended"}]
  /\ holds \in [Thread -> 0..MaxSessions]
  /\ bypass \subseteq Prefix /\ table \subseteq Prefix /\ orphans \subseteq Prefix

\* "A separate generation guard is required to prevent old threads from
\* reviving" (stop_tun): a thread moves at most the one packet it was about to
\* move into or out of a session that is not its own, however soon that follows.
NoRevival == \A t \in Thread : strays[t] <= 1

\* cleanup_routes_windows deletes what bypass_routes names, and the list is
\* configured anew for each connect: a route over the physical gateway is never
\* forgotten while the backend lives, unless its deletion failed.
BypassTracked == table \subseteq bypass \cup orphans
=============================================================================
