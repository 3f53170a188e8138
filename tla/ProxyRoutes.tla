---------------------------- MODULE ProxyRoutes ----------------------------
(***************************************************************************)
(* The host routes of the desktop's SOCKS5 mode: ensure_proxy_route and    *)
(* stop_tun of vpn.rs, finish_vpn of api.rs, start, stop and               *)
(* handle_connect of socks5.rs. A client task adds a route over the TUN    *)
(* for its destination before it connects, unless proxy_routes has it      *)
(* already. socks5::stop ends the listener only: the client tasks of a     *)
(* session go on while finish_vpn takes it down and the next one starts.   *)
(***************************************************************************)
CONSTANTS
  Client,   \* SOCKS5 client tasks
  Target,   \* destinations
  Replaces  \* `ip route replace` of Linux; `netsh add route` of Windows is
            \* an error for a route that is there

ASSUME ProxyAssumption == Replaces \in BOOLEAN

VARIABLES
  tun,        \* "up", "down" once stop_tun is through, "cleared" after finish_vpn
  listening,  \* state.socks5
  kernel,     \* host routes over the TUN
  routes,     \* vpn.proxy_routes
  pc,         \* where each client task is
  target,     \* its destination
  current,    \* the clients accepted on the TUN that is up
  stale       \* destinations entered in routes by a client of an earlier TUN

proxyVars == <<tun, listening, kernel, routes, pc, target, current, stale>>
clients == <<pc, target>>

ProxyInit ==
  /\ tun = "cleared"
  /\ listening = FALSE
  /\ kernel = {}
  /\ routes = {}
  /\ pc = [c \in Client |-> "idle"]
  /\ \E t \in Target : target = [c \in Client |-> t]
  /\ current = {} /\ stale = {}

-----------------------------------------------------------------------------
(* The session. The core, the watchdog and the lock are DesktopVpn's.      *)

\* start_proxy_tun and socks5::start.
TunStarts ==
  /\ tun = "cleared"
  /\ tun' = "up"
  /\ listening' = TRUE
  /\ UNCHANGED <<kernel, routes, clients, current, stale>>

\* stop_tun: the interface is gone, and with it the kernel's routes over it.
TunStops ==
  /\ tun = "up"
  /\ tun' = "down"
  /\ kernel' = {}
  /\ current' = {}
  /\ UNCHANGED <<listening, routes, clients, stale>>

\* The rest of finish_vpn.
Finish ==
  /\ tun = "down"
  /\ tun' = "cleared"
  /\ routes' = {} /\ stale' = {}
  /\ listening' = FALSE
  /\ UNCHANGED <<kernel, clients, current>>

-----------------------------------------------------------------------------
(* A client task: handle_client, resolve_target, ensure_proxy_route.       *)

Goto(c, label) == pc' = [pc EXCEPT ![c] = label]

Accept(c) ==
  /\ pc[c] = "idle"
  /\ listening
  /\ \E t \in Target : target' = [target EXCEPT ![c] = t]
  /\ Goto(c, "check")
  /\ current' = IF tun = "up" THEN current \cup {c} ELSE current
  /\ UNCHANGED <<tun, listening, kernel, routes, stale>>

Check(c) ==
  /\ pc[c] = "check"
  /\ Goto(c, IF target[c] \in routes THEN "connect" ELSE "route")
  /\ UNCHANGED <<tun, listening, kernel, routes, target, current, stale>>

\* The mutated form takes a failed command for a route that is there.
RouteFailsIgnored(c) ==
  /\ pc[c] = "route"
  /\ Goto(c, "push")
  /\ UNCHANGED <<tun, listening, kernel, routes, target, current, stale>>

\* An error without the interface.
Route(c) ==
  /\ pc[c] = "route"
  /\ tun = "up" /\ (Replaces \/ target[c] \notin kernel)
  /\ kernel' = kernel \cup {target[c]}
  /\ Goto(c, "push")
  /\ UNCHANGED <<tun, listening, routes, target, current, stale>>

RouteFails(c) ==
  /\ pc[c] = "route"
  /\ Goto(c, "idle")
  /\ UNCHANGED <<tun, listening, kernel, routes, target, current, stale>>

Push(c) ==
  /\ pc[c] = "push"
  /\ routes' = routes \cup {target[c]}
  /\ stale' = IF c \in current THEN stale ELSE stale \cup {target[c]}
  /\ Goto(c, "connect")
  /\ UNCHANGED <<tun, listening, kernel, target, current>>

\* tunnel_ipv4 gives the address of the TUN that is up by now.
Connect(c) ==
  /\ pc[c] = "connect"
  /\ Goto(c, IF tun = "up" THEN "open" ELSE "idle")
  /\ UNCHANGED <<tun, listening, kernel, routes, target, current, stale>>

Close(c) ==
  /\ pc[c] = "open"
  /\ Goto(c, "idle")
  /\ current' = current \ {c}
  /\ UNCHANGED <<tun, listening, kernel, routes, target, stale>>

ClientNext ==
  \E c \in Client :
       \/ Accept(c) \/ Check(c) \/ Route(c) \/ RouteFails(c) \/ Push(c)
       \/ Connect(c) \/ Close(c)

ProxyNext == TunStarts \/ TunStops \/ Finish \/ ClientNext

-----------------------------------------------------------------------------
\* "Every destination gets a host route through the service TUN ... instead of escaping
\* through the physical interface": a client that was accepted on the TUN that is up, and
\* has its connection, has a route to its destination over it.
EveryDestinationRouted ==
  \A c \in current : pc[c] = "open" => target[c] \in kernel

\* ensure_proxy_route: what makes a client miss its route is an entry that a
\* client of an earlier session has left in proxy_routes, nothing else, in any
\* order of the clients' checks, commands and entries and of the session's end.
RoutedUnlessStale ==
  \A c \in current : pc[c] = "open" => target[c] \in kernel \cup stale
=============================================================================
