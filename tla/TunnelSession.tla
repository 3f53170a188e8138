---------------------------- MODULE TunnelSession ----------------------------
(***************************************************************************)
(* What a backend promises the machine about the core process and the TUN, *)
(* whoever asks and whatever fails: cores and tunnels come one at a time,  *)
(* a tunnel is opened for a core, packets flow only through an open        *)
(* tunnel, and a session is taken down in one order - stop the flow, close *)
(* the tunnel, then the core - so that traffic is never routed to a core   *)
(* that was removed under it.                                              *)
(***************************************************************************)
VARIABLES
  process,   \* the core: "none", "alive", or "exited" and not yet removed
  tunnel,    \* the TUN: "none", "up", or "ended" by itself
  flowing    \* whether the backend reports the VPN as running

vars == <<process, tunnel, flowing>>

TypeOK ==
  /\ process \in {"none", "alive", "exited"}
  /\ tunnel \in {"none", "up", "ended"}
  /\ flowing \in BOOLEAN

Init ==
  /\ process = "none"
  /\ tunnel = "none"
  /\ flowing = FALSE

StartCore ==
  /\ process = "none"
  /\ tunnel = "none"
  /\ process' = "alive"
  /\ UNCHANGED <<tunnel, flowing>>

OpenTunnel ==
  /\ process # "none"
  /\ tunnel # "up"
  /\ tunnel' = "up"
  /\ flowing' = TRUE
  /\ UNCHANGED process

CoreExits ==
  /\ process = "alive"
  /\ process' = "exited"
  /\ UNCHANGED <<tunnel, flowing>>

TunnelEnds ==
  /\ tunnel = "up"
  /\ tunnel' = "ended"
  /\ flowing' = FALSE
  /\ UNCHANGED process

StopFlow ==
  /\ flowing' = FALSE
  /\ UNCHANGED <<process, tunnel>>

CloseTunnel ==
  /\ ~flowing
  /\ tunnel' = "none"
  /\ UNCHANGED <<process, flowing>>

RemoveCore ==
  /\ tunnel = "none"
  /\ process' = "none"
  /\ UNCHANGED <<tunnel, flowing>>

Next ==
  \/ StartCore \/ OpenTunnel
  \/ CoreExits \/ TunnelEnds
  \/ StopFlow \/ CloseTunnel \/ RemoveCore

Spec == Init /\ [][Next]_vars

\* Packets flow only while the tunnel is up and the core's slot is taken.
FlowNeedsSession == flowing => tunnel = "up" /\ process # "none"
=============================================================================
