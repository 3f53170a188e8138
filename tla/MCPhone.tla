------------------------------ MODULE MCPhone ------------------------------
(***************************************************************************)
(* The TUN of the Android service, the packet tunnel of the iOS app, and   *)
(* the status that the front end shows. They share no state: each          *)
(* behaviour moves one of them and leaves the others, whose fairness it    *)
(* does not need.                                                          *)
(***************************************************************************)
EXTENDS AndroidTun, PacketTunnel, StatusView

VARIABLE moving

Init ==
  /\ moving \in {"tun", "packets", "view"}
  /\ AndroidInit /\ TunnelInit /\ StatusInit
  /\ moving # "view" => \A h \in Host : session[h] = "disconnected"
  /\ moving # "tun" => screen

Next ==
  /\ UNCHANGED moving
  /\ \/ moving = "tun" /\ AndroidNext /\ UNCHANGED <<tunnelVars, statusVars>>
     \/ moving = "packets" /\ TunnelNext /\ UNCHANGED <<androidVars, statusVars>>
     \/ moving = "view" /\ StatusNext /\ UNCHANGED <<androidVars, tunnelVars>>

allVars == <<moving, androidVars, tunnelVars, statusVars>>

\* Coroutines and the main thread go on; the core prints its statistics.
TunFairness ==
  /\ WF_androidVars(moving = "tun" /\ ~held /\ Destroy) /\ WF_androidVars(moving = "tun" /\ Prints)
  /\ \A f \in Flow : WF_androidVars(moving = "tun" /\ FlowNext(f))
  /\ \A c \in Closer : WF_androidVars(moving = "tun" /\ (CloseTun(c) \/ ResetScan(c)))

\* As TunnelFairness.
PacketFairness ==
  /\ WF_tunnelVars(moving = "packets" /\ Starter) /\ WF_tunnelVars(moving = "packets" /\ Stopper)
  /\ WF_tunnelVars(moving = "packets" /\ Runner)
  /\ WF_tunnelVars(moving = "packets" /\ told /\ CoreReturns)
  /\ WF_tunnelVars(moving = "packets" /\ ReceiveFails)

\* Timers fire, and a request is answered or given up after thirty seconds.
\* Nothing is asked of the stream of events.
ViewFairness ==
  /\ WF_statusVars(moving = "view" /\ PollStatus) /\ WF_statusVars(moving = "view" /\ Answer)
  /\ WF_statusVars(moving = "view" /\ Apply) /\ WF_statusVars(moving = "view" /\ Expire)
  /\ \A r \in Request : WF_statusVars(moving = "view" /\ (Handle(r) \/ Reply(r)))

Spec == Init /\ [][Next]_allVars /\ TunFairness /\ PacketFairness /\ ViewFairness
=============================================================================
