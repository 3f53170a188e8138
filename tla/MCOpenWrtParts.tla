--------------------------- MODULE MCOpenWrtParts --------------------------
(***************************************************************************)
(* The packet selection and the core log history of the OpenWRT backend.   *)
(* They share no state: each behaviour moves one of them and leaves the    *)
(* other.                                                                  *)
(***************************************************************************)
EXTENDS OpenWrtRouting, CoreLogs

VARIABLE moving

MCInit ==
  /\ moving \in {"routing", "logs"}
  /\ RoutingInit /\ Init
  /\ moving # "routing" => fw4 /\ left = {}
  /\ moving # "logs" => legacy = <<>>

MCNext ==
  /\ UNCHANGED moving
  /\ \/ moving = "routing" /\ RoutingNext /\ UNCHANGED vars
     \/ moving = "logs" /\ Next /\ UNCHANGED routingVars

MCSpec == MCInit /\ [][MCNext]_<<moving, routingVars, vars>>
=============================================================================
