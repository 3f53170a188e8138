---------------------------- MODULE MCOpenWrtVpn ----------------------------
(* Small instance of OpenWrtVpn: the sets are model values of the .cfg.     *)
EXTENDS OpenWrtVpn, TLC

Symmetry == Permutations(Handler) \cup Permutations(Watchdog)
=============================================================================
