--------------------------- MODULE MCRouterSwitch ---------------------------
(* Small instances of RouterSwitch: the sets are model values of the .cfg.  *)
EXTENDS RouterSwitch, TLC

Symmetry == Permutations(Task) \cup Permutations(Router)
=============================================================================
