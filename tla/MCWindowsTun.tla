--------------------------- MODULE MCWindowsTun ----------------------------
(* Small instances of WindowsTun: the clients are model values.             *)
EXTENDS WindowsTun, TLC

Symmetry == Permutations(Client)
=============================================================================
