-------------------------- MODULE MCCoreDownload ---------------------------
(* Small instances of CoreDownload: the requests are model values.          *)
EXTENDS CoreDownload, TLC

Symmetry == Permutations(Request)
=============================================================================
