---------------------------- MODULE MCDesktopVpn ----------------------------
(* Small instance of DesktopVpn: the sets are model values of the .cfg.    *)
EXTENDS DesktopVpn, TLC

Symmetry == Permutations(Handler) \cup Permutations(Watchdog) \cup Permutations(Call)

\* A handler that was dropped in its critical section leaves nothing to say of the calls:
\* from then on the list is that of the sessions.
CallsOfSessions == cut => active \subseteq Call
=============================================================================
