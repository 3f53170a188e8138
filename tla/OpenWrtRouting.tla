--------------------------- MODULE OpenWrtRouting ---------------------------
(***************************************************************************)
(* The packet selection of the OpenWRT backend: OpenWrtRouting::install,   *)
(* its Drop and the cleanups install begins with, in                       *)
(* Backend/OpenWRT/src/vpn.rs. An action is one iptables, ip or nft        *)
(* command; every command may fail, and the process may be killed between  *)
(* two of them, which runs no Drop. What the next install can do about the *)
(* remains depends on the order in which commands are run and undone.      *)
(*                                                                         *)
(* The accept rules in inet fw4 are one object, the rules of a chain are   *)
(* one object (MARK or MASQUERADE is the last of them), and firewall4      *)
(* does not give a handle to another rule of its own.                      *)
(***************************************************************************)
EXTENDS Naturals, Sequences, FiniteSets

CONSTANTS
  MaxCopies,  \* bound on the copies of an iptables rule that is inserted again and again
  MaxKills,   \* bound on the kills of the backend
  MaxStuck    \* bound on the objects left behind before a removal that could work fails

ASSUME RoutingAssumption == MaxCopies \in Nat \ {0} /\ MaxKills \in Nat /\ MaxStuck \in Nat

Chain == {"outputChain", "preroutingChain", "natChain"}
RulesOf == [outputChain |-> "outputMark", preroutingChain |-> "preroutingMark",
            natChain |-> "masquerade"]
JumpTo == [outputChain |-> "outputJump", preroutingChain |-> "preroutingJump",
           natChain |-> "natJump"]
Selection == {"outputJump", "preroutingJump"}
Forward == {"forwardOut", "forwardIn"}
Slot == {"uidRule", "markRule", "route"}   \* priorities 10620 and 10622, table 10620
Object ==
  Chain \cup Slot \cup Forward \cup {"legacyRule", "fw4"}   \* legacyRule: priority 10621
        \cup {RulesOf[c] : c \in Chain} \cup {JumpTo[c] : c \in Chain}

VARIABLES
  kernel,       \* how many copies of each object the kernel holds
  fw4,          \* whether the router has a firewall4
  at,           \* where install, the session or Drop is
  todo,         \* the commands still to be run there
  known,        \* the flags of the OpenWrtRouting value: what its Drop will undo
  tun,          \* lalune0 exists
  dns,          \* routing.dns: the content to put back
  resolv,       \* /etc/resolv.conf: written by others, by a session, or broken
  stuck,        \* objects a command that should have removed them left behind
  left,         \* what a killed backend left in the kernel
  dnsLost,      \* resolv.conf was not put back: a failure, or a kill
  kills,        \* how often the backend was killed
  disturbed     \* a kill hit a cleanup, or a listing failed that would have started one

routingVars == <<kernel, fw4, at, todo, known, tun, dns, resolv, stuck, left, dnsLost,
                 kills, disturbed>>

Has(o) == kernel[o] > 0

Legacy == {"uidRule", "legacyRule", "markRule"}

\* A router that was never used, or one with the policy rules of an old release that was
\* killed.
RoutingInit ==
  /\ kernel \in {[o \in Object |-> IF o \in there THEN 1 ELSE 0] : there \in {{}, Legacy}}
  /\ fw4 \in BOOLEAN
  /\ at = "none"
  /\ todo = <<>>
  /\ known = {}
  /\ tun = FALSE
  /\ dns = "none"
  /\ resolv = "theirs"
  /\ stuck = {}
  /\ left = {o \in Object : Has(o)}
  /\ dnsLost = FALSE
  /\ kills = 0
  /\ disturbed = FALSE

-----------------------------------------------------------------------------
(* Removing an object, as try_ip, try_iptables and try_nft do: the outcome *)
(* is not looked at.                                                       *)

\* -X refuses a chain that has rules or is jumped to.
Removable(o) ==
  /\ Has(o)
  /\ o \in Chain => ~Has(RulesOf[o]) /\ ~Has(JumpTo[o])

\* `route flush` and deletion by comment remove every copy.
IsRemoved(o) ==
  /\ Removable(o)
  /\ kernel' = [kernel EXCEPT ![o] = IF o \in {"route", "fw4"} THEN 0 ELSE @ - 1]
  /\ stuck' = IF kernel[o] = 1 THEN stuck \ {o} ELSE stuck \cup {o}
  /\ left' = IF kernel[o] = 1 THEN left \ {o} ELSE left

NotRemoved(o) ==
  /\ Removable(o) => Cardinality(stuck) < MaxStuck
  /\ stuck' = IF Has(o) THEN stuck \cup {o} ELSE stuck
  /\ UNCHANGED <<kernel, left>>

\* What a Drop undoes: a chain that is known is flushed before it is deleted.
Undone(o) == o \in known \/ \E c \in Chain \cap known : o = RulesOf[c]

\* The cleanups remove each object of theirs, a Drop those its flags name.
Remove ==
  /\ at \in {"legacy", "stale", "drop"}
  /\ todo # <<>>
  /\ at = "drop" => Undone(Head(todo))
  /\ IsRemoved(Head(todo)) \/ NotRemoved(Head(todo))
  /\ todo' = Tail(todo)
  /\ UNCHANGED <<fw4, at, known, tun, dns, resolv, dnsLost, kills, disturbed>>

Skip ==
  /\ at = "drop"
  /\ todo # <<>>
  /\ ~Undone(Head(todo))
  /\ todo' = Tail(todo)
  /\ UNCHANGED <<kernel, fw4, at, known, tun, dns, resolv, stuck, left, dnsLost, kills,
                 disturbed>>

-----------------------------------------------------------------------------
(* install.                                                                *)

LegacyOrder == <<"markRule", "legacyRule", "uidRule", "route">>

\* A cleanup is run if its remains are seen: a listing that fails shows none.
Clean(order, remains) ==
  \/ todo' = (IF remains THEN order ELSE <<>>) /\ UNCHANGED disturbed
  \/ remains /\ todo' = <<>> /\ disturbed' = TRUE

\* start_tun has opened lalune0. An old release is recognised by both of its rules.
Begin ==
  /\ at = "none"
  /\ tun' = TRUE
  /\ at' = "legacy"
  /\ Clean(LegacyOrder, Has("legacyRule") /\ Has("markRule"))
  /\ UNCHANGED <<kernel, fw4, known, dns, resolv, stuck, left, dnsLost, kills>>

StaleOrder ==
  <<"fw4", "forwardIn", "forwardOut", "outputJump", "preroutingJump", "natJump",
    "outputMark", "outputChain", "preroutingMark", "preroutingChain", "masquerade", "natChain",
    "markRule", "uidRule", "route">>

\* The mutated form looks for the chain of locally generated packets only.
LookForStaleOutput ==
  /\ at = "legacy" /\ todo = <<>>
  /\ at' = "stale"
  /\ Clean(StaleOrder, Has("outputChain"))
  /\ UNCHANGED <<kernel, fw4, known, tun, dns, resolv, stuck, left, dnsLost, kills>>

\* cleanup_stale_chains takes any of the three chains for the remains of a killed backend.
LookForStale ==
  /\ at = "legacy" /\ todo = <<>>
  /\ at' = "stale"
  /\ Clean(StaleOrder, \E c \in Chain : Has(c))
  /\ UNCHANGED <<kernel, fw4, known, tun, dns, resolv, stuck, left, dnsLost, kills>>

InstallOrder ==
  <<"outputChain", "preroutingChain", "natChain", "outputMark", "preroutingMark", "masquerade",
    "route", "uidRule", "markRule", "outputJump", "preroutingJump", "natJump",
    "forwardOut", "forwardIn", "fw4">>

SlotsFree == \A o \in Slot : ~Has(o)

\* ensure_route_slots_free and physical_default_dev.
Checked ==
  /\ at = "stale" /\ todo = <<>>
  /\ SlotsFree
  /\ at' = "install"
  /\ todo' = InstallOrder
  /\ UNCHANGED <<kernel, fw4, known, tun, dns, resolv, stuck, left, dnsLost, kills, disturbed>>

\* Slots taken, a listing that fails or no default route: there is no value to drop yet, the
\* session just opened is dropped.
CheckFails ==
  /\ at = "stale" /\ todo = <<>>
  /\ at' = "none"
  /\ tun' = FALSE
  /\ UNCHANGED <<kernel, fw4, todo, known, dns, resolv, stuck, left, dnsLost, kills,
                 disturbed>>

Installing(o) == at = "install" /\ todo # <<>> /\ Head(todo) = o

\* Chains and policy rules exist once, an iptables rule may be there before. A chain that
\* is not there cannot be filled or jumped to.
Addable(o) ==
  /\ o \in Chain \cup Slot => ~Has(o)
  /\ o = "route" => tun
  /\ kernel[o] < MaxCopies

Flags(o) == IF \E c \in Chain : o = RulesOf[c] THEN {} ELSE {o}

\* The mutated form does not set the flag of a chain it has created.
AddForgetsChain(o) ==
  /\ Installing(o) /\ o # "fw4"
  /\ Addable(o)
  /\ kernel' = [kernel EXCEPT ![o] = @ + 1]
  /\ known' = known \cup (Flags(o) \ Chain)
  /\ todo' = Tail(todo)
  /\ UNCHANGED <<fw4, at, tun, dns, resolv, stuck, left, dnsLost, kills, disturbed>>

Add(o) ==
  /\ Installing(o) /\ o # "fw4"
  /\ Addable(o)
  /\ kernel' = [kernel EXCEPT ![o] = @ + 1]
  /\ known' = known \cup Flags(o)
  /\ todo' = Tail(todo)
  /\ UNCHANGED <<fw4, at, tun, dns, resolv, stuck, left, dnsLost, kills, disturbed>>

\* install_fw4_compat: earlier rules are removed by their comment, three are inserted, and
\* exactly three must be listed then.
AddFw4 ==
  /\ Installing("fw4")
  /\ IF fw4
       THEN /\ kernel' = [kernel EXCEPT !["fw4"] = 1]
            /\ known' = known \cup {"fw4"}
            /\ stuck' = stuck \ {"fw4"}
            /\ left' = left \ {"fw4"}
       ELSE UNCHANGED <<kernel, known, stuck, left>>
  /\ todo' = <<>>
  /\ UNCHANGED <<fw4, at, tun, dns, resolv, dnsLost, kills, disturbed>>

-----------------------------------------------------------------------------
(* Drop for OpenWrtRouting.                                                *)

\* The mutated forms: the rule of the core, or the jumps at another place.
DropUidFirst ==
  <<"outputJump", "preroutingJump", "forwardIn", "forwardOut", "fw4", "natJump",
    "uidRule", "markRule", "route",
    "outputMark", "outputChain", "preroutingMark", "preroutingChain", "masquerade", "natChain">>

DropJumpsLate ==
  <<"forwardIn", "forwardOut", "fw4", "natJump", "markRule", "uidRule", "route",
    "outputJump", "preroutingJump",
    "outputMark", "outputChain", "preroutingMark", "preroutingChain", "masquerade", "natChain">>

DropOrder ==
  <<"outputJump", "preroutingJump", "forwardIn", "forwardOut", "fw4", "natJump",
    "markRule", "uidRule", "route",
    "outputMark", "outputChain", "preroutingMark", "preroutingChain", "masquerade", "natChain">>

BeginDrop ==
  /\ at' = "drop"
  /\ todo' = DropOrder

\* A command of install fails: the partial value is dropped. A failed firewall4 step has
\* tried to take its rules away again.
AddFails ==
  /\ at = "install" /\ todo # <<>>
  /\ Head(todo) = "fw4" => fw4
  /\ BeginDrop
  /\ IF Head(todo) = "fw4"
       THEN \/ kernel' = [kernel EXCEPT !["fw4"] = 0] /\ stuck' = stuck \ {"fw4"}
                 /\ left' = left \ {"fw4"}
            \/ kernel' = [kernel EXCEPT !["fw4"] = 1] /\ stuck' = stuck \cup {"fw4"}
                 /\ UNCHANGED left
       ELSE UNCHANGED <<kernel, stuck, left>>
  /\ UNCHANGED <<fw4, known, tun, dns, resolv, dnsLost, kills, disturbed>>

InstallDns ==
  /\ at = "install" /\ todo = <<>>
  /\ dns' = resolv
  /\ resolv' = "ours"
  /\ at' = "up"
  /\ UNCHANGED <<kernel, fw4, todo, known, tun, stuck, left, dnsLost, kills, disturbed>>

\* resolv.conf cannot be read, or the write fails and `previous` is written back, which may
\* fail as well.
DnsFails ==
  /\ at = "install" /\ todo = <<>>
  /\ BeginDrop
  /\ \/ UNCHANGED <<resolv, dnsLost>>
     \/ resolv' = "broken" /\ dnsLost' = TRUE
  /\ UNCHANGED <<kernel, fw4, known, tun, dns, stuck, left, kills, disturbed>>

\* The bridge task ends by itself: the interface goes and takes its route along.
BridgeEnds ==
  /\ at = "up" /\ tun
  /\ tun' = FALSE
  /\ kernel' = [kernel EXCEPT !["route"] = 0]
  /\ UNCHANGED <<fw4, at, todo, known, dns, resolv, stuck, left, dnsLost, kills, disturbed>>

\* stop_tun takes the value out of vpn.routing and drops it.
Stop ==
  /\ at = "up"
  /\ BeginDrop
  /\ UNCHANGED <<kernel, fw4, known, tun, dns, resolv, stuck, left, dnsLost, kills,
                 disturbed>>

\* resolv.conf is put back last, if it still is what the session wrote.
RestoreDns ==
  /\ at = "drop" /\ todo = <<>>
  /\ \/ /\ resolv' = IF dns # "none" /\ resolv = "ours" THEN dns ELSE resolv
        /\ UNCHANGED dnsLost
     \/ /\ resolv' \in {resolv, "broken"}
        /\ dns # "none" /\ resolv = "ours"
        /\ dnsLost' = TRUE
  /\ at' = "closing"
  /\ UNCHANGED <<kernel, fw4, todo, known, tun, dns, stuck, left, kills, disturbed>>

\* The session is stopped after its routing.
Closed ==
  /\ at = "closing"
  /\ at' = "none"
  /\ tun' = FALSE
  /\ known' = {}
  /\ dns' = "none"
  /\ kernel' = [kernel EXCEPT !["route"] = 0]
  /\ stuck' = stuck \ {"route"}
  /\ UNCHANGED <<fw4, todo, resolv, left, dnsLost, kills, disturbed>>

-----------------------------------------------------------------------------
(* The environment.                                                        *)

\* A killed process runs no Drop; its TUN goes with it, and the route over it.
Kill ==
  /\ at # "none"
  /\ kills < MaxKills
  /\ kills' = kills + 1
  /\ disturbed' = (disturbed \/ (at \in {"legacy", "stale"} /\ todo # <<>>))
  /\ at' = "none"
  /\ todo' = <<>>
  /\ known' = {}
  /\ tun' = FALSE
  /\ dns' = "none"
  /\ kernel' = [kernel EXCEPT !["route"] = 0]
  /\ stuck' = stuck \ {"route"}
  /\ left' = {o \in Object : kernel'[o] > 0}
  /\ dnsLost' = (dnsLost \/ resolv = "ours")
  /\ UNCHANGED <<fw4, resolv>>

\* The firewall is reloaded: its own table is rebuilt without foreign rules.
FirewallReload ==
  /\ fw4 /\ Has("fw4")
  /\ kernel' = [kernel EXCEPT !["fw4"] = 0]
  /\ stuck' = stuck \ {"fw4"}
  /\ left' = left \ {"fw4"}
  /\ UNCHANGED <<fw4, at, todo, known, tun, dns, resolv, dnsLost, kills, disturbed>>

OthersWriteDns ==
  /\ resolv # "theirs"
  /\ resolv' = "theirs"
  /\ UNCHANGED <<kernel, fw4, at, todo, known, tun, dns, stuck, left, dnsLost, kills,
                 disturbed>>

RoutingNext ==
  \/ Begin \/ Remove \/ Skip \/ LookForStale \/ Checked \/ CheckFails
  \/ \E o \in Object : Add(o)
  \/ AddFw4 \/ AddFails \/ InstallDns \/ DnsFails
  \/ BridgeEnds \/ Stop \/ RestoreDns \/ Closed
  \/ Kill \/ FirewallReload \/ OthersWriteDns

RoutingSpec == RoutingInit /\ [][RoutingNext]_routingVars

-----------------------------------------------------------------------------
RoutingTypeOK ==
  /\ kernel \in [Object -> 0..MaxCopies]
  /\ fw4 \in BOOLEAN
  /\ at \in {"none", "legacy", "stale", "install", "up", "drop", "closing"}
  /\ todo \in Seq(Object)
  /\ known \subseteq Object
  /\ tun \in BOOLEAN
  /\ dns \in {"none", "theirs", "ours", "broken"}
  /\ resolv \in {"theirs", "ours", "broken"}
  /\ stuck \subseteq Object
  /\ left \subseteq Object
  /\ dnsLost \in BOOLEAN
  /\ kills \in 0..MaxKills
  /\ disturbed \in BOOLEAN

\* Whatever step a killed backend was killed at, the next install finds its remains and
\* clears all of them away before it looks whether the table and the priorities are free -
\* unless a command failed, or a kill hit such a cleanup itself.
RemainsCleared ==
  at = "stale" /\ todo = <<>> /\ stuck = {} /\ ~disturbed => \A o \in Object : ~Has(o)

\* "Activate packet selection only after the policy table is ready", "stop selecting packets
\* first": while a jump of the session's own marks packets there are rules to send them
\* somewhere, and a route as long as there is a TUN. A jump that stuck is excused.
SelectionNeedsPolicy ==
  \A o \in Selection \cap known : Has(o) /\ o \notin stuck =>
    Has("uidRule") /\ Has("markRule") /\ (tun => Has("route"))

\* The core "always stays on the physical/main route, preventing a VPN recursion loop":
\* marked packets never go to the TUN without the rule that lets the core out.
CoreNeverRecurses ==
  Has("markRule") /\ Has("route") /\ "markRule" \notin stuck => Has("uidRule")

\* A session that is over, at whichever step its install failed, has left nothing but what
\* a command failed to remove and what a killed backend had left; and resolv.conf does not
\* keep its DNS, unless a read or write failed or the backend was killed.
GivenBack ==
  at = "none" =>
    /\ \A o \in Object : Has(o) => o \in stuck \cup left
    /\ ~dnsLost => resolv = "theirs"
=============================================================================
