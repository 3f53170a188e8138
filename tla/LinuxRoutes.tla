---------------------------- MODULE LinuxRoutes ----------------------------
(***************************************************************************)
(* The network configuration of a full-tunnel session on a Linux desktop:  *)
(* Routes::install, Routes::add and Drop for Routes in                     *)
(* Backend/linux_tun.rs. install runs `ip` commands one by one, pushes an  *)
(* undo command for each that worked, and writes /etc/resolv.conf last;    *)
(* dropping the value, at the end of a session or at a failed step, puts   *)
(* resolv.conf back and runs the undo commands in reverse. Other programs  *)
(* change routes and resolv.conf meanwhile, every command may fail, and    *)
(* the process may be killed, which runs no Drop.                          *)
(***************************************************************************)
EXTENDS Sequences, FiniteSets, SequencesExt

CONSTANTS
  Prefix,      \* bypass prefixes a session may exclude from the tunnel
  Content,     \* what other programs write into resolv.conf
  Ours,        \* the content a session installs
  Broken,      \* what a failed write leaves
  NoContent,
  MayCrash     \* whether the backend may be killed

ASSUME ContentAssumption ==
  /\ Ours \notin Content
  /\ Broken \notin Content \cup {Ours}
  /\ NoContent \notin Content \cup {Ours, Broken}

ASSUME PrefixAssumption ==
  /\ IsFiniteSet(Prefix)
  /\ Prefix \cap {"table", "uidRule", "mainRule", "catchRule", "default", "alienRule", "check"}
       = {}

Rule == {"uidRule", "mainRule", "catchRule"}   \* priorities 10620, 10621, 10622
OnTun == {"table", "default"}                  \* routes over csqtt0: gone with the interface
Foreign == Prefix \cup {"alienRule"}           \* what other programs may hold, too
Object == Prefix \cup Rule \cup OnTun \cup {"alienRule"}

VARIABLES
  kernel,   \* the routes and rules in the kernel
  foreign,  \* those of other programs
  todo,     \* what install still has to do
  undo,     \* routes.undo
  policy,   \* whether the core runs under a UID of its own (uid != 0)
  pc,       \* where install, the session or Drop is
  saved,    \* install's local `previous`
  dns,      \* routes.dns: the content to put back
  resolv,   \* /etc/resolv.conf
  stuck,    \* objects whose undo command failed, which is only logged
  dnsLost,  \* a read or write that should have put resolv.conf back failed
  left      \* what a killed backend left in the kernel

vars == <<kernel, foreign, todo, undo, policy, pc, saved, dns, resolv, stuck, dnsLost, left>>

Init ==
  /\ kernel = {}
  /\ foreign = {}
  /\ todo = <<>>
  /\ undo = <<>>
  /\ policy = FALSE
  /\ pc = "none"
  /\ saved = NoContent
  /\ dns = NoContent
  /\ resolv \in Content
  /\ stuck = {}
  /\ dnsLost = FALSE
  /\ left = {}

-----------------------------------------------------------------------------
(* Routes::install.                                                        *)

Policy == <<"check", "table", "uidRule", "mainRule", "catchRule">>

\* An invalid DNS address, or no physical default route for the bypass prefixes, is an error
\* before anything is changed.
Begin ==
  /\ pc = "none"
  /\ \E bypass \in SUBSET Prefix, uid \in BOOLEAN :
       /\ todo' = SetToSeq(bypass) \o (IF uid THEN Policy ELSE <<"default">>)
       /\ policy' = uid
  /\ pc' = "add"
  /\ UNCHANGED <<kernel, foreign, undo, saved, dns, resolv, stuck, dnsLost, left>>

At(step) == pc = "add" /\ todo # <<>> /\ Head(todo) = step

\* Routes::add: the undo command is kept only for a command that worked, which it does
\* not for an object the kernel has already.
Added(o) ==
  /\ o \notin kernel
  /\ kernel' = kernel \cup {o}
  /\ undo' = Append(undo, o)

\* The mutated form keeps the undo command whether the command worked or not.
AddBypassBlindly(p) ==
  /\ At(p)
  /\ kernel' = kernel \cup {p}
  /\ undo' = Append(undo, p)
  /\ todo' = Tail(todo)
  /\ UNCHANGED <<foreign, policy, pc, saved, dns, resolv, stuck, dnsLost, left>>

\* A bypass route that cannot be added is reported and skipped.
AddBypass(p) ==
  /\ At(p)
  /\ Added(p) \/ UNCHANGED <<kernel, undo>>
  /\ todo' = Tail(todo)
  /\ UNCHANGED <<foreign, policy, pc, saved, dns, resolv, stuck, dnsLost, left>>

\* LaLune's table and priorities must be free, and the commands that list them must work.
CheckFree ==
  /\ At("check")
  /\ kernel \cap (Rule \cup {"table", "alienRule"}) = {}
  /\ todo' = Tail(todo)
  /\ UNCHANGED <<kernel, foreign, undo, policy, pc, saved, dns, resolv, stuck, dnsLost, left>>

CheckFails ==
  /\ At("check")
  /\ pc' = "compare"
  /\ todo' = <<>>
  /\ UNCHANGED <<kernel, foreign, undo, policy, saved, dns, resolv, stuck, dnsLost, left>>

AddPolicy(o) ==
  /\ At(o)
  /\ Added(o)
  /\ todo' = Tail(todo)
  /\ UNCHANGED <<foreign, policy, pc, saved, dns, resolv, stuck, dnsLost, left>>

\* The mutated form returns the error without a Routes value to drop.
PolicyFailsUndropped(o) ==
  /\ At(o)
  /\ pc' = "none"
  /\ todo' = <<>>
  /\ undo' = <<>>
  /\ kernel' = kernel \ OnTun
  /\ UNCHANGED <<foreign, policy, saved, dns, resolv, stuck, dnsLost, left>>

\* A policy command that fails ends install: the partial Routes value is dropped.
PolicyFails(o) ==
  /\ At(o)
  /\ pc' = "compare"
  /\ todo' = <<>>
  /\ UNCHANGED <<kernel, foreign, undo, policy, saved, dns, resolv, stuck, dnsLost, left>>

\* Other cores get a default route over the TUN, or keep the one there is.
AddDefault ==
  /\ At("default")
  /\ Added("default") \/ UNCHANGED <<kernel, undo>>
  /\ todo' = Tail(todo)
  /\ UNCHANGED <<foreign, policy, pc, saved, dns, resolv, stuck, dnsLost, left>>

ReadDns ==
  /\ pc = "add"
  /\ todo = <<>>
  /\ \/ saved' = resolv /\ pc' = "write"
     \/ pc' = "compare" /\ UNCHANGED saved
  /\ UNCHANGED <<kernel, foreign, todo, undo, policy, dns, resolv, stuck, dnsLost, left>>

WriteDns ==
  /\ pc = "write"
  /\ resolv' = Ours
  /\ dns' = saved
  /\ saved' = NoContent
  /\ pc' = "up"
  /\ UNCHANGED <<kernel, foreign, todo, undo, policy, stuck, dnsLost, left>>

\* The write failed half-way; `previous` is written back, which may fail as well.
WriteDnsFails ==
  /\ pc = "write"
  /\ \/ resolv' = saved /\ UNCHANGED dnsLost
     \/ resolv' = Broken /\ dnsLost' = TRUE
  /\ saved' = NoContent
  /\ pc' = "compare"
  /\ UNCHANGED <<kernel, foreign, todo, undo, policy, dns, stuck, left>>

-----------------------------------------------------------------------------
(* Drop for Routes.                                                        *)

\* The bridge task ends or is aborted.
Leave ==
  /\ pc = "up"
  /\ pc' = "compare"
  /\ UNCHANGED <<kernel, foreign, todo, undo, policy, saved, dns, resolv, stuck, dnsLost, left>>

\* The mutated form removes the routes first.
CompareLater ==
  /\ pc = "compare"
  /\ IF undo # <<>>
       THEN /\ kernel' = kernel \ ToSet(undo)
            /\ undo' = <<>>
            /\ pc' = pc
       ELSE /\ pc' = IF dns # NoContent /\ resolv = Ours THEN "restore" ELSE "undo"
            /\ UNCHANGED <<kernel, undo>>
  /\ UNCHANGED <<foreign, todo, policy, saved, dns, resolv, stuck, dnsLost, left>>

\* resolv.conf is put back only if it still holds what the session wrote.
Compare ==
  /\ pc = "compare"
  /\ pc' = IF dns # NoContent /\ resolv = Ours THEN "restore" ELSE "undo"
  /\ UNCHANGED <<kernel, foreign, todo, undo, policy, saved, dns, resolv, stuck, dnsLost, left>>

\* A resolv.conf that cannot be read counts as one the session did not write.
CompareFails ==
  /\ pc = "compare"
  /\ pc' = "undo"
  /\ dnsLost' = TRUE
  /\ UNCHANGED <<kernel, foreign, todo, undo, policy, saved, dns, resolv, stuck, left>>

Restore ==
  /\ pc = "restore"
  /\ \/ resolv' = dns /\ UNCHANGED dnsLost
     \/ resolv' \in {resolv, Broken} /\ dnsLost' = TRUE
  /\ pc' = "undo"
  /\ UNCHANGED <<kernel, foreign, todo, undo, policy, saved, dns, stuck, left>>

\* The mutated form undoes the commands in the order they were run.
UndoFirst ==
  /\ pc = "undo"
  /\ undo # <<>>
  /\ undo' = Tail(undo)
  /\ \/ kernel' = kernel \ {Head(undo)} /\ UNCHANGED stuck
     \/ stuck' = stuck \cup {Head(undo)} /\ UNCHANGED kernel
  /\ UNCHANGED <<foreign, todo, policy, pc, saved, dns, resolv, dnsLost, left>>

UndoLast ==
  /\ pc = "undo"
  /\ undo # <<>>
  /\ undo' = Front(undo)
  /\ \/ kernel' = kernel \ {Last(undo)} /\ UNCHANGED stuck
     \/ stuck' = stuck \cup {Last(undo)} /\ UNCHANGED kernel
  /\ UNCHANGED <<foreign, todo, policy, pc, saved, dns, resolv, dnsLost, left>>

\* The bridge task lets go of the device after the Routes value.
Closed ==
  /\ pc = "undo"
  /\ undo = <<>>
  /\ pc' = "none"
  /\ kernel' = kernel \ OnTun
  /\ stuck' = stuck \ OnTun
  /\ dns' = NoContent
  /\ UNCHANGED <<foreign, todo, undo, policy, saved, resolv, dnsLost, left>>

-----------------------------------------------------------------------------
(* The environment.                                                        *)

\* The process is killed: no Drop runs, and the kernel removes the interface and the routes
\* over it, not the rules and not what is in resolv.conf.
Crash ==
  /\ MayCrash
  /\ pc # "none"
  /\ pc' = "none"
  /\ kernel' = kernel \ OnTun
  /\ left' = left \cup (ToSet(undo) \ OnTun)
  /\ stuck' = stuck \ OnTun
  /\ todo' = <<>>
  /\ undo' = <<>>
  /\ saved' = NoContent
  /\ dns' = NoContent
  /\ dnsLost' = (dnsLost \/ resolv = Ours)
  /\ UNCHANGED <<foreign, policy, resolv>>

OthersWriteDns ==
  /\ resolv' \in Content
  /\ UNCHANGED <<kernel, foreign, todo, undo, policy, pc, saved, dns, stuck, dnsLost, left>>

OthersAdd(o) ==
  /\ o \notin kernel
  /\ kernel' = kernel \cup {o}
  /\ foreign' = foreign \cup {o}
  /\ UNCHANGED <<todo, undo, policy, pc, saved, dns, resolv, stuck, dnsLost, left>>

OthersRemove(o) ==
  /\ o \in foreign
  /\ kernel' = kernel \ {o}
  /\ foreign' = foreign \ {o}
  /\ UNCHANGED <<todo, undo, policy, pc, saved, dns, resolv, stuck, dnsLost, left>>

Next ==
  \/ Begin
  \/ \E p \in Prefix : AddBypass(p)
  \/ CheckFree \/ CheckFails
  \/ \E o \in Rule \cup {"table"} : AddPolicy(o) \/ PolicyFails(o)
  \/ AddDefault
  \/ ReadDns \/ WriteDns \/ WriteDnsFails
  \/ Leave \/ Compare \/ CompareFails \/ Restore \/ UndoLast \/ Closed
  \/ Crash
  \/ OthersWriteDns
  \/ \E o \in Foreign : OthersAdd(o) \/ OthersRemove(o)

Spec == Init /\ [][Next]_vars

-----------------------------------------------------------------------------
TypeOK ==
  /\ kernel \subseteq Object
  /\ foreign \subseteq Foreign
  /\ todo \in Seq(Object \cup {"check"})
  /\ undo \in Seq(Object)
  /\ policy \in BOOLEAN
  /\ pc \in {"none", "add", "write", "up", "compare", "restore", "undo"}
  /\ saved \in Content \cup {Ours, Broken, NoContent}
  /\ dns \in Content \cup {Ours, Broken, NoContent}
  /\ resolv \in Content \cup {Ours, Broken}
  /\ stuck \subseteq Object
  /\ dnsLost \in BOOLEAN
  /\ left \subseteq Object

\* A session never takes away a route another program added, not even one it wanted itself
\* and found there.
OthersKept == foreign \subseteq kernel

\* Whatever step of install failed, once the device is closed the kernel holds nothing of
\* the session but what an undo command failed on or a killed backend left.
RoutesGivenBack == pc = "none" => kernel \subseteq foreign \cup stuck \cup left

\* "Drop restores the network both at a regular end and at an abort": resolv.conf has the
\* session's DNS only while the session's routes lead to it, for it is written after them
\* and put back before them; and never after the session, unless reading or writing it
\* failed or the backend was killed.
DnsOnlyInTunnel ==
  ~dnsLost =>
    /\ pc = "none" => resolv \in Content
    /\ resolv = Ours /\ policy => {"table"} \cup Rule \subseteq kernel

\* The catch-all rule never stands without the rules that let the core's own packets and
\* local routes bypass it, in no state of install or of the undo: the core's transport
\* would be routed into its own tunnel.
CoreBypassesTunnel ==
  "catchRule" \in kernel \ stuck => {"uidRule", "mainRule"} \subseteq kernel
=============================================================================
