---------------------------- MODULE RouterSwitch ----------------------------
(***************************************************************************)
(* How the front end changes between its own backend and routers:          *)
(* RouterNotifier (router_notifier.dart) and the host of ApiClient. Dart   *)
(* runs one task at a time, but every await of connect lets other calls    *)
(* run: another connect, a disconnect, a removal.                          *)
(***************************************************************************)
EXTENDS Naturals, FiniteSets, Sequences

CONSTANTS
  Router,       \* routers, by their addresses
  Task,         \* calls of connect and removeRouter that may be under way at once
  Local,        \* 127.0.0.1
  None,
  Protocols,    \* what the backends answer to /core/protocols
  MaxRestarts   \* bound on the restarts of the application

ASSUME HostsAssumption == Local \notin Router /\ None \notin Router \cup {Local}
ASSUME ProtocolsAssumption ==
  Protocols \subseteq {"CSQTT", "CSQTT 2.1.9", "CSQTT 2.5.1", "PaperFlux"}
ASSUME RestartsAssumption == MaxRestarts \in Nat

Host == Router \cup {Local}

VARIABLES
  protocols,   \* the protocol each host knows
  host,        \* api.host
  activeRouter, \* state.activeRouter
  saved,       \* state.savedRouters
  loading,     \* _loadSaved is still waiting for the preferences
  prefs,       \* what the preferences hold under _prefsKey, None before the first write
  writes,      \* how many _saveSaved wait for the preferences
  ahead,       \* for each removeRouter, the writes up to its own
  pc,          \* where each call is
  target,      \* its router
  remote,      \* the protocols of the router it has read
  restarts

stored == <<saved, loading, prefs, writes, ahead>>
calls == <<pc, target, remote>>
vars == <<protocols, host, activeRouter, stored, calls, restarts>>

Init ==
  /\ protocols \in [Host -> Protocols]
  /\ host = Local
  /\ activeRouter = None
  /\ saved = {}
  /\ loading = TRUE
  /\ prefs \in SUBSET Router \cup {None}
  /\ writes = 0
  /\ ahead = [f \in Task |-> 0]
  /\ pc = [f \in Task |-> "idle"]
  /\ target = [f \in Task |-> None]
  /\ remote = [f \in Task |-> None]
  /\ restarts = 0

-----------------------------------------------------------------------------
(* The saved routers.                                                      *)

\* Calls wait for the preferences in the order they were made, and _loadSaved was first.
LoadSaved ==
  /\ loading
  /\ loading' = FALSE
  /\ saved' = IF prefs = None THEN saved ELSE prefs
  /\ UNCHANGED <<protocols, host, activeRouter, prefs, writes, ahead, calls, restarts>>

\* _saveSaved writes the list as it is once the preferences are there.
SaveSaved ==
  /\ ~loading
  /\ writes > 0
  /\ prefs' = saved
  /\ writes' = writes - 1
  /\ ahead' = [f \in Task |-> IF ahead[f] > 0 THEN ahead[f] - 1 ELSE 0]
  /\ UNCHANGED <<protocols, host, activeRouter, saved, loading, calls, restarts>>

\* The mutated form forgets to write the list.
AddUnsaved(r) ==
  /\ r \notin saved
  /\ saved' = saved \cup {r}
  /\ UNCHANGED <<protocols, host, activeRouter, loading, prefs, writes, ahead, calls, restarts>>

\* addManualIp and addFromScan, for a router that has answered. (Adding one of the list by
\* hand writes the same list once more, which is left out.)
Add(r) ==
  /\ r \notin saved
  /\ saved' = saved \cup {r}
  /\ writes' = writes + 1
  /\ UNCHANGED <<protocols, host, activeRouter, loading, prefs, ahead, calls, restarts>>

Step(f, from, to) ==
  /\ pc[f] = from
  /\ pc' = [pc EXCEPT ![f] = to]

\* removeRouter, until it waits for the list to be written.
Remove(f, r) ==
  /\ Step(f, "idle", "removing")
  /\ r \in saved
  /\ saved' = saved \ {r}
  /\ writes' = writes + 1
  /\ ahead' = [ahead EXCEPT ![f] = writes']
  /\ target' = [target EXCEPT ![f] = r]
  /\ UNCHANGED <<protocols, host, activeRouter, loading, prefs, remote, restarts>>

\* The call is over.
TaskEnds(f) ==
  /\ target' = [target EXCEPT ![f] = None]
  /\ remote' = [remote EXCEPT ![f] = None]

Disconnected ==
  /\ host' = Local
  /\ activeRouter' = None

\* The router is removed; if the API is at it, it goes back.
RemoveDone(f) ==
  /\ Step(f, "removing", "idle")
  /\ ahead[f] = 0
  /\ IF activeRouter = target[f] THEN Disconnected ELSE UNCHANGED <<host, activeRouter>>
  /\ TaskEnds(f)
  /\ UNCHANGED <<protocols, stored, restarts>>

-----------------------------------------------------------------------------
(* connect, one request after the other.                                   *)

ConnectTo(f, r) ==
  /\ Step(f, "idle", "ping")
  /\ target' = [target EXCEPT ![f] = r]
  /\ UNCHANGED <<protocols, host, activeRouter, stored, remote, restarts>>

Pinged(f) ==
  /\ Step(f, "ping", "remote")
  /\ UNCHANGED <<protocols, host, activeRouter, stored, target, remote, restarts>>

RemoteRead(f) ==
  /\ Step(f, "remote", "local")
  /\ remote' = [remote EXCEPT ![f] = protocols[target[f]]]
  /\ UNCHANGED <<protocols, host, activeRouter, stored, target, restarts>>

\* _protocolIdsMatch, for the one protocol of each backend: the legacy identifier goes with
\* every version of its family.
Match(local, other) ==
  \/ local = other
  \/ {local, other} \in {{"CSQTT", "CSQTT 2.1.9"}, {"CSQTT", "CSQTT 2.5.1"}}

\* The mutated form asks whichever backend the API is at.
HereReadAnywhere(f) ==
  /\ Step(f, "local", IF Match(protocols[host], remote[f]) THEN "token" ELSE "failed")
  /\ UNCHANGED <<protocols, host, activeRouter, stored, target, remote, restarts>>

\* The protocols of the local backend decide, also when the API is at a router.
HereRead(f) ==
  /\ Step(f, "local", IF Match(protocols[Local], remote[f]) THEN "token" ELSE "failed")
  /\ UNCHANGED <<protocols, host, activeRouter, stored, target, remote, restarts>>

\* No answer to one of the first three requests ends the call with an error.
Unanswered(f) ==
  /\ \E from \in {"ping", "remote", "local"} : Step(f, from, "failed")
  /\ UNCHANGED <<protocols, host, activeRouter, stored, target, remote, restarts>>

\* The error is in the state, which the caller shows.
Failed(f) ==
  /\ Step(f, "failed", "idle")
  /\ TaskEnds(f)
  /\ UNCHANGED <<protocols, host, activeRouter, stored, restarts>>

\* The token has been asked of the API's host. An empty one, or no answer, ends like a posted one.
TokenRead(f) ==
  /\ Step(f, "token", "post")
  /\ UNCHANGED <<protocols, host, activeRouter, stored, target, remote, restarts>>

\* The token has been posted, or not: then the API goes to the router.
Switched(f) ==
  /\ Step(f, "post", "idle")
  /\ host' = target[f]
  /\ activeRouter' = target[f]
  /\ TaskEnds(f)
  /\ UNCHANGED <<protocols, stored, restarts>>

-----------------------------------------------------------------------------
\* The banner that calls it is there while a router is active.
Disconnect ==
  /\ activeRouter # None
  /\ Disconnected
  /\ UNCHANGED <<protocols, stored, pc, target, remote, restarts>>

\* The application ends and starts again: the active router is not read back.
Restart ==
  /\ restarts < MaxRestarts
  /\ restarts' = restarts + 1
  /\ host' = Local
  /\ activeRouter' = None
  /\ saved' = {}
  /\ loading' = TRUE
  /\ writes' = 0
  /\ ahead' = [f \in Task |-> 0]
  /\ pc' = [f \in Task |-> "idle"]
  /\ target' = [f \in Task |-> None]
  /\ remote' = [f \in Task |-> None]
  /\ UNCHANGED <<protocols, prefs>>

Next ==
  \/ LoadSaved \/ SaveSaved \/ Disconnect \/ Restart
  \/ \E r \in Router : Add(r)
  \/ \E f \in Task :
       \/ \E r \in Router : Remove(f, r) \/ ConnectTo(f, r)
       \/ RemoveDone(f) \/ Pinged(f) \/ RemoteRead(f) \/ HereRead(f) \/ Unanswered(f)
       \/ Failed(f) \/ TokenRead(f) \/ Switched(f)

Spec == Init /\ [][Next]_vars

-----------------------------------------------------------------------------
TypeOK ==
  /\ protocols \in [Host -> Protocols]
  /\ host \in Host
  /\ activeRouter \in Router \cup {None}
  /\ saved \subseteq Router
  /\ loading \in BOOLEAN
  /\ prefs \in SUBSET Router \cup {None}
  /\ writes \in Nat
  /\ ahead \in [Task -> Nat]
  /\ pc \in [Task -> {"idle", "removing", "ping", "remote", "local", "failed", "token", "post"}]
  /\ target \in [Task -> Router \cup {None}]
  /\ remote \in [Task -> Protocols \cup {None}]
  /\ restarts \in 0..MaxRestarts

\* "A previously selected router must not stand in for the local backend": a router can only
\* become active if its protocols match the local ones, also when it is reached from another.
ActiveCompatible == activeRouter # None => Match(protocols[Local], protocols[activeRouter])

\* What the list shows is what the next start will load, once no write is under way.
ListIsStored ==
  ~loading /\ writes = 0 => \/ prefs = saved
                            \/ prefs = None /\ saved = {}
=============================================================================
