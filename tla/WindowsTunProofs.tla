--------------------------- MODULE WindowsTunProofs ---------------------------
(***************************************************************************)
(* Proofs about WindowsTun, for any number of sessions, any prefixes and   *)
(* any clients of the proxy: no bridge thread revives in a later session   *)
(* (NoRevival), no bypass route is forgotten (BypassTracked), and a client  *)
(* of the proxy misses its route over the TUN for one reason only          *)
(* (RoutedUnlessStale).                                                    *)
(***************************************************************************)
EXTENDS WindowsTun, Integers, TLAPS

Live(t) == at[t] \in {"loop", "take", "give"}
Current(t) == mine[t[1]] = generation
Starting == {"opening", "routed", "up"}

Typed ==
  /\ sessions \in 0..MaxSessions /\ generation \in Nat /\ wintun \in Nat
  /\ mine \in [Session -> Nat]
  /\ at \in [Thread -> {"none", "loop", "take", "give", "ended"}]
  /\ holds \in [Thread -> Nat] /\ strays \in [Thread -> Nat]

\* A session is running only between its start and stop_tun, on the generation it
\* was announced with.
SlotInv ==
  /\ tun \in Starting => sessions \in Session /\ wintun = sessions
  /\ tun \in {"routed", "up"} => running
  /\ running => tun \in Starting /\ mine[sessions] = generation

\* Live threads are of this generation or older ones, and only those of the
\* session that runs are of this one.
ThreadInv ==
  \A t \in Thread :
    /\ Live(t) => /\ t[1] <= sessions /\ mine[t[1]] <= generation
                  /\ Current(t) => running /\ t[1] = sessions
    /\ t[1] > sessions => at[t] = "none"
    /\ tun \in {"opening", "routed"} /\ t[1] = sessions => at[t] = "none"

\* A thread whose packet went astray finds itself outdated at its next check.
StrayInv ==
  \A t \in Thread :
    /\ strays[t] # 0 => strays[t] = 1 /\ at[t] \in {"loop", "ended"}
    /\ strays[t] # 0 /\ at[t] = "loop" => ~Current(t)
    /\ at[t] = "give" /\ Current(t) => holds[t] = t[1]

TunInv == Typed /\ SlotInv /\ ThreadInv /\ StrayInv

(* A thread is named by its session and its direction.                     *)
LEMMA ThreadParts == ASSUME NEW t \in Thread PROVE t[1] \in Session /\ t[1] \in Nat
  BY TunAssumption DEF Thread, Session

(* Opening a session: the threads that live are of older generations.      *)
LEMMA OpenKeeps ==
  ASSUME TunInv, Open
  PROVE  TunInv'
<1> USE TunAssumption DEF TunInv
<1>1. /\ tun = "cleared" /\ tun' = "opening" /\ sessions < MaxSessions
      /\ sessions' = sessions + 1 /\ wintun' = sessions'
      /\ UNCHANGED <<running, generation, mine, at, holds, strays>>
  BY DEF Open, bridge
<1>2. ~running /\ sessions' \in Session
  BY <1>1 DEF SlotInv, Starting, Typed, Session
<1>3. Typed'
  BY <1>1, <1>2 DEF Typed, Session
<1>4. SlotInv'
  BY <1>1, <1>2 DEF SlotInv, Starting
<1>5. ThreadInv'
  BY <1>1, <1>2, ThreadParts DEF ThreadInv, Live, Current, Typed
<1>6. StrayInv'
  BY <1>1 DEF StrayInv, Current
<1> QED
  BY <1>3, <1>4, <1>5, <1>6

(* Announcing it: the new generation is nobody's yet.                      *)
LEMMA AnnounceKeeps ==
  ASSUME TunInv, Announce
  PROVE  TunInv'
<1> USE TunAssumption DEF TunInv
<1>1. /\ tun = "opening" /\ sessions \in Session /\ wintun = sessions
      /\ generation' = generation + 1 /\ running'
      /\ UNCHANGED <<tun, wintun, sessions, at, holds, strays>>
  BY DEF Announce, SlotInv, Starting, proxyVars
<1>2. /\ mine' \in [Session -> Nat] /\ mine'[sessions] = generation'
      /\ \A s \in Session : s # sessions => mine'[s] = mine[s]
  BY <1>1 DEF Announce, Typed
<1>3. \A t \in Thread : t[1] = sessions => at[t] = "none"
  BY <1>1 DEF ThreadInv
<1>4. \A t \in Thread : Live(t) => mine'[t[1]] = mine[t[1]] /\ mine[t[1]] <= generation
  BY <1>2, <1>3, ThreadParts DEF ThreadInv, Live
<1>5. \A t \in Thread : Live(t) => mine'[t[1]] < generation'
  <2> SUFFICES ASSUME NEW t \in Thread, Live(t)
               PROVE  mine'[t[1]] < generation'
    OBVIOUS
  <2>1. mine[t[1]] \in Nat /\ generation \in Nat
    BY ThreadParts DEF Typed
  <2> QED
    BY <1>1, <1>4, <2>1
<1>6. Typed'
  BY <1>1, <1>2 DEF Typed
<1>7. SlotInv'
  BY <1>1, <1>2 DEF SlotInv, Starting
<1>8. ThreadInv'
  <2> SUFFICES ASSUME NEW t \in Thread
               PROVE  /\ Live(t)' => /\ t[1] <= sessions' /\ mine'[t[1]] <= generation'
                                     /\ Current(t)' => running' /\ t[1] = sessions'
                      /\ t[1] > sessions' => at'[t] = "none"
                      /\ tun' \in {"opening", "routed"} /\ t[1] = sessions' => at'[t] = "none"
    BY DEF ThreadInv
  <2>1. mine'[t[1]] \in Nat /\ generation' \in Nat
    BY <1>2, <1>6, ThreadParts DEF Typed
  <2> QED
    BY <1>1, <1>3, <1>5, <2>1 DEF ThreadInv, Live, Current
<1>9. StrayInv'
  <2> SUFFICES ASSUME NEW t \in Thread
               PROVE  /\ strays'[t] # 0 => strays'[t] = 1 /\ at'[t] \in {"loop", "ended"}
                      /\ strays'[t] # 0 /\ at'[t] = "loop" => ~Current(t)'
                      /\ at'[t] = "give" /\ Current(t)' => holds'[t] = t[1]
    BY DEF StrayInv
  <2>1. mine'[t[1]] \in Nat /\ generation' \in Nat
    BY <1>2, <1>6, ThreadParts DEF Typed
  <2>2. Live(t) => ~Current(t)'
    BY <1>5, <2>1 DEF Current
  <2> QED
    BY <1>1, <2>2 DEF StrayInv, Live
<1> QED
  BY <1>6, <1>7, <1>8, <1>9

(* stop_tun moves on to a generation that no thread has.                   *)
LEMMA StopKeeps ==
  ASSUME TunInv, StopTun
  PROVE  TunInv'
<1> USE DEF TunInv
<1>1. /\ tun' = "down" /\ generation' = generation + 1 /\ ~running' /\ wintun' = 0
      /\ UNCHANGED <<sessions, mine, at, holds, strays>>
  BY DEF StopTun, TunStops, bridge
<1>2. Typed'
  BY <1>1 DEF Typed
<1>3. SlotInv'
  BY <1>1 DEF SlotInv, Starting
<1>4. \A t \in Thread : Live(t) => mine[t[1]] <= generation' /\ ~Current(t)'
  <2> SUFFICES ASSUME NEW t \in Thread, Live(t)
               PROVE  mine[t[1]] <= generation' /\ mine[t[1]] # generation'
    BY <1>1 DEF Current
  <2>1. mine[t[1]] \in Nat /\ generation \in Nat /\ mine[t[1]] <= generation
    BY ThreadParts DEF Typed, ThreadInv
  <2> QED
    BY <1>1, <2>1
<1>5. ThreadInv'
  BY <1>1, <1>4 DEF ThreadInv, Live
<1>6. StrayInv'
  BY <1>1, <1>4 DEF StrayInv, Live
<1> QED
  BY <1>2, <1>3, <1>5, <1>6

(* The threads of the session that starts are of its generation.           *)
LEMMA SpawnKeeps ==
  ASSUME TunInv, SpawnBridge
  PROVE  TunInv'
<1> USE DEF TunInv
<1>1. /\ tun = "routed" /\ tun' = "up" /\ running /\ mine[sessions] = generation
      /\ sessions \in Session
      /\ UNCHANGED <<running, generation, wintun, sessions, mine, holds, strays>>
  BY DEF SpawnBridge, SlotInv, Starting, slot
<1>2. /\ at' \in [Thread -> {"none", "loop", "take", "give", "ended"}]
      /\ \A t \in Thread : at'[t] = at[t] \/ (t[1] = sessions /\ at[t] = "none" /\ at'[t] = "loop")
  <2>1. PICK started \in {{"wintun->udp"}, {"wintun->udp", "udp->wintun"}} :
          at' = [t \in Thread |-> IF t[1] = sessions /\ t[2] \in started THEN "loop" ELSE at[t]]
    BY DEF SpawnBridge
  <2>2. \A t \in Thread : t[1] = sessions => at[t] = "none"
    BY <1>1 DEF ThreadInv
  <2> QED
    BY <2>1, <2>2 DEF Typed
<1>3. Typed'
  BY <1>1, <1>2 DEF Typed
<1>4. SlotInv'
  BY <1>1 DEF SlotInv, Starting
<1>5. sessions \in Nat /\ generation \in Nat
  BY DEF Typed
<1>6. ThreadInv'
  <2> SUFFICES ASSUME NEW t \in Thread
               PROVE  /\ Live(t)' => /\ t[1] <= sessions' /\ mine'[t[1]] <= generation'
                                     /\ Current(t)' => running' /\ t[1] = sessions'
                      /\ t[1] > sessions' => at'[t] = "none"
                      /\ tun' \in {"opening", "routed"} /\ t[1] = sessions' => at'[t] = "none"
    BY DEF ThreadInv
  <2>1. CASE at'[t] = at[t]
    BY <1>1, <2>1 DEF ThreadInv, Live, Current
  <2>2. CASE t[1] = sessions /\ at[t] = "none" /\ at'[t] = "loop"
    BY <1>1, <1>5, <2>2 DEF Live, Current
  <2> QED
    BY <1>2, <2>1, <2>2
<1>7. StrayInv'
  BY <1>1, <1>2 DEF StrayInv, Current
<1> QED
  BY <1>3, <1>4, <1>6, <1>7

(* A killed backend leaves no thread.                                      *)
LEMMA KillKeeps ==
  ASSUME TunInv, Kill
  PROVE  TunInv'
<1> USE DEF TunInv
<1>1. /\ tun' = "cleared" /\ ~running' /\ generation' = 0 /\ wintun' = 0
      /\ UNCHANGED <<sessions, mine, strays>>
  BY DEF Kill
<1>2. /\ at' \in [Thread -> {"none", "ended"}]
      /\ \A t \in Thread : at[t] = "none" <=> at'[t] = "none"
      /\ holds' \in [Thread -> Nat]
  BY DEF Kill
<1>3. Typed'
  BY <1>1, <1>2 DEF Typed
<1>4. SlotInv'
  BY <1>1 DEF SlotInv, Starting
<1>5. ThreadInv'
  BY <1>1, <1>2 DEF ThreadInv, Live
<1>6. StrayInv'
  BY <1>1, <1>2 DEF StrayInv
<1> QED
  BY <1>3, <1>4, <1>5, <1>6

(* A step of a thread: what it takes while it is current is of its own     *)
(* session, and only a current one takes anything.                         *)
LEMMA BridgeKeeps ==
  ASSUME TunInv, NEW t \in Thread, Bridge(t)
  PROVE  TunInv'
<1> USE DEF TunInv
<1>1. UNCHANGED <<tun, running, generation, wintun, sessions, mine>>
  BY DEF Bridge, CheckLoop, Take, RecvBreaks, Give, slot, proxyVars
<1>2. /\ at[t] \in {"loop", "take"} \/ at[t] = "give"
      /\ at' \in [Thread -> {"none", "loop", "take", "give", "ended"}]
      /\ at'[t] \in {"loop", "take", "give", "ended"}
      /\ \A u \in Thread \ {t} : at'[u] = at[u] /\ holds'[u] = holds[u] /\ strays'[u] = strays[u]
  BY DEF Bridge, CheckLoop, Take, RecvBreaks, Give, Typed
<1>3. t[1] \in Nat /\ wintun \in Nat /\ strays[t] \in Nat /\ holds[t] \in Nat
  BY ThreadParts DEF Typed
<1>4. Typed'
  <2>1. holds' \in [Thread -> Nat]
    BY <1>3 DEF Bridge, CheckLoop, Take, RecvBreaks, Give, Typed
  <2>2. strays' \in [Thread -> Nat]
    BY <1>3 DEF Bridge, CheckLoop, Take, RecvBreaks, Give, Typed
  <2> QED
    BY <1>1, <1>2, <2>1, <2>2 DEF Typed
<1>5. SlotInv'
  BY <1>1 DEF SlotInv
<1>6. ThreadInv'
  BY <1>1, <1>2 DEF ThreadInv, Live, Current
<1>7. Current(t) /\ Live(t) => running /\ t[1] = sessions /\ wintun = t[1]
  BY DEF ThreadInv, SlotInv
<1>8. /\ strays'[t] # 0 => strays'[t] = 1 /\ at'[t] \in {"loop", "ended"}
      /\ strays'[t] # 0 /\ at'[t] = "loop" => ~Current(t)
      /\ at'[t] = "give" /\ Current(t) => holds'[t] = t[1]
  <2>1. CASE CheckLoop(t)
    <3>1. /\ at[t] = "loop" /\ strays'[t] = strays[t]
          /\ at'[t] = IF running /\ Current(t) THEN "take" ELSE "ended"
      BY <2>1 DEF CheckLoop, Typed, Current
    <3> QED
      BY <3>1 DEF StrayInv
  <2>2. CASE Take(t)
    <3>1. PICK from \in {0, IF t[2] = "wintun->udp" THEN wintun ELSE t[1]} :
            /\ holds' = [holds EXCEPT ![t] = from]
            /\ at' = [at EXCEPT ![t] = IF from = 0 THEN "loop" ELSE "give"]
      BY <2>2 DEF Take
    <3>2. holds'[t] = from /\ at'[t] = IF from = 0 THEN "loop" ELSE "give"
      BY <3>1 DEF Typed
    <3>3. at[t] = "take" /\ strays'[t] = strays[t] /\ strays[t] = 0
      BY <2>2 DEF Take, StrayInv
    <3> QED
      BY <1>7, <3>1, <3>2, <3>3 DEF Live
  <2>3. CASE RecvBreaks(t)
    <3>1. at[t] = "take" /\ at'[t] = "ended" /\ strays'[t] = strays[t]
      BY <2>3 DEF RecvBreaks, Typed
    <3> QED
      BY <3>1 DEF StrayInv
  <2>4. CASE Give(t)
    <3> DEFINE to == IF t[2] = "wintun->udp" THEN t[1] ELSE wintun
    <3>1. /\ at[t] = "give" /\ at'[t] = "loop" /\ strays[t] = 0
          /\ strays'[t] = IF to \in {0, holds[t]} THEN strays[t] ELSE strays[t] + 1
      BY <2>4 DEF Give, Typed, StrayInv
    <3>2. Current(t) => to = holds[t]
      BY <1>7, <3>1 DEF StrayInv, Live
    <3> QED
      BY <3>1, <3>2
  <2> QED
    BY <2>1, <2>2, <2>3, <2>4 DEF Bridge
<1>9. StrayInv'
  <2>1. \A u \in Thread : Current(u)' <=> Current(u)
    BY <1>1 DEF Current
  <2> QED
    BY <1>2, <1>8, <2>1 DEF StrayInv
<1> QED
  BY <1>4, <1>5, <1>6, <1>9

(* Steps that leave the slot and the threads alone.                        *)
LEMMA OthersKeep ==
  ASSUME TunInv,
         UNCHANGED <<running, generation, wintun, sessions, mine, at, holds, strays>>,
         \/ tun' = tun
         \/ tun = "opening" /\ running /\ tun' = "routed"
         \/ tun = "down" /\ tun' = "cleared"
  PROVE  TunInv'
<1> USE DEF TunInv
<1>1. Typed'
  BY DEF Typed
<1>2. SlotInv'
  BY DEF SlotInv, Starting
<1>3. ThreadInv'
  BY DEF ThreadInv, Live, Current
<1>4. StrayInv'
  BY DEF StrayInv, Current
<1> QED
  BY <1>1, <1>2, <1>3, <1>4

(* stop_tun, the generation guard and the slot of the Wintun session keep   *)
(* every thread of an old session to one packet at most.                    *)
THEOREM RevivalExcluded == Spec => []NoRevival
<1>1. Init => TunInv
  <2> SUFFICES ASSUME Init
               PROVE  TunInv
    OBVIOUS
  <2>1. Typed
    BY TunAssumption DEF Init, Typed
  <2>2. SlotInv
    BY DEF Init, ProxyInit, SlotInv, Starting
  <2>3. ThreadInv /\ StrayInv
    BY DEF Init, ProxyInit, ThreadInv, StrayInv, Live
  <2> QED
    BY <2>1, <2>2, <2>3 DEF TunInv
<1>2. TunInv /\ [Next]_vars => TunInv'
  <2> SUFFICES ASSUME TunInv, [Next]_vars
               PROVE  TunInv'
    OBVIOUS
  <2>1. CASE UNCHANGED vars
    BY <2>1, OthersKeep DEF vars, proxyVars, tunVars, slot, bridge
  <2>2. CASE Configure
    BY <2>2, OthersKeep DEF Configure, proxyVars, slot, bridge
  <2>3. CASE SetupRoutes
    BY <2>3, OthersKeep DEF SetupRoutes, slot, bridge
  <2>4. CASE FinishVpn
    BY <2>4, OthersKeep DEF FinishVpn, Finish, slot, bridge
  <2>5. CASE ClientNext /\ UNCHANGED tunVars
    <3>1. tun' = tun
      BY <2>5 DEF ClientNext, Accept, Check, Route, RouteFails, Push, Connect, Close
    <3> QED
      BY <2>5, <3>1, OthersKeep DEF tunVars, slot, bridge
  <2>6. ASSUME NEW t \in Thread, Bridge(t)
        PROVE  TunInv'
    BY <2>6, BridgeKeeps
  <2> QED
    BY <2>1, <2>2, <2>3, <2>4, <2>5, <2>6,
       OpenKeeps, AnnounceKeeps, SpawnKeeps, StopKeeps, KillKeeps DEF Next
<1>3. TunInv => NoRevival
  <2> SUFFICES ASSUME TunInv, NEW t \in Thread
               PROVE  strays[t] <= 1
    BY DEF NoRevival
  <2>1. strays[t] = 0 \/ strays[t] = 1
    BY DEF TunInv, StrayInv
  <2> QED
    BY <2>1
<1> QED
  BY <1>1, <1>2, <1>3, PTL DEF Spec

-----------------------------------------------------------------------------

\* Before the next configuration only routes that could not be deleted are left.
BypassInv == BypassTracked /\ (tun = "cleared" => table \subseteq orphans)

(* cleanup_routes_windows: a route over the physical gateway is listed until *)
(* its deletion was tried, whatever fails and however the session ends.      *)
THEOREM BypassCorrect == Spec => []BypassTracked
<1>1. Init => BypassInv
  BY DEF Init, BypassInv, BypassTracked
<1>2. BypassInv /\ [Next]_vars => BypassInv'
  <2> SUFFICES ASSUME BypassInv, [Next]_vars
               PROVE  BypassInv'
    OBVIOUS
  <2> USE DEF BypassInv, BypassTracked
  <2>1. CASE UNCHANGED vars
    BY <2>1 DEF vars, proxyVars, tunVars, bypassVars
  <2>2. CASE Configure \/ Open \/ Announce \/ SpawnBridge
    BY <2>2 DEF Configure, Open, Announce, SpawnBridge, proxyVars, bypassVars
  <2>3. CASE SetupRoutes
    BY <2>3 DEF SetupRoutes
  <2>4. CASE StopTun
    BY <2>4 DEF StopTun, TunStops, bypassVars
  <2>5. CASE FinishVpn
    BY <2>5 DEF FinishVpn
  <2>6. CASE Kill
    BY <2>6 DEF Kill
  <2>7. ASSUME NEW t \in Thread, Bridge(t)
        PROVE  BypassInv'
    BY <2>7 DEF Bridge, CheckLoop, Take, RecvBreaks, Give, proxyVars, bypassVars
  <2>8. CASE ClientNext /\ UNCHANGED tunVars
    <3>1. tun' = tun
      BY <2>8 DEF ClientNext, Accept, Check, Route, RouteFails, Push, Connect, Close
    <3> QED
      BY <2>8, <3>1 DEF tunVars, bypassVars
  <2> QED
    BY <2>1, <2>2, <2>3, <2>4, <2>5, <2>6, <2>7, <2>8 DEF Next
<1>3. BypassInv => BypassTracked
  BY DEF BypassInv
<1> QED
  BY <1>1, <1>2, <1>3, PTL DEF Spec
-----------------------------------------------------------------------------

Clients == pc \in [Client -> {"idle", "check", "route", "push", "connect", "open"}]
           /\ target \in [Client -> Target]

\* The clients of this TUN end with it. What proxy_routes names has its route in
\* the kernel or was entered by a client of an earlier TUN, and so it is with the
\* destination of a client that has looked, or has added its route.
RouteInv ==
  /\ Clients /\ current \subseteq Client
  /\ tun # "up" => current = {}
  /\ tun \in {"cleared", "opening", "routed"} => routes \subseteq stale
  /\ tun = "up" => routes \subseteq kernel \cup stale
  /\ \A c \in current :
       /\ pc[c] = "push" => target[c] \in kernel
       /\ pc[c] \in {"connect", "open"} => target[c] \in kernel \cup stale

(* A step of a client: it disturbs no client but itself, for it takes no   *)
(* route away and its entry in proxy_routes is backed by one, or stale.    *)
LEMMA ClientKeeps ==
  ASSUME RouteInv, NEW c \in Client,
         \/ Accept(c) \/ Check(c) \/ Route(c) \/ RouteFails(c) \/ Push(c)
         \/ Connect(c) \/ Close(c)
  PROVE  RouteInv'
<1> USE DEF RouteInv, Clients
<1>1. CASE Accept(c)
  <2>1. PICK t \in Target : target' = [target EXCEPT ![c] = t]
    BY <1>1 DEF Accept
  <2>2. /\ pc' \in [Client -> {"idle", "check", "route", "push", "connect", "open"}]
        /\ pc'[c] = "check" /\ \A d \in Client \ {c} : pc'[d] = pc[d] /\ target'[d] = target[d]
        /\ target' \in [Client -> Target]
        /\ UNCHANGED <<tun, kernel, routes, stale>>
        /\ current' = current \/ (tun = "up" /\ current' = current \cup {c})
    BY <1>1, <2>1 DEF Accept, Goto
  <2> QED
    BY <2>2
<1>2. CASE Check(c)
  <2>1. /\ pc' \in [Client -> {"idle", "check", "route", "push", "connect", "open"}]
        /\ pc'[c] = IF target[c] \in routes THEN "connect" ELSE "route"
        /\ \A d \in Client \ {c} : pc'[d] = pc[d]
        /\ UNCHANGED <<tun, kernel, routes, target, current, stale>>
    BY <1>2 DEF Check, Goto
  <2>2. c \in current => tun = "up" /\ routes \subseteq kernel \cup stale
    OBVIOUS
  <2> QED
    BY <2>1, <2>2
<1>3. CASE Route(c)
  <2>1. /\ pc' \in [Client -> {"idle", "check", "route", "push", "connect", "open"}]
        /\ pc'[c] = "push" /\ \A d \in Client \ {c} : pc'[d] = pc[d]
        /\ kernel' = kernel \cup {target[c]}
        /\ UNCHANGED <<tun, routes, target, current, stale>>
    BY <1>3 DEF Route, Goto
  <2> QED
    BY <2>1
<1>4. CASE RouteFails(c) \/ Connect(c) \/ Close(c)
  <2>1. /\ pc' \in [Client -> {"idle", "check", "route", "push", "connect", "open"}]
        /\ pc'[c] = "idle" \/ (pc[c] = "connect" /\ pc'[c] = "open")
        /\ \A d \in Client \ {c} : pc'[d] = pc[d]
        /\ current' \subseteq current
        /\ UNCHANGED <<tun, kernel, routes, target, stale>>
    BY <1>4 DEF RouteFails, Connect, Close, Goto
  <2> QED
    BY <2>1
<1>5. CASE Push(c)
  <2>1. /\ pc[c] = "push" /\ pc'[c] = "connect" /\ \A d \in Client \ {c} : pc'[d] = pc[d]
        /\ pc' \in [Client -> {"idle", "check", "route", "push", "connect", "open"}]
        /\ routes' = routes \cup {target[c]}
        /\ stale' = IF c \in current THEN stale ELSE stale \cup {target[c]}
        /\ UNCHANGED <<tun, kernel, target, current>>
    BY <1>5 DEF Push, Goto
  <2>2. CASE c \in current
    BY <2>1, <2>2
  <2>3. CASE c \notin current
    BY <2>1, <2>3
  <2> QED
    BY <2>2, <2>3
<1> QED
  BY <1>1, <1>2, <1>3, <1>4, <1>5

(* ensure_proxy_route: a client misses its route over the TUN only when a   *)
(* client of an earlier session has left its destination in proxy_routes,   *)
(* however the clients' steps and the end of the session fall.              *)
THEOREM ClientsRouted == Spec => []RoutedUnlessStale
<1>1. Init => RouteInv
  BY DEF Init, ProxyInit, RouteInv, Clients
<1>2. RouteInv /\ [Next]_vars => RouteInv'
  <2> SUFFICES ASSUME RouteInv, [Next]_vars
               PROVE  RouteInv'
    OBVIOUS
  <2> USE DEF RouteInv, Clients
  <2>1. CASE UNCHANGED vars
    BY <2>1 DEF vars, proxyVars
  <2>2. CASE Configure \/ Open \/ Announce \/ SetupRoutes \/ SpawnBridge
    <3>1. /\ tun = tun' \/ (tun \in {"cleared", "opening", "routed"}
                            /\ tun' \in {"opening", "routed", "up"})
          /\ UNCHANGED <<kernel, routes, pc, target, current, stale>>
      BY <2>2 DEF Configure, Open, Announce, SetupRoutes, SpawnBridge, proxyVars, clients
    <3> QED
      BY <3>1
  <2>3. CASE StopTun
    BY <2>3 DEF StopTun, TunStops, clients
  <2>4. CASE FinishVpn
    BY <2>4 DEF FinishVpn, Finish, clients
  <2>5. CASE Kill
    BY <2>5 DEF Kill
  <2>6. ASSUME NEW t \in Thread, Bridge(t)
        PROVE  RouteInv'
    BY <2>6 DEF Bridge, CheckLoop, Take, RecvBreaks, Give, proxyVars
  <2>7. CASE ClientNext /\ UNCHANGED tunVars
    BY <2>7, ClientKeeps DEF ClientNext
  <2> QED
    BY <2>1, <2>2, <2>3, <2>4, <2>5, <2>6, <2>7 DEF Next
<1>3. RouteInv => RoutedUnlessStale
  BY DEF RouteInv, RoutedUnlessStale
<1> QED
  BY <1>1, <1>2, <1>3, PTL DEF Spec
=============================================================================
