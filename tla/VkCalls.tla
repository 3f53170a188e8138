------------------------------ MODULE VkCalls -------------------------------
(***************************************************************************)
(* The VK calls that the desktop API starts and finishes: vk_calls_start,  *)
(* vk_calls_stop, vk_calls_stop_all and the calls of vpn_connect (api.rs), *)
(* the list state.active_vk_call_ids they share and the calls that live at *)
(* VK.  Each calls.start and calls.forceFinish is awaited: the requests    *)
(* interleave there, and the user may log out or go away.  vpn_connect     *)
(* holds vpn.operation, so that there is one at a time; the other requests *)
(* do not take that lock.                                                  *)
(***************************************************************************)
EXTENDS Integers, FiniteSets

CONSTANTS
  Starter, Stopper,   \* requests that start, and that finish calls
  Connector,          \* vpn_connect, which finishes calls and then starts some
  Call,               \* calls VK may start while the model runs
  Worker              \* values of the fields workers and autoApiWorkers

ASSUME CallAssumption == Worker \subseteq Int /\ Connector \notin Starter \cup Stopper

Caller == Starter \cup {Connector}
Finisher == Stopper \cup {Connector}

VARIABLES
  token,        \* token.json holds a token
  live,         \* calls that exist at VK
  ended,        \* calls that have existed
  active,       \* state.active_vk_call_ids
  left,         \* caller: slots left in its loop, 0 when idle
  own,          \* caller: call_ids, auto_api_call_ids
  todo, all,    \* finisher: calls left to finish; it is a stop-all
  connect,      \* vpn_connect: "idle", "stopping" from its finish_vpn on,
                \* "calling" from its loop to the hand-over of its calls
  given,        \* calls a request has taken up to finish, or has lost
  risked        \* calls reported while vpn_connect was between the two

callVars == <<token, live, ended, active, left, own, todo, all, connect, given, risked>>
connectVars == <<connect, risked>>

CallInit ==
  /\ token = TRUE
  /\ live = {} /\ ended = {} /\ active = {} /\ given = {} /\ risked = {}
  /\ left = [p \in Caller |-> 0] /\ own = [p \in Caller |-> {}]
  /\ todo = [s \in Finisher |-> {}] /\ all = [s \in Finisher |-> s = Connector]
  /\ connect = "idle"

\* call_count_for_workers: ceil(workers / autoApiWorkers) within 1..6.
Clamp(n, low, high) == IF n < low THEN low ELSE IF n > high THEN high ELSE n
OrNine(n) == IF n <= 0 THEN 9 ELSE n
CallCount(workers, perCall) ==
  Clamp((OrNine(workers) + OrNine(perCall) - 1) \div OrNine(perCall), 1, 6)

-----------------------------------------------------------------------------

StartCalls(p) ==
  /\ token /\ left[p] = 0 /\ own[p] = {}
  /\ \E w, a \in Worker : left' = [left EXCEPT ![p] = CallCount(w, a)]
  /\ UNCHANGED <<token, live, ended, active, own, todo, all, given, connectVars>>

Called(p, c) ==
  /\ left[p] > 0 /\ c \notin live \cup ended
  /\ live' = live \cup {c} /\ own' = [own EXCEPT ![p] = @ \cup {c}]
  /\ left' = [left EXCEPT ![p] = @ - 1]
  /\ UNCHANGED <<token, ended, active, todo, all, given, connectVars>>

CallFails(p) ==
  /\ left[p] > 0
  /\ left' = [left EXCEPT ![p] = @ - 1]
  /\ UNCHANGED <<token, live, ended, active, own, todo, all, given, connectVars>>

\* 401 after stop_vk_calls on what was started, with the token that failed;
\* each forceFinish may fail.
TokenInvalid(p) ==
  /\ left[p] > 0
  /\ \E done \in SUBSET own[p] : live' = live \ done /\ ended' = ended \cup done
  /\ given' = given \cup own[p]
  /\ left' = [left EXCEPT ![p] = 0] /\ own' = [own EXCEPT ![p] = {}]
  /\ UNCHANGED <<token, active, todo, all, connectVars>>

\* The mutated form replaces the list where the code extends it.
ReportReplacing(p) ==
  /\ left[p] = 0 /\ own[p] # {}
  /\ active' = own[p]
  /\ own' = [own EXCEPT ![p] = {}]
  /\ risked' = IF connect = "idle" THEN risked ELSE risked \cup own[p]
  /\ UNCHANGED <<token, live, ended, left, todo, all, connect, given>>

Report(p) ==
  /\ left[p] = 0 /\ own[p] # {}
  /\ active' = active \cup own[p]
  /\ own' = [own EXCEPT ![p] = {}]
  /\ risked' = IF connect = "idle" THEN risked ELSE risked \cup own[p]
  /\ UNCHANGED <<token, live, ended, left, todo, all, connect, given>>

\* The client has gone: the handler and its call_ids are dropped.
DropStarter(p) ==
  /\ left[p] > 0
  /\ given' = given \cup own[p]
  /\ left' = [left EXCEPT ![p] = 0] /\ own' = [own EXCEPT ![p] = {}]
  /\ UNCHANGED <<token, live, ended, active, todo, all, connectVars>>

-----------------------------------------------------------------------------

StopCalls(s, ids) ==
  /\ token /\ todo[s] = {} /\ ids # {}
  /\ todo' = [todo EXCEPT ![s] = ids] /\ all' = [all EXCEPT ![s] = FALSE]
  /\ UNCHANGED <<token, live, ended, active, left, own, given, connectVars>>

\* stop_active_vk_calls takes the list; without a token it finishes none.
TakeList(s) ==
  /\ given' = given \cup active
  /\ active' = {}
  /\ todo' = [todo EXCEPT ![s] = IF token THEN active ELSE {}]
  /\ all' = [all EXCEPT ![s] = TRUE]
  /\ UNCHANGED <<token, live, ended, left, own, risked>>

StopAll(s) ==
  /\ todo[s] = {} /\ active # {}
  /\ TakeList(s)
  /\ UNCHANGED connect

Finished(s, c) ==
  /\ c \in todo[s] /\ c \in live
  /\ live' = live \ {c} /\ ended' = ended \cup {c}
  /\ active' = IF all[s] THEN active ELSE active \ {c}
  /\ todo' = [todo EXCEPT ![s] = @ \ {c}]
  /\ UNCHANGED <<token, left, own, all, given, connectVars>>

\* An error of VK or of the way to it; the call may have ended already.
FinishFails(s, c) ==
  /\ c \in todo[s]
  /\ todo' = [todo EXCEPT ![s] = @ \ {c}]
  /\ UNCHANGED <<token, live, ended, active, left, own, all, given, connectVars>>

DropStopper(s) ==
  /\ todo[s] # {}
  /\ todo' = [todo EXCEPT ![s] = {}]
  /\ UNCHANGED <<token, live, ended, active, left, own, all, given, connectVars>>

-----------------------------------------------------------------------------
(* vpn_connect: finish_vpn, and with authMode autoApi calls of its own.     *)

ConnectStops ==
  /\ connect = "idle"
  /\ TakeList(Connector)
  /\ connect' = "stopping"

ConnectCalls ==
  /\ connect = "stopping" /\ todo[Connector] = {} /\ token
  /\ \E w, a \in Worker : left' = [left EXCEPT ![Connector] = CallCount(w, a)]
  /\ connect' = "calling"
  /\ UNCHANGED <<token, live, ended, active, own, todo, all, given, risked>>

\* Once the core runs, its calls replace the list.
HandOver ==
  /\ connect = "calling" /\ left[Connector] = 0 /\ own[Connector] # {}
  /\ active' = own[Connector]
  /\ own' = [own EXCEPT ![Connector] = {}]
  /\ connect' = "idle"
  /\ UNCHANGED <<token, live, ended, left, todo, all, given, risked>>

\* No calls are wanted or none came, an error answer after stop_vk_calls on
\* what was started (401, the log, the spawn), or the client has gone.
ConnectEnds ==
  /\ connect # "idle"
  /\ \E done \in SUBSET own[Connector] : live' = live \ done /\ ended' = ended \cup done
  /\ given' = given \cup own[Connector]
  /\ left' = [left EXCEPT ![Connector] = 0] /\ own' = [own EXCEPT ![Connector] = {}]
  /\ todo' = [todo EXCEPT ![Connector] = {}]
  /\ connect' = "idle" /\ risked' = risked \ active
  /\ UNCHANGED <<token, active, all>>

\* vk_delete, and vk_submit or the token fetcher.
SetToken ==
  /\ token' = ~token
  /\ UNCHANGED <<live, ended, active, left, own, todo, all, given, connectVars>>

CallNext ==
  \/ \E p \in Starter : StartCalls(p) \/ TokenInvalid(p) \/ Report(p) \/ DropStarter(p)
  \/ \E p \in Caller : CallFails(p) \/ \E c \in Call : Called(p, c)
  \/ \E s \in Stopper : \/ \E ids \in SUBSET active : StopCalls(s, ids)
                        \/ StopAll(s) \/ DropStopper(s)
  \/ \E s \in Finisher, c \in Call : Finished(s, c) \/ FinishFails(s, c)
  \/ ConnectStops \/ ConnectCalls \/ HandOver \/ ConnectEnds
  \/ SetToken

CallSpec == CallInit /\ [][CallNext]_callVars

-----------------------------------------------------------------------------

CallTypeOK ==
  /\ token \in BOOLEAN
  /\ live \subseteq Call /\ ended \subseteq Call /\ active \subseteq Call /\ given \subseteq Call
  /\ left \in [Caller -> 0..6] /\ own \in [Caller -> SUBSET Call]
  /\ todo \in [Finisher -> SUBSET Call] /\ all \in [Finisher -> BOOLEAN]
  /\ connect \in {"idle", "stopping", "calling"} /\ risked \subseteq Call

\* vk_calls_start, vk_calls_stop and vpn_connect: a call that lives is named
\* by the start under way or by the list, until a request has taken the list
\* to finish all of it, whatever starts, connects and failed stops overlap:
\* stop-all and the disconnect finish the calls of that list and no others.
\* The exception is what the code does forget: a call that vk_calls_start
\* reports after the finish_vpn of a vpn_connect and before that vpn_connect
\* replaces the list (api.rs:751) is on no list any more.
CallsListed ==
  live \subseteq active \cup given \cup risked \cup UNION {own[p] : p \in Caller}
=============================================================================
