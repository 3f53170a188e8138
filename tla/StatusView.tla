----------------------------- MODULE StatusView -----------------------------
(***************************************************************************)
(* The status that the front end shows: VpnNotifier with the stream of     *)
(* events of SseClient, its polling, the button, and the host of the API,  *)
(* against backends whose sessions come and go.                            *)
(*                                                                         *)
(* Dart runs one callback at a time; requests, answers, events and timers  *)
(* interleave at the awaits.                                               *)
(***************************************************************************)
EXTENDS Naturals, Sequences

CONSTANTS
  Host,        \* 127.0.0.1 and the routers
  Local,       \* the host the API starts with
  Request,     \* requests of the button under way at a time
  MaxChanges,  \* bound on changes of sessions and host, and on taps
  MaxFailures,   \* bound on requests and streams that fail
  MaxQueue     \* events on their way; the broadcast channel drops what is over

ASSUME StatusAssumption ==
  /\ Local \in Host /\ {MaxChanges, MaxFailures, MaxQueue} \subseteq Nat

VARIABLES
  api,                 \* _host of the ApiClient
  session,             \* per host: the state its backend reports
  shown,               \* state of the notifier
  starting, stopping,  \* _connectingSince and _disconnectingSince are younger than 20 s
  refresh,             \* the request of _refreshInFlight
  stream,              \* the subscription of the SseClient
  post,                \* per request: the POST of connect or disconnect
  changes, failures

windows == <<starting, stopping>>
statusVars == <<api, session, shown, windows, refresh, stream, post, changes, failures>>

Reported == {"disconnected", "connecting", "connected"}
Idle == [at |-> "idle"]
Asked(h) == [at |-> "asked", host |-> h]
Asking(h) == [at |-> "asking", host |-> h, queue |-> <<>>]

StatusInit ==
  /\ api = Local /\ session \in [Host -> Reported]
  /\ shown = "disconnected" /\ starting = FALSE /\ stopping = FALSE
  /\ refresh = Asked(Local) /\ stream = Asking(Local)
  /\ post = [r \in Request |-> Idle]
  /\ changes = 0 /\ failures = 0

Changes == changes < MaxChanges /\ changes' = changes + 1
Fails == failures < MaxFailures /\ failures' = failures + 1

\* _refresh does nothing while one is in flight.
Refreshed(h) == IF refresh = Idle THEN Asked(h) ELSE refresh

-----------------------------------------------------------------------------
(* The backends.                                                           *)

\* The backend of h changes its state and tells its subscribers.
Becomes(h, state) ==
  /\ session' = [session EXCEPT ![h] = state]
  /\ stream' = IF stream.at = "open" /\ stream.host = h /\ Len(stream.queue) < MaxQueue
                 THEN [stream EXCEPT !.queue = Append(@, state)] ELSE stream

\* The core gets ready, fails or dies.
Change(h) ==
  /\ Changes
  /\ \/ session[h] = "connecting" /\ Becomes(h, "connected")
     \/ session[h] # "disconnected" /\ Becomes(h, "disconnected")
  /\ UNCHANGED <<api, shown, windows, refresh, post, failures>>

Handle(r) ==
  /\ post[r].at = "sent"
  /\ Becomes(post[r].host, IF post[r].kind = "connect" THEN "connecting" ELSE "disconnected")
  /\ post' = [post EXCEPT ![r].at = "handled"]
  /\ UNCHANGED <<api, shown, windows, refresh, changes, failures>>

-----------------------------------------------------------------------------
(* The polling.                                                            *)

PollStatus ==
  /\ refresh = Idle /\ refresh' = Asked(api)
  /\ UNCHANGED <<api, session, shown, windows, stream, post, changes, failures>>

Answer ==
  /\ refresh.at = "asked"
  /\ refresh' = [at |-> "answered", state |-> session[refresh.host]]
  /\ UNCHANGED <<api, session, shown, windows, stream, post, changes, failures>>

\* The mutated form keeps _refreshInFlight.
RefreshFailsForGood ==
  /\ refresh.at = "asked" /\ Fails
  /\ refresh' = [at |-> "stuck"]
  /\ UNCHANGED <<api, session, shown, windows, stream, post, changes>>

RefreshFails ==
  /\ refresh.at = "asked" /\ Fails
  /\ refresh' = Idle
  /\ UNCHANGED <<api, session, shown, windows, stream, post, changes>>

Apply ==
  /\ refresh.at = "answered"
  /\ refresh' = Idle
  /\ LET next == refresh.state
         kept == next = "connecting" \/ (next = "disconnected" /\ (starting \/ stopping))
     IN /\ shown' = IF next # "disconnected" THEN next
                    ELSE IF starting THEN "connecting"
                    ELSE IF stopping THEN "disconnecting" ELSE next
        /\ starting' = (kept /\ starting) /\ stopping' = (kept /\ stopping)
  /\ UNCHANGED <<api, session, stream, post, changes, failures>>

\* Twenty seconds are over.
Expire ==
  /\ starting \/ stopping
  /\ starting' \in {FALSE, starting} /\ stopping' \in {FALSE, stopping}
  /\ windows' # windows
  /\ UNCHANGED <<api, session, shown, refresh, stream, post, changes, failures>>

-----------------------------------------------------------------------------
(* The stream of events.                                                   *)

Open ==
  /\ stream.at = "asking"
  /\ stream' = [stream EXCEPT !.at = "open"]
  /\ UNCHANGED <<api, session, shown, windows, refresh, post, changes, failures>>

StreamFails ==
  /\ stream.at \in {"asking", "open"} /\ Fails
  /\ stream' = [Asking(stream.host) EXCEPT !.at = "timer"]
  /\ UNCHANGED <<api, session, shown, windows, refresh, post, changes>>

Reconnect ==
  /\ stream.at = "timer"
  /\ stream' = Asking(api)
  /\ UNCHANGED <<api, session, shown, windows, refresh, post, changes, failures>>

\* A disconnected event is ignored in the hand-off to the backend.
Event ==
  /\ stream.at = "open" /\ stream.queue # <<>>
  /\ stream' = [stream EXCEPT !.queue = Tail(@)]
  /\ LET state == Head(stream.queue) IN
       IF state = "disconnected" /\ starting THEN UNCHANGED <<shown, windows>>
       ELSE /\ shown' = state
            /\ starting' = (starting /\ state # "connected")
            /\ stopping' = (stopping /\ state # "disconnected")
  /\ UNCHANGED <<api, session, refresh, post, changes, failures>>

-----------------------------------------------------------------------------
(* The button and the host.                                                *)

\* connect() or disconnect(), as what is shown has it.
Press(r) ==
  /\ post[r] = Idle /\ shown # "disconnecting" /\ Changes
  /\ LET stops == shown \in {"connected", "connecting"} IN
       /\ starting' = ~stops /\ stopping' = stops
       /\ shown' = IF stops THEN "disconnecting" ELSE "connecting"
       /\ post' = [post EXCEPT ![r] = [at |-> "sent", host |-> api,
                                       kind |-> IF stops THEN "disconnect" ELSE "connect"]]
  /\ UNCHANGED <<api, session, refresh, stream, failures>>

Reply(r) ==
  /\ post[r].at = "handled"
  /\ post' = [post EXCEPT ![r] = Idle]
  /\ IF post[r].kind = "connect"
       THEN refresh' = Refreshed(api) /\ UNCHANGED <<shown, windows>>
       ELSE shown' = "disconnected" /\ stopping' = FALSE /\ UNCHANGED <<refresh, starting>>
  /\ UNCHANGED <<api, session, stream, changes, failures>>

\* Refused, or lost: before or after the backend has acted on it.
ReplyFails(r) ==
  /\ post[r] # Idle /\ Fails
  /\ post' = [post EXCEPT ![r] = Idle]
  /\ IF post[r].kind = "connect"
       THEN shown' = "error" /\ starting' = FALSE /\ UNCHANGED <<refresh, stopping>>
       ELSE refresh' = Refreshed(api) /\ stopping' = FALSE /\ UNCHANGED <<shown, starting>>
  /\ UNCHANGED <<api, session, stream, changes>>

\* setBaseUrl and its listener: a stream to the new host, and a refresh.
SetHost(h) ==
  /\ h # api /\ Changes
  /\ api' = h
  /\ stream' = Asking(h) /\ refresh' = Refreshed(h)
  /\ UNCHANGED <<session, shown, windows, post, failures>>

StatusNext ==
  \/ PollStatus \/ Answer \/ RefreshFails \/ Apply \/ Expire
  \/ Open \/ StreamFails \/ Reconnect \/ Event
  \/ \E h \in Host : Change(h) \/ SetHost(h)
  \/ \E r \in Request : Handle(r) \/ Press(r) \/ Reply(r) \/ ReplyFails(r)

-----------------------------------------------------------------------------

StatusTypeOK ==
  /\ api \in Host /\ session \in [Host -> Reported]
  /\ shown \in Reported \cup {"disconnecting", "error"}
  /\ windows \in BOOLEAN \X BOOLEAN
  /\ refresh.at \in {"idle", "asked", "answered"}
  /\ stream.at \in {"asking", "open", "timer"} /\ stream.host \in Host
  /\ stream.queue \in Seq(Reported) /\ Len(stream.queue) <= MaxQueue
  /\ \A r \in Request : post[r].at \in {"idle", "sent", "handled"}
  /\ changes \in 0..MaxChanges /\ failures \in 0..MaxFailures

\* Once the sessions and the user leave it at that, the status shown is that
\* of the backend the API is at, for good: no late answer, event of another
\* host, ignored event, window, or failure of the stream leaves it wrong.
ShownCatchesUp == <>[](shown = session[api])
=============================================================================
