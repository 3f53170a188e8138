# LaLune: TLA+ models and proofs

LaLune is a VPN application: a Flutter front end talks over HTTP and server-sent events to a
backend (Rust on desktops and OpenWRT routers, Kotlin on Android, Swift on iOS), and the
backend drives an external *core* process (csqtt and others) that carries the traffic. The
backend starts and supervises the core, opens a TUN interface when the core's log says that it
is ready, configures routes and DNS, and takes all of it down again.

This directory holds TLA+ models of the parts of that program whose behaviour depends on the
order of events, the TLC configurations that check them, and TLAPS proofs. Paths are relative
to the repository root (`Backend/Desktop/src/api.rs` and so on).

    tlc -workers 4 -config DesktopVpn.cfg MCDesktopVpn     # check a model
    tlapm DesktopVpnProofs.tla                             # check the proofs

## 1. The system

### 1.1 Components

| Component | State it keeps | Operations | Model |
|---|---|---|---|
| **Desktop VPN session** `Backend/Desktop/src/{api,vpn,state,main}.rs` | `vpn.operation` (mutex), `vpn.watchdog` (task handle), `vpn.running`, `vpn.handle`, `vpn.phase`, `state.core`, `state.socks5`, `active_vk_call_ids` | `vpn_connect`, `vpn_disconnect`, `vpn_reconnect`, watchdog task, `stop`/`stop_tun`/`finish_vpn`, `cleanup` | `DesktopVpn`, implements `TunnelSession` |
| **Linux TUN** `Backend/linux_tun.rs` | device, bridge task, `Routes { undo, dns }` | `Session::start/stop`, `Routes::install/add/drop` | `DesktopVpn` (session), `LinuxRoutes` (routes, DNS) |
| **Windows TUN** `Backend/Desktop/src/{wintun,vpn}.rs` | `tun_generation`, the slot of the Wintun session, bridge threads, `bypass_routes` | `start_tun_windows`, `stop_tun`, `cleanup_routes_windows` | `WindowsTun` |
| **SOCKS5 proxy** `Backend/Desktop/src/socks5.rs` | listener, client tasks, `vpn.proxy_routes` | `start`, `stop`, CONNECT, UDP ASSOCIATE, DNS over the tunnel | `ProxyRoutes`: CONNECT and its routes |
| **Logs and readiness** `Backend/Desktop/src/{api,core_manager,state}.rs` | `state.logs`, `logs.log`, the watchdog's offset and tick count | reader tasks, polling, `logs_clear` | `SessionLogs` |
| **Settings and identity** `Backend/Desktop/src/{settings,state,api}.rs` | `state.settings`, `settings.json`, `device_id.json` | PUT, PATCH, PUT of a key, reset, regenerate, reload, start | `SettingsStore` |
| **Configs and selection** `Backend/Desktop/src/{config,api}.rs` | SQLite table, `selected_config` | create, update, delete, select, unselect | `ConfigStore` |
| **Links and core arguments** `Core/csqtt-link`, `Backend/Desktop/src/{config,protocol,api}.rs` | none: functions of a link, the settings and the calls | `parse_plaintext`, `to_link`, `parse_link_for_protocol`, `build_args` | `CsqttLink`, `LinkConfigs` |
| **VK calls** `Backend/Desktop/src/{vk,api}.rs` | token file, `active_vk_call_ids`, calls at VK | start, stop, stop-all | `VkCalls` |
| **Core download** `Backend/Desktop/src/{core_manager,api,state}.rs` | installed core, `.tmp`, `LATEST`, `core_downloading` | download (async, sync, inside a connect), delete, check | `CoreDownload` |
| Core isolation `Backend/linux_core.rs` | UID lease file | lease, setuid exec, release | no, see 6 |
| **OpenWRT session** `Backend/OpenWRT/src/{api,vpn,state}.rs` | as desktop, and `vpn.connecting`, `vpn.routing`, `active_vk_calls` | as desktop | `OpenWrtVpn`, implements `TunnelSession` |
| **OpenWRT routing** `Backend/OpenWRT/src/vpn.rs` | iptables/nft chains and jumps, rules, table, resolv.conf, flags of `OpenWrtRouting` | `install`, `drop`, `cleanup_legacy_policy`, `cleanup_stale_chains` | `OpenWrtRouting` |
| OpenWRT AutoAPI `Backend/OpenWRT/src/vk.rs` | `ActiveCalls` | start, close, drop | `OpenWrtVpn` |
| **OpenWRT log history** `Backend/OpenWRT/src/core_logs.rs` | gzip segments, pending lines | record, flush, rotate, migrate, snapshot, clear | `CoreLogs` |
| **Android service** `Backend/Android/LaLuneVpnService.kt` | `isRunning`, `tunEstablished`, `establishing`, `vpnInterface`, `tunnelMutex`, jobs | START/STOP intents, screen on/off, `establishTun`, teardown | `AndroidTun` |
| **iOS packet tunnel** `Backend/iOS/PacketTunnelProvider.swift` | `isRunning`, `isCoreStarted`, `startCompletion`, `CoreReadinessState`, `udpConnection` | `startTunnel`, `runCore`, interface and bridge callbacks, `stopTunnel` | `PacketTunnel` |
| **Status in the front end** `Frontend/lib/{state/vpn_notifier,api/sse_client}.dart` | `VpnNotifier` and its windows, SSE subscription | connect, disconnect, refresh, events, host change | `StatusView` |
| **Router switching** `Frontend/lib/state/router_notifier.dart`, `api/api_client.dart` | active router, host of the API, saved routers and their copy in the preferences | connect, disconnect, add, remove, start | `RouterSwitch` |
| Android and iOS backends (HTTP), panel, Lua plugins, pages, tools | - | - | no, see 6 |

### 1.2 How they interact

* HTTP handlers, the watchdog and the cleanup of a backend run as tokio tasks on several
  threads and share `AppState`. What takes a session up or down holds `vpn.operation`, but the
  phase, the status events, `vpn.running` (set by the bridge task as well), the logs, settings,
  configs and downloads are read and written outside of it too, field by field.
* hyper drops a handler's future when the client closes the connection: a handler may end at
  any of its awaits, and only the destructors of what it holds run.
* The watchdog is a task of its own; the next connect or disconnect *aborts* it and *awaits*
  its end while holding the mutex the watchdog may be waiting for.
* The core process is observed through `try_wait`, its output goes through reader tasks into
  `logs.log`, which the watchdog polls. On Android a coroutine polls the same file.
* On Windows the packets are moved by two threads per session that nobody joins.
* Routes, rules and resolv.conf are shared with every other program of the machine.
* Files are written in place, without a lock between processes or handlers.
* The front end keeps its own idea of the state from three sources that are not ordered among
  each other: answers of requests, SSE events and a periodic refresh.

### 1.3 What is hard, and what makes a component correct

`PROJECT.json` lists 40 hazards, each at its source line, with the properties that would catch
it, or why none does. In outline:

* *Desktop session*: sessions must not overlap; whatever fails, everything a session acquired
  (core, TUN, SOCKS5 listener, VK calls) is given back; the teardown order flow, TUN, core
  holds also if a handler is dropped half-way; nobody waits for ever; the events subscribers
  saw agree with the state in the end.
* *Linux routes*: a partial installation is undone; routes of other programs are left alone;
  the DNS of the tunnel is never configured without its routes; the rule that catches all
  traffic never stands without those that let the core's own packets out.
* *Windows TUN*: a bridge thread of an old session does not serve the next one; a route past the
  tunnel is not forgotten.
* *Logs*: readiness is decided by this session's lines; the backend's log loses earlier
  sessions' lines only, and all of them.
* *SOCKS5*: a destination is reached through the TUN only.
* *Stores*: the identity of the device survives overlapping forms, a torn file and kills; an id
  of a config is not given out twice; a VK call stays listed until somebody finishes it, whatever
  requests and connects share the list.
* *Links*: a link that is taken apart and put together means the same; the core gets the hashes
  of the right source, whole and in order.
* *Core download*: what is executed is one complete release; the flag is released.
* *OpenWRT routing*: packets are marked only while rules say where they go; the core's own
  packets never recurse; the remains of a kill are found and removed. *AutoAPI*: no call whose
  id is known is forgotten. *Log history*: bounded, readable
  and in order after failed writes, kills and power losses; what was cleared stays away.
* *Android*: no interface stays open behind a dark screen, and it comes back with its bridges and the
  address of the log, whatever the order of screen events, `establishTun`, `stopFlow` and a START in the
  same instance, unless a write came too late for its session.
* *iOS*: every start of the tunnel gets one answer, and neither a core nor a dead tunnel is left
  by whatever fails or comes first of core, wait, bridge and stop.
* *Front end*: whatever answers, events and windows overlap, the status ends up right; the API
  goes to compatible routers only, and the list of routers is not lost.

## 2. Modules

| Module | Models | Correspondence |
|---|---|---|
| `TunnelSession` | the abstract service | three variables: the core's slot, the tunnel, whether flow is reported. Cores and tunnels come one at a time, and a session goes down in the order flow, tunnel, core |
| `DesktopVpn` | the desktop session, Linux build | one action per stretch of code between two awaits of one task; see below |
| `OpenWrtVpn` | the router's session and `ActiveCalls` | as `DesktopVpn`; see below |
| `OpenWrtRouting` | `OpenWrtRouting::install`, `Drop`, the cleanups | one action per command; `known` is the flags of the value |
| `LinuxRoutes` | `Routes::install`, `add`, `Drop` | one action per command; `undo` is the vector of undo commands, `foreign` what other programs hold |
| `ProxyRoutes` | `ensure_proxy_route`, client tasks against `finish_vpn` | the three lock scopes of `ensure_proxy_route` are three actions; `Replaces` tells Linux from Windows |
| `WindowsTun` | `start_tun_windows`, `stop_tun`, the bridge threads, the bypass routes; extends `ProxyRoutes` | each place where a thread locks the slot of the Wintun session is a step |
| `SessionLogs` | both logs, readers, readiness polling, `DELETE /logs` | a log line of the file is one unit of its length |
| `SettingsStore` | `/settings`, `/device`, `AppState::new` | one action per lock scope and per file operation |
| `ConfigStore` | `ConfigStore`, `/configs`, `/selected` | a statement of SQLite is one step |
| `VkCalls` | `vk_calls_start`, `vk_calls_stop`, `vk_calls_stop_all`, and the calls of `vpn_connect` | one action per request to VK |
| `CsqttLink` | the crate `csqtt-link` | operators on sequences of units |
| `LinkConfigs` | link and form to `ConfigItem` to arguments | parse or form, `FillForm`, `Launch`, `Forget` |
| `CoreDownload` | downloads, delete, check | one action per file operation |
| `CoreLogs` | `core_logs.rs`: `record`, `flush`, `clear`, `new`, `migrate_legacy`, `read_segment` | a segment is a sequence of gzip members; a flush is the step that measures and rotates and the step that appends |
| `AndroidTun` | `LaLuneVpnService` | one action per stretch between two suspensions of a coroutine, or per callback of the main thread |
| `PacketTunnel` | `PacketTunnelProvider` | one action per callback or stretch of a block; `starter`, `runner` and `stopper` say where the three threads of control are |
| `StatusView` | `VpnNotifier`, `SseClient` | one action per callback |
| `RouterSwitch` | `RouterNotifier` and the host of `ApiClient` | one action per stretch of `connect` between two awaits |
| `MC...` | instances for TLC | symmetry sets; `MCDesktopStores`, `MCOpenWrtParts` and `MCPhone` put modules side by side, see 3 |
| `...Proofs` | theorems | see 4 |

**`DesktopVpn`.** `pc` says where each task is. A *stopper* is a task that calls
`VpnRuntime::stop`: a handler, or the cleanup. Its path through the code:

    queued  --lock-->  join --> tun --> kill --> calls --> prepare --> vk --> spawn
              (abort    (await   (stop_   (core.   (stop_     (download,  (calls.  (core, watchdog;
               slot)     slot)    tun)     kill)    vk_calls)  token)      start)   unlock)

`abandon` is the error path that finishes the calls it started, `pause` the 500 ms of
`vpn_reconnect`, which are spent without the lock. A watchdog goes

    watch --ready--> lock --> start --> announce --> poll --> relock --> stop --> tun --> kill --> calls
      \--timeout--> relock     \--fails--> stop

where `announce` is outside of the lock, as in the code (`api.rs:898`). `late` is the watchdog
that found the core dead once it had the lock: it released it and has yet to set the phase
`error`. `DiesAborted` is the effect of an abort: only at an await, with the destructors of
what the task holds. `Drop` is the same for a handler whose client went away. `cut` is a history
variable: a handler was dropped *inside* its critical section; several properties exempt what
follows it, because then the code does forget things (see 5). `ticks` is the watchdog's count;
a PaperFlux core is ready with its first output, without ticks (`PaperFlux`, `api.rs:830`). `ReportOther`
and `StopOther` are the requests of `VkCalls`, which write `active_vk_call_ids` without
`vpn.operation`: `Other` are the calls they report, `Call` those of sessions; either kind may be finished by anybody.

Abstractions: the lists of events are reduced to the last status event; download, token and
config are a nondeterministic failure here and have modules of their own, as readiness
(`SessionLogs`), routes (`LinuxRoutes`) and SOCKS5 clients (`ProxyRoutes`) have. The Windows
branches are `WindowsTun`'s. Left out: a watchdog that panics (`api.rs:776`, see 5).

**`OpenWrtVpn`** has the same tasks, lock and teardown, and departs where the code does: a request
is `Refused` before the old session is touched; `connecting` and `mine` (the `ActiveCalls` of
a handler) belong to values whose destructors act when the handler returns, fails or is
dropped, the latter by giving the calls to a task of its own (`dropping`); `routing` goes in the
same stretch of code as `running`, before the TUN; the SOCKS5 listener starts with the core; the
status event "connected" is emitted under the lock; and the watchdog that gets the lock does not
look at the core again. `asked` is a `calls.start` whose answer is not in yet: if it is cut off
then, nobody knows the call's id and it is `lost`.

**`OpenWrtRouting`.** `kernel` counts copies because `iptables -I` inserts a rule again and again, where
chains and policy rules exist once. `todo` is what the current phase (`legacy`, `stale`,
`install`, `drop`) still has to run, the rest of a fixed order; `Skip` passes what `Drop` has no flag for. `Remove` is the `try_` commands, whose outcome the code
ignores: a removal that could work may fail, up to `MaxStuck` objects at once. `stuck` are such
objects, `left` what a kill left, `disturbed` that a kill hit a cleanup or that a listing failed.

**`LinuxRoutes`.** `todo` is the rest of the command list `install` goes through, which depends
on whether the core runs under a UID of its own. Every command may fail. `Compare` and
`Restore` are the read and the write of `Drop`, two system calls, with other programs
writing between them. `stuck`, `dnsLost` and `left` record failures the code can only log, or
cannot even see (a kill): the properties excuse exactly those.

**`ProxyRoutes`, `WindowsTun`.** The session is reduced to the TUN's life; `current` is the clients
accepted on the TUN that is up, `stale` the destinations a client of an earlier one has entered.
In `WindowsTun`, a thread goes round `loop` (it compares `running` and the generation), `take` and
`give`; at both of the latter it locks the slot and meets the session that is in it by then.
`strays` counts the packets it has taken from or given to a session other than its own.
`bypass`, `table` and `orphans` are the list of routes past the tunnel, the routes there are, and
those nobody knows of any more because their deletion failed or the backend was killed.

**`SessionLogs`.** `Meta` and `Read` are the two awaits of a poll. `ClearLogs` and `ClearFile` are
the two steps of `DELETE /logs`. `pipe` is what the core has printed and the reader tasks have
not yet appended.

**`SettingsStore`.** One field with a default and a value out of range stands for the form. A file
is what it says or `Torn`: truncated by `fs::write` and not yet filled, or filled by two handlers
at once. `allowed` is the identities the device may have: the first one, or what a regeneration
has answered. `mixed` names what `IdentityKept` excuses, from there to the end of the next start, which
writes both files: a regeneration that overlapped another handler or could not save `settings.json`,
and a kill while neither file is whole. A kill inside a write of one of them while the other is whole is
not excused, wherever it strikes: the start finds the identity in the other.

**`ConfigStore`.** The columns but the id are one `Text`. `deleted` are the ids a client may still
show. `selected_set` reads the row and writes the selection under different locks: two actions.

**`VkCalls`.** A start is a loop of `calls.start`, each of which may fail or find that the token is
gone; a stop is a loop of `forceFinish`. `given` is the calls a request has taken up to finish. The
`Connector` is `vpn_connect`, of which there is one at a time: `ConnectStops` is its `finish_vpn`, which takes the list,
`HandOver` the assignment of `api.rs:751`, which replaces it. `risked` is what other requests have reported
between the two.

**`CsqttLink`, `LinkConfigs`.** A text is a sequence of units: a word of at least sixteen letters
(what the code takes for a hash), a short one, or one character with a meaning of its own; in a
link each unit is written out or percent-coded, and `Latin` is what
`decode_query_component` makes of a character that is not ASCII. `MCLink` enumerates links: lists
of up to three units, coded or not, for the hashes, a list of seven, and one or a few forms of
each other parameter. Left out: a scheme in capitals, the "/" at the end of a hash,
fragments, and the Lua plugin.

**`CoreDownload`.** A file is two halves, each with the version of the download that wrote it; `handle`
says where the name of the file a download has open leads by now. `kind` tells the three branches
of the handlers apart. `overlapped` is that two downloads were under way at once, which the flag
prevents between handlers unless they meet between its read and its write, and never
for `vpn_connect`.

**`CoreLogs`.** All operations hold one mutex, so a flush is cut into steps only where a kill or a
failing file operation tells them apart. A line is its number and its length; the compressed size of a batch is
the smallest or the largest there can be. `whole` says that a member was written to its end, `activeSize` is what
`set_len` goes back to, in members. An append that fails leaves nothing (`AppendFails`) or a piece
that could not be cut off (`AppendTears`; `torn` remembers its lines). A kill keeps what was written, a
power loss takes any last batches of each segment, as nothing is synced; that a power loss reverts the
rename is left out.

**`AndroidTun`.** A flow is one coroutine of `watchLogsAndManageTunnel`. `at` says where it is: it
polls the log, decides (`ready`), waits for `tunnelMutex` (`lock`), hops to the main thread for
`builder.establish()` (`build`) and comes back (`built`), unless it was cancelled meanwhile: then
`withContext` throws and nobody gets the interface; otherwise it publishes it (`publish`), which no
cancellation prevents any more, and goes on (`after`). A *closer* is the coroutine a
screen-off launches. `active`, `tail`, `unread` and `broke` are what the log says: whether the
core serves, the active lines at its end, those of them the flow has not read, and whether an
inactive line is among these; `whole`, that it reads from the start. A poll reads the file in one step.
`known` is that `detectedTunIP` is set, `own` that the open interface has that address and not the default
one, `bridged` that its bridges run: they look at `isRunning` (`BridgesEnd`). `raced` names what
`TunReturns` excuses. `Destroy` is `onDestroy` after
`stopSelf`, `Killed` a killed process, `Create` a new instance, also that of a sticky restart; it
waits for the flows of the last one, which bounds the model. A START may also meet an instance that has called
`stopSelf`: it is on its way to `onDestroy`, or goes on. Left out: packets, and bridges that end on an I/O
error; the options of the builder, the notification.

**`PacketTunnel`.** `runner` is the block that runs the embedded core, `starter` the block that waits
for it and the callbacks it leads to, `stopper` `stopTunnel` between its assignments. `answer` and
`answers` are what the system was told and how often. `told` is that `csqtt_stop` reached a running core,
`missed` that a stop or a failure came before the core ran, so that nobody is told. `WaitEnds` may give up at any time: the
deadline. A process has one session; the system ends it (`ProcessEnds`) once a start was answered with
an error, `stopTunnel` has returned or the tunnel was cancelled. It stops a tunnel at any time but once its start has failed. Packets and the values of settings are left out,
and the three reads of `isRunning` around the answer of success are one.

**`StatusView`.** A session of a backend is the status it would report. `starting` and `stopping` are the
windows of twenty seconds in which the notifier ignores some reports; `Expire` ends one.
`stream` is the subscription with the events on their way. `Press`, `Handle` and `Reply` are the
button, its request at the backend, and the answer. The texts, the uptime and the statistics are left out.

**`RouterSwitch`.** Calls of `connect` and `removeRouter` run concurrently, each cut at its awaits. `writes`
counts the calls that wait for the preferences, whose waiters go on in order (`ahead`). Whether a request
is answered is a choice; what the router answers to `/core/protocols` is fixed, one protocol per backend.
The scan, the texts of errors, the value of the token and
`_saveActive`, which writes a key nothing reads, are left out.

## 3. What is checked

| Run | Module | Bounds | Shows |
|---|---|---|---|
| `desktop_vpn` | `MCDesktopVpn` | 2 handlers, the cleanup, 2 watchdogs, 1 VK call of sessions and 1 of other requests, readiness after 1 tick, requests may be dropped | `OneSupervisor`, `CallsTracked`, `RestIsClean`, `EventsSettle`, `ImplementsTunnelSession` |
| `desktop_vpn_live` | `MCDesktopVpn` | 2 handlers, 1 watchdog, 1 VK call, cores of PaperFlux too, no dropped requests | `RequestsAnswered`, `DeadSessionReaped`, `ConnectDecided` |
| `openwrt_vpn` | `MCOpenWrtVpn` | 2 handlers, the cleanup, 2 watchdogs, 1 VK call, requests may be dropped | `KnownCallsTracked`, `ConnectStartsClean`, `ImplementsTunnelSession` |
| `openwrt_parts` | `MCOpenWrtParts` | 2 copies of a rule, 2 kills, 2 stuck objects; a segment of 3 bytes, lines of 1 and 2, 2 old and 3 new lines, 2 faults, 1 kill or power loss | `RemainsCleared`, `SelectionNeedsPolicy`, `CoreNeverRecurses`, `GivenBack`; `ReadInOrder`, `ClearedForGood`, `GenerationKept` |
| `linux_routes` | `LinuxRoutes` | 2 bypass prefixes, 2 foreign resolv.conf contents, kills | `OthersKept`, `RoutesGivenBack`, `DnsOnlyInTunnel`, `CoreBypassesTunnel` |
| `windows_tun` | `MCWindowsTun` | 2 sessions, 2 SOCKS5 clients, 1 destination, 1 excluded prefix | `NoRevival`, `BypassTracked`, `RoutedUnlessStale` |
| `desktop_stores` | `MCDesktopStores` | per part; see below | `IdentityKept`, `IdsNameOneConfig`, `CallsListed`, `FreshReadiness`, `EarlierLinesGone`, `RoundTrip`, `HashesReachCore` |
| `core_download` | `MCCoreDownload` | 2 requests, a connect, 2 releases | `InstalledCore`, `FlagReleased` |
| `phone` | `MCPhone` | 2 flows, 1 closer, 1 fault; 2 hosts, 2 requests, 2 changes, 1 failure, 2 events on their way; 3 active lines on iOS | `ScreenOffCloses`, `TunReturns`, `TunnelSettles`, `ShownCatchesUp` |
| `router_switch` | `MCRouterSwitch` | 2 routers, 2 calls at a time, 3 protocols, 1 restart | `ActiveCompatible`, `ListIsStored` |
| `proxy_routes_race` | `ProxyRoutes` | 2 clients, 1 destination | violates `EveryDestinationRouted` |
| `android_bridges` | `AndroidTun` | 2 flows, 1 closer | violates `TunIsServed` |

`MCDesktopStores`, `MCOpenWrtParts` and `MCPhone` put modules side by side that share no variable. A variable
`moving`, chosen at the start, says which part a behaviour moves; the others stay in their initial state.
A product of parts that share nothing has no property the parts do not have, and this form checks
the sum of their states, not the product.

**Properties of the session.** `OneSupervisor`: two watchdogs never live at once and none lives
beside a stopper that is past its join, so a watchdog never tears down a session that is not
its own. `CallsTracked`: no error path forgets a VK call that `vpn_connect` opened, and neither do the requests
that write the same list; what `vpn_connect` does to the calls of those is `CallsListed`'s. `RestIsClean`: with the
lock free and no watchdog, nothing of a session is left, whichever of its dozen ends it had.
`EventsSettle`: the bridge, the watchdog and the handlers emit status events without a common
lock, yet at rest the last one says what `GET /vpn/status` says. `ImplementsTunnelSession`: each
step is a step of the abstract service, also when handlers are dropped at any await.

**Properties of the router.** `KnownCallsTracked`: a VK call whose id was read is in a list somebody
will close, wherever a handler or watchdog is cut off; no exemption for dropped requests, unlike
on the desktop. `ConnectStartsClean`: a connect that is
past its teardown finds nothing of an earlier session, whatever cut that one short.
`ImplementsTunnelSession` holds until a handler is dropped inside its critical section: such a handler leaves
without awaiting the watchdog it has aborted, which may get the lock before the abort reaches
it, and opens a TUN although the core is gone (the desktop's watchdog looks again).
`RemainsCleared`: the next install finds the remains of a kill at any command, since chains are
made first and removed last. `SelectionNeedsPolicy` and `CoreNeverRecurses`: the orders of
install and `Drop` are safe with any command failing. `GivenBack`: as `RoutesGivenBack` on Linux.

**Properties of routes.** `OthersKept`, `RoutesGivenBack`: what a session undoes is what it added,
all of it, except what failed. `DnsOnlyInTunnel`: resolv.conf names the DNS of the tunnel only while
the routes to it stand. `CoreBypassesTunnel`: at every step of install and undo, failed ones included, the rule that catches
all traffic stands only beside those that exempt the core. On Windows, `NoRevival`: a thread moves at most
the one packet it was about to move into or out of a session that is not its own; without the
generation it would go on for ever. `BypassTracked`: a route past the tunnel is in the list of those
to delete. `RoutedUnlessStale`: a client with a connection has its route, unless a client of an earlier
session has entered it; that exception is the finding below.

**Properties of the stores.** `IdentityKept`: forms, failed writes and kills in any order, inside the writes of
`settings.json` and inside the starts that follow, leave the device the identity it had, but for what
`mixed` names: the code keeps it in two files and loses it when both are torn.
`IdsNameOneConfig`: an id is not given out again, so what a client still shows, or what stayed
selected, does not reach another config. `CallsListed`: a call that lives is named by a list until a
request takes it, whatever starts, stops and connects overlap, but for those `vpn_connect` overwrites (`risked`). `FreshReadiness`: what a watchdog reads was printed by its own core.
`EarlierLinesGone`: a log that is drained loses every line of earlier sessions, also around a
`DELETE /logs`. `RoundTrip`: `to_link` after `parse_plaintext` gives a link that is taken apart
to the same, hash by hash, if it is ASCII and has no URL of a call inside another. `HashesReachCore`: of calls, link,
form and settings the core gets the right list, whole and in order, through the "+", "," and " " that
separate it on the way; of a link whose hashes have separators inside it says nothing. `InstalledCore`: the
name of the core leads to one complete release or to nothing, and `LATEST` does not run ahead of it.
`FlagReleased`: no error path answers 409 for ever.

**Properties of the log history.** `ReadInOrder`: no batch ever lies behind a broken one or beyond what
`read_segment` decodes, since a segment that is broken, or might be, counts as full; and no
line is repeated or reordered, except the migrated ones and those of a torn append. `ClearedForGood`: not by the next start
either, which would migrate an old log. `GenerationKept`: a flush loses at most the generation before the
active one, also when it fails or is killed.

**Properties of phone and front end.** `ScreenOffCloses`: once the teardowns a screen-off has launched are
through, no TUN is open, although establishing one may have been under way, in code the teardown
cannot interrupt. `TunReturns`: while the session runs, the screen is on and the core serves, the TUN
comes back, with its bridges and with the address of the log: late teardowns, failed attempts and the cancelled flow
of a session before it in the same instance leave no flag that keeps it away. It excuses three writes that come
too late (`raced`): the flow of a stopped session publishes its interface, or says that it is about to
make one, and a screen event takes the address from a flow that is about to enter `establishTun`. `TunnelSettles`: an iOS tunnel that is not up, be it
starting, stopped or dead behind a start that succeeded, comes up or is given back to the system with an answer and no core left
that was up when it was told, on each of the error paths and with a stop at any point of them. After
success nobody waits for the core; its end and the bridge's lead to the system by way of the
receive that fails. `ShownCatchesUp`: once sessions and user leave it at that, the status shown is, for good, that of
the backend the API is at. `ActiveCompatible`: a router becomes active only if its protocols match those of
the local backend, not those of the router the API happens to be at, however connects overlap; the
legacy identifier makes matching not transitive, which is why three protocols are needed. `ListIsStored`: whatever
overtakes what, once no write is under way the next start loads the list that is shown.

**Why the bounds are enough.** Two handlers give every order of two requests at once, and since
a handler takes request after request, of any number in sequence; a third would only wait in
the same queue. A second watchdog is needed to see two at once; the live run has one because
nothing is dropped in it, where `OneSupervisor` says there is never a second. Readiness after one tick
is enough where only its being early or late matters (`SessionLogs` has two). One VK call
distinguishes forgotten from tracked, one more from another writer of the list is there or not when the
session's replaces it or a teardown takes it. Once a handler has been dropped inside its critical section (`cut`), where nothing is claimed of
calls any more, the run follows no behaviour with calls of other requests in the list (`CallsOfSessions`); the refinement does not
depend on them. Two sessions are what "lines of an earlier session"
needs. Two prefixes give a bypass route that works next to one that is someone else's.
Two kills are one that leaves remains and one that hits the recovery from it; two stuck objects
are a failure next to another, e.g. a jump that keeps its chain and a rule.
Three bytes hold two lines or one, so that three new lines rotate twice; two faults are a broken append and a failure
of what repairs it; the old log may be longer than a segment, and its lines with their prefix too.
Two Windows sessions are an old thread and a new session; with one prefix, a bypass route is there or not.
Three identities are the first one and two regenerations, three configs a deleted one, a living one
and one that might get the old id; three calls and two requests of each kind give a start between the
read and the write of a stop, or between the teardown of a connect and its hand-over. Two releases are the installed one and its update.
Two flows are a cancelled one and its successor, in one instance of the service or in two; one closer is a late
teardown, and as it may be launched again once it is through, the next one (`ScreenOffCloses` is proved for any number).
The iOS tunnel is one process, and what it does between start and end is not bounded.
Two hosts are the one that is left and the one the API goes to; two changes are any two, in either order, of a change of the session, one of
the host and a tap.
Two routers are the one that is left and the one that is chosen, two calls every overlap of two; a restart is
one more `_loadSaved`, of whatever an interrupted write has left.
Handlers, watchdogs, calls, clients, requests and routers are interchangeable, so `DesktopVpn.cfg`,
`OpenWrtVpn.cfg`, `CoreDownload.cfg`, `DesktopStores.cfg`, `WindowsTun.cfg` and `RouterSwitch.cfg`
use symmetry; the runs with liveness do not, as it is not sound there.

**Deadlock** is checked in all runs. `Terminated` in `DesktopVpn` and `OpenWrtVpn` is the one state in which the
process has nothing left to do: after its shutdown.

**Fairness.** `DesktopVpn!FairSpec`: weak fairness of the work of each task: tokio polls a task that can
run, `child.kill`, the VK requests and the bridge's abort return, the 90 s deadline passes. Strong
fairness of taking the mutex: tokio's `Mutex` is FIFO, so a waiter gets it although others come
in between. No fairness of requests, signals, the core's output or death, or `StartCall`: the
environment may do nothing. In particular `Ready` is fair only once the ticks are there; a PaperFlux core need
never print anything.
`MCPhone`: coroutines and the main thread go on, the system destroys a service that has called
`stopSelf` unless an interface is open (then its VPN binding may keep it), and the core keeps printing its
statistics, which is what `watchLogsAndManageTunnel` waits for; in the front end, timers fire and requests are
answered or given up (`ApiClient` has a timeout). Nothing is asked of the event stream, of screen,
user or sessions. Faults and failures are bounded, so "for good" means after the last of them.

`PacketTunnel`: dispatched blocks and callbacks run, the 45 s pass, a core that was told ends, and
something is sent into the tunnel, so that a receive on the port of a core that is gone fails; not
that the core gets ready, ends by itself, or that anybody stops the tunnel.

**Violated on purpose.** `proxy_routes_race` states what a comment of the code says, and TLC
shows how the code departs from it: `ensure_proxy_route` pushes its entry under a lock of its own after the command;
a client task of the old session may push after `finish_vpn` has cleared the list. The next
session then believes the route is there, against `socks5.rs:5`. `android_bridges` states what the header of
`LaLuneVpnService.kt` says of connecting (line 11), that the TUN and its bridge come up together and make the connection: a STOP does not reach an
`establishTun` whose interface is back, which publishes it behind `stopFlow`; its bridges see `isRunning`
down and end, and a START in the same instance finds `tunEstablished` and opens no other.

## 4. What is proved

Eight modules hold proofs. Every invariant a passing run checks is proved, and so are both refinements and
`GenerationKept`. The assumptions are the named ones of the modules: constants are numbers where
they bound something, values that mean "none" are no members of the sets beside them, and links and
lists are texts of the alphabet (`LinkAssumption`).

**`DesktopVpnProofs`**, for any sets of handlers, watchdogs and calls, any
readiness threshold, with and without dropped requests, from `TasksAssumption` (the sets of tasks are
disjoint), `TicksAssumption`, `ChoicesAssumption` and `CallsAssumption` (the calls of sessions are not those of
other requests):

| Theorem | Statement |
|---|---|
| `TypeCorrect` | `Spec => []TypeOK` |
| `LockCorrect` | a task is inside a critical section iff it holds `vpn.operation` |
| `ResourcesCorrect` | what the holder may rely on: see below |
| `SupervisorCorrect` | `Spec => []OneSupervisor` |
| `CallsCorrect` | `Spec => []CallsTracked` |
| `RestCorrect` | `Spec => []RestIsClean` |
| `EventsCorrect` | `Spec => []EventsSettle` |
| `Refinement` | `Spec => ImplementsTunnelSession` |
| `FlowSafe` | flow is reported only with an open TUN and a core: a property of `TunnelSession`, carried over by `Refinement` |

The argument. `TypeOK` is inductive. `LockInv` ties `pc` to `op`: an abort or a dropped
request gives back the lock exactly when the task held it. `OneSupervisor` is not inductive:
an aborted watchdog is alive until it reaches an await. `SupervisorInv` adds where every live
watchdog is recorded, in `vpn.watchdog` or with the stopper that awaits it, so that a
stopper past its join knows there is none; `LockInv` excludes a second stopper. `ResourceInv`
says for every place of the teardown what is down already (`running` first, then the TUN, then
the core), which is what the steps `StartCore`, `CloseTunnel` and `RemoveCore` of the
abstract service require; `LockInv` keeps other tasks from disturbing it. `Refinement` maps
each of some forty actions to a step of `TunnelSession` or a stutter.

`AbortInv` says that whoever aborted a watchdog waits for its end with the lock in its hands, so an
abort never strikes a watchdog inside a critical section. With it, `CallInv` says at which places a task
holds calls in a list of its own, and that past the join the list names no call of a session any more when a new
one replaces it: no assignment overwrites calls of sessions. It may overwrite those other requests
have reported: that is the exemption of `CallsSafe`. `RestInv` says what a teardown has cleared by each of its
steps and what phase is shown meanwhile, for all of the ends a session may have; with `ResourceInv`
it gives `RestIsClean` at the step that releases the lock. `EventInv` does the same for the last event: that
bridge and watchdog are gone past the join is what keeps a late event from following.

**`OpenWrtVpnProofs`**, from `OpenWrtVpn`'s `TasksAssumption`, for any handlers, watchdogs and calls:

| Theorem | Statement |
|---|---|
| `TypeCorrect` | `Spec => []TypeOK` |
| `LockCorrect` | as on the desktop |
| `GroundCorrect` | `Spec => [](RoutingNeedsTun /\ ConnectStartsClean)` |
| `CallsCorrect` | `Spec => []KnownCallsTracked` |
| `Refinement` | `Spec => ImplementsTunnelSession` |

`GroundCorrect` needs the invariant `GroundInv`: for every place of the teardown, what is down
already; with `LockInv`, nobody else raises it again. Its first half, `RoutingNeedsTun`, says that
packets are selected for the TUN only while there is one. `CallsCorrect` rests on `EndingCorrect`, that
only a task closing calls holds some for it, so that `KillCore`, which fills the list, forgets
none; each other action then moves calls from one list to another. `Refinement` needs that a
watchdog that has still to open the TUN finds a core (`CoreInv`) although it does not look: whoever removes the core has
awaited the watchdog first (`SupervisorInv`). That holds until a handler is dropped, and the property says no more.

**`OpenWrtRoutingProofs`**, from `RoutingAssumption`, for any number of copies, kills and stuck objects:

| Theorem | Statement |
|---|---|
| `RemainsFound` | `RoutingSpec => []RemainsCleared` |
| `SelectionSafe` | `RoutingSpec => []SelectionNeedsPolicy` |
| `RecursionExcluded` | `RoutingSpec => []CoreNeverRecurses` |
| `AllReturned` | `RoutingSpec => []GivenBack` |

All four follow from one invariant, `RoutingInv`. `RestInv`: what is to do is the rest of the order its phase began
with, so a command being ahead implies the later ones are (`InstallPlaces`, `DropPlaces`).
`FlagInv`, `SlotInv`, `ChainInv`: flags and kernel agree on each rule that exists once, at each
place of these orders. `OwnInv`: the kernel holds nothing but what the session will undo, what stuck and
what a kill left. `RemainsInv`: what is left can be recognised, as long as no cleanup was disturbed: without a
chain, only the rules of an old release are there, and these together. Each part has a lemma of its own
(`FlagKeeps` and so on), which uses the earlier parts.

**`LinuxRoutesProofs`**, from `PrefixAssumption` and `ContentAssumption`, for any finite set of bypass prefixes and any
resolv.conf contents:

| Theorem | Statement |
|---|---|
| `OthersSafe` | `Spec => []OthersKept` |
| `RoutesReturned` | `Spec => []RoutesGivenBack` |
| `BypassCorrect` | `Spec => []CoreBypassesTunnel` |
| `DnsCorrect` | `Spec => []DnsOnlyInTunnel` |

The first two follow from `OwnInv` (`OwnCorrect`): the kernel holds nothing but other programs' objects, what
is in `undo`, what stuck and what a kill left, `undo` names nothing twice and nothing of
others. `AddedKeeps` and `UndoKeeps` are the facts about the vector `undo` this needs: what
appending and taking the last element off do to the objects it names. `StageInv` says how far install is, and so that the catch-all
rule comes last. `BypassInv` says that in `undo` it stands behind each rule that exempts somebody from it;
as `undo` is run from its end, it goes first. `DnsInv` says where the original content of resolv.conf
is kept, at each step between the write and the restore.

**`WindowsTunProofs`**, from `ProxyAssumption` and `TunAssumption`, for any number of sessions, clients,
destinations and prefixes:

| Theorem | Statement |
|---|---|
| `RevivalExcluded` | `Spec => []NoRevival`: a thread moves at most one packet into or out of later sessions |
| `BypassCorrect` | `Spec => []BypassTracked` |
| `ClientsRouted` | `Spec => []RoutedUnlessStale` |

`NoRevival` bounds a counter and is not inductive. `TunInv` adds to the types: what the slot holds
in every phase of a start (`SlotInv`); that the threads of the current generation are those of the session that is
up, and that no thread of a later one is there (`ThreadInv`); and that a thread that has
strayed is back at its comparison or ended, and is not of the current generation
(`StrayInv`), so that the comparison ends it. There is one lemma per group of actions.
`BypassInv` adds to `BypassTracked` that a session that is down has left only orphans, which is
why configuring the list anew forgets nothing. `RouteInv` says of each client between check and connect,
and of each name in `proxy_routes`, that the route is there or the entry is stale.

**`DesktopStoresProofs`**, from the assumptions of its modules, for any clients, texts, workers, calls, handlers,
identities, downloads and releases:

| Theorem | Statement |
|---|---|
| `IdsSafe` | `ConfigSpec => []IdsNameOneConfig` |
| `CallsSafe` | `CallSpec => []CallsListed`, with the exemption `risked` |
| `LinesGone`, `ReadinessFresh` | `LogSpec => []EarlierLinesGone`, `LogSpec => []FreshReadiness` |
| `IdentitySafe` | `SettingsSpec => []IdentityKept`, with the exemption `mixed` |
| `FlagSafe`, `CoreSafe` | `Spec => []FlagReleased`, `Spec => []InstalledCore` (`CoreDownload`) |

`SequenceInv` adds that `sqlite_sequence` is beyond every id there is or has been. `ListedInv` is `CallsListed` call by call, with the places of `vpn_connect`.
`DrainInv`: all lines beyond those measured at the connect are of the session, also when a `DELETE /logs` makes the log
shorter than was measured. `SourceInv`: core and session agree while it is watched, and the pipe is empty otherwise.
`IdentitySafe` took most: what is on disk leads to an identity the device may
have (`OnDisk`), and either there is one, known to memory and to every form on its way
(`Settled`), or one handler, alone, moves the device to another (`Regenerating`). `FlagSafe` and
`CoreSafe` rest on what each place of a download implies about its files (`Along`), if it has been alone.

**`DataProofs`**, the log history from `SizesAssumption` and `BoundsAssumption`, for any sizes of a segment, of a
member's overhead, of lines and of the prefix of migrated ones, and any numbers of lines, faults and stops; the links
from `LinkAssumption`, for any links, lists, hashes and settings, of any length and with any characters of the alphabet:

| Theorem | Statement |
|---|---|
| `LogInvCorrect` | both segments can be read to their end, and the counts of bytes never fall short |
| `InOrderCorrect` | `Spec => []ReadInOrder` |
| `ClearedCorrect` | `Spec => []ClearedForGood` |
| `KeptCorrect` | `Spec => GenerationKept` |
| `LinksComeBack` | `LinkSpec => []RoundTrip` |
| `HashesArrive` | `LinkSpec => []HashesReachCore` |

`LogInv` says: only the last member of a file may be broken, and a file keeps both limits of
`read_segment` (`FilesInv`); `pending_bytes` is exact (`BufferInv`); `active_bytes` bounds what can be decoded, and a file that ends in a
broken member counts as full, so that nothing is written behind it (`CountInv`); what a flush has measured
still holds when it appends (`AppendInv`); no number is at or below the last one cleared
(`NumbersInv`); and the lines are in order but for the exempt ones (`OrderInv`, by `OrderedConcat`: two
sequences in order, all numbers of the first below those of the second, are in order one behind the other).

This needs what `Bytes`, `Packed` and `Content`, recursive functions of a sequence, make of an
append, a concatenation and a prefix, for every sequence: induction over data. No prover here can
instantiate the library's induction theorems, but `WFMin` and `NatLessThanWellFounded` have no
operator among their parameters. `Least` (a nonempty set of numbers has a least element), `Induction`
(for a *set* of numbers) and `SeqInduction` follow from them, and so does `Recursion`: a function
that is defined by `f[n]` from `f[n - 1]` exists, which `CHOOSE` in the definition does not say by itself.

Of links, `Split`, `Join`, `NonEmpty` and the search for keys in `Params` are such functions. `SplitAppend`,
`JoinAppend` and `NonEmptyAppend` say what one more unit or part does; the rest is induction on them. `LinksComeBack`:
what `to_link` writes has each key once (`LinkParams`), `url_encode` leaves no "+" (`EncodeTyped`), so the list is cut
where the hashes end (`SplitJoin`, `HashListFacts`), and what it has coded is decoded again if it is
ASCII (`DecodeEncode`); the accepted link passes the same conditions again (`ParsedFacts`, `ComesBack`).
`HashesArrive`: a list means what stands between its separators (`Meant`), and no parser changes that, if no hash has a
separator in it: `JoinSplit` and `SplitConcat` say how the parts of a text follow from those of its pieces,
`Relisted` that leaving out empty parts loses nothing, `MeantQuery` and `MeantJoin` draw the conclusion for the
parsers, and `ItemInv` carries it from the link or form to the launch.

**`FrontendProofs`**, from the assumptions of `AndroidTun`, `PacketTunnel` and `RouterSwitch`, for any flows, closers,
threshold, faults, active lines, routers, calls and restarts:

| Theorem | Statement |
|---|---|
| `AndroidTypeCorrect` | `AndroidSpec => []AndroidTypeOK` |
| `ScreenOffSafe` | `AndroidSpec => []ScreenOffCloses` |
| `OneAnswer` | a start of the iOS tunnel is answered at most once, by whichever of core, wait, bridge and stop is first |
| `NoCoreLeft` | an iOS tunnel that is over has no core nobody has told, unless the stop or the failure came before the core ran (`missed`): the safety half of `TunnelSettles` |
| `RouterCompatible` | `Spec => []ActiveCompatible` |
| `ListStored` | `Spec => []ListIsStored` |

`MutexInv`: a flow is inside `tunnelMutex` iff it owns it.
`TeardownWaits`: behind a dark screen, an open interface or a flow inside the mutex implies
a closer that waits for the mutex; it gets through only once the flow is out, and a flow that
comes later sees the screen. Of iOS: `AnswerInv`, the completion is there only until it has
been called; `PlaceInv`, `isRunning` is down exactly from a stop on, and `isCoreStarted` is up while the core
is; `ToldInv`, who is about to answer an error has told the core or has come before it ran, or a stop is under
way, of which that holds before it is through: a starter that skips `stopCore` has seen `isRunning` down.
`ComparedInv`: a call past its comparison carries protocols that match. `WrittenInv`: every change is
followed by a write, and while the first read is under way there is nothing to lose.

The specifications `AndroidSpec`, `TunnelSpec`, `ConfigSpec`, `CallSpec`, `LogSpec`, `SettingsSpec`, `RoutingSpec` and
`CoreLogs`'s `Spec` are the modules' own; `MCPhone`, `MCDesktopStores` and `MCOpenWrtParts` check their actions and
invariants as one of their parts.

**Only model-checked**: liveness (`RequestsAnswered`, `DeadSessionReaped`, `ConnectDecided`, `TunReturns`,
`TunnelSettles`, `ShownCatchesUp`), which is out of the prover's reach; and `EveryDestinationRouted` and
`TunIsServed`, which are violated.

## 5. What the models say about the code beyond its properties

Desktop backend:

* A handler dropped between `calls.start` and the spawn forgets its calls; one dropped inside
  `finish_vpn` leaves the rest of the teardown to the next request. The order of teardown, and
  so the refinement, survives it; `CallsTracked`, `RestIsClean`, `EventsSettle` and
  `OneSupervisor` hold until the first such drop (`cut`). OpenWRT's `ActiveCalls` has a
  destructor for this, the desktop has not.
* Early failures of `vpn_connect` leave the phase "connecting" (`RestIsClean` admits it).
* `cleanup` does not finish the VK calls.
* `vpn_connect` replaces `active_vk_call_ids` with its own calls (`api.rs:751`). What `vk_calls_start`, which takes no
  lock, has added since the `finish_vpn` of that connect (`api.rs:582`) is on no list any more: neither
  "stop all" nor the disconnect finishes it (`risked`). OpenWRT keeps only its sessions' calls in a list; those of the handlers there are named by their answer alone.
* A killed backend leaves policy rules, on which every later connect fails (`api` reports the
  table as taken), and the VPN's resolv.conf, which the next session saves as the content to put back.
* `vpn_connect` measures `state.logs` and the watchdog drains as many lines from its front
  (`api.rs:787`). A `DELETE /logs` in between makes it drain lines of the attempt under
  way. `last_size` is the length before the read (`api.rs:823`), so a line appended between the two
  is counted twice, and three active ticks may be two lines. It may also lie inside a character of what is read
  next, where the slice of `api.rs:776` panics: the watchdog ends, and a core that dies later is found by nobody.
* Two overlapping PATCH requests each write back a clone: one update is lost, in memory and on
  disk. The identity of the device is in two files, and each start rewrites both: after a kill inside a save of
  `settings.json`, a kill inside the rewrite of `device_id.json` (`state.rs:104`) by the next start leaves both torn, and
  the one after it makes a new identity. A regeneration that overlaps a form or another one may leave
  two identities in the two files (`mixed`).
* `stop_active_vk_calls` takes the list before it finishes the calls: one whose `forceFinish` fails
  is forgotten.
* `vpn_connect` downloads a missing core without looking at `core_downloading`. Two downloads
  that overlap write one temporary file: what is installed may be a mixture, or not what `LATEST` says.
  A synchronous download whose client goes away leaves the flag up, and every later one is answered 409.
* A list of hashes that is nothing but separators, with a comma among them, hides that of the settings: `protocol.rs:168`
  looks whether the trimmed text is empty, not whether a hash is left, and the core gets none.
* Links: the `token` of a csqtt link is read and dropped; links of OLCRTC and ToTS run the CSQTT core;
  `parse_csqtt_native` does not decode percent-coding; `decode_query_component` makes of each byte of a
  character that is not ASCII a character; a scheme in capitals is accepted but not stripped. The
  transport of a PaperFlux link never reaches the core: `protocol.rs:282` takes
  `settings.pf_transport`, which `settings.rs:150` never leaves empty, where the Android backend
  (`Backend.kt:1288`) asks the config first.
* Windows: a thread that meets `ConnectionReset` ends while `running` stays up. An excluded
  prefix equal to a route of the tunnel itself is deleted with it by the cleanup. Routes past the tunnel survive a kill.

OpenWRT:

* A kill inside `cleanup_stale_chains`, after the chains and before the policy rules, leaves
  rules no later cleanup looks for; every later connect fails on them. So does a failed removal of such a rule by `Drop`.
  A kill between the last chain and resolv.conf leaves the VPN's DNS.
* If the bridge ends by itself, marked packets find an empty table 10620 and go out through
  the WAN until the watchdog has removed the selection (`SelectionNeedsPolicy` asks for the route
  only while the TUN is there).
* `migrate_legacy` that fails after it has recorded the lines leaves them pending and the old log in place: they are
  flushed later and migrated once more at the next start. The same after a kill before the removal.
* A failed append whose `set_len` fails too stays as a piece that can be decoded in part: its lines
  show twice, once from the piece and once from the batch that is written again.
* `clear_log_history` empties the pending lines even if it then fails, but the panel's copy only if it succeeds.
* When firewall4 is restarted, its table is made anew and handles may be given out again;
  `Drop` deletes by the handles it has stored. The model assumes they are not.

Android:

* A STOP during `builder.establish()` cancels the flow, which then never gets the interface: it stays open
  until it is collected, unseen by `held`, so that `ScreenOffCloses` says nothing of it.
* If the flow is back already, it publishes after `stopFlow` (430-432). The bridges end at once, but
  `tunEstablished` stands: a START in the same instance, which the system keeps while an interface is open,
  opens no other until the next screen-off. This is the run `android_bridges`. A flow that passes line 261 behind the
  STOP leaves `establishing` (264) up for as long as it takes, also over the STOP's reset.
* The reset of a late screen-off (127) comes after its teardown and outside the mutex: it takes the detected address
  from a flow about to enter `establishTun`, which then uses the default one (327) and keeps it until the
  next screen-off. It may also show "connecting" over an open interface.
* A bridge coroutine that ends on an exception (459-462, 478-481) leaves `tunEstablished` set: nobody starts it again or opens a new
  interface until the next screen-off. The model has no such exceptions. `bridgeJobs` is a list that several threads change without a lock.
* A START right after a STOP may reach the instance that has called `stopSelf`, and be lost with it. A sticky restart
  shows a notification without a session.

iOS:

* `csqtt_stop` does nothing to a core that does not run yet, and `stopTunnel` does not even call it before
  `isCoreStarted`: a stop in the first moments is forgotten, and the core starts and lives until the system
  ends the process (`missed`).
* A stop between the guard of `startUDPBridge` and its assignment of `udpConnection` finds nothing to cancel: the bridge
  opens behind it.
* The start may be answered with success although the core has just exited; the exit then finds no
  completion, and a `.failed` of the bridge after success stops the core only. The tunnel is given up
  when the next receive fails, so not before something was sent.
* The app (`Backend.swift`) writes "disconnecting" (918) and "connecting" (904) over whatever
  NetworkExtension has notified before. With no tunnel to stop no notification follows, and the front end
  ignores its button in "disconnecting" (`connection_page.dart:31`).

Front end:

* `connect` of a router takes the API to it although the user has confirmed a disconnect meanwhile
  (`router_notifier.dart:276`), whose dialog says "API вернётся на 127.0.0.1" (`router_banner.dart:31`).
* `connect` asks the API's current host for the token; from one router to the next that is the
  first router, whose backend does not know the request, so "our token" (`router_notifier.dart:14`) is not passed on.
* The front end stores the active router but never reads it back. `logs_notifier.dart:91` opens `/logs/ws`, which
  no backend has, and tries again every two seconds.
* For up to twenty seconds after the button, `VpnNotifier` ignores a "disconnected" that is true
  (a connect that failed at once) as it ignores a stale one. The reply to a disconnect may show
  "disconnected" over a connect that came after it, and the answer of a refresh that was asked before
  is shown until the next one. A stream that `SseClient` still opens after `dispose` is
  never closed.

## 6. Not modelled, and why

* *Core isolation* (`linux_core.rs`): a UID lease by `flock`, which the kernel gives up with the
  process, and `setuid` in the child between fork and exec; what could go wrong is in the operating system.
* *Wire formats*: SOCKS5, DNS, the settings file, AES-GCM and base64 of links: functions of bytes
  with library code behind them. UDP ASSOCIATE of the proxy is a loop over one socket. The packet loops carry packets.
* *VK login and captcha*: a browser window and one request each; they appear as steps that may fail.
* *OpenWRT panel, core bundle, settings and configs*: static files, unpacking, forms with little state; the log's
  copy in the panel is a cache of `CoreLogs`'s snapshot.
* *Android backend*: HTTP routes around the service, a translation of the desktop's in which one
  process has both. *iOS backend* (`Backend.swift`): HTTP routes around NetworkExtension, whose notifications
  would be most of a model, and an assumption; the packet tunnel behind it is `PacketTunnel`.
* *Front end*: `backend_watchdog.dart` is a ping timer; pages, widgets and the other notifiers are presentation.
* *Lua plugins* are called after state changes and change no state of the session.
* Installers, deploy manager, token fetchers, site, build scripts: one-shot tools.

## 7. What remains

1. UDP ASSOCIATE and the DNS codec of the proxy as operators, checked against a reference definition.
2. `OpenWrtRouting` inside a session whose handlers are cut off.
