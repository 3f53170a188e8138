---------------------------- MODULE SessionLogs ----------------------------
(***************************************************************************)
(* The two logs of a desktop session. state.logs is the backend's own log, *)
(* a vector that vpn_connect measures and the watchdog drains. logs.log is *)
(* the core's: reader tasks (core_manager.rs) append its output, the       *)
(* watchdog of api.rs polls the length of the file and reads what is new to *)
(* decide when the session is ready, and DELETE /logs empties both.        *)
(* A line of the file is one unit of its size.                             *)
(***************************************************************************)
EXTENDS Naturals, FiniteSets, SequencesExt

CONSTANTS
  ReadyTicks,   \* active lines in a row before the TUN is started
  MaxSession,   \* bound on the connects
  MaxPrinted,   \* bound on the lines a core prints
  MaxLogged     \* bound on the lines in state.logs

ASSUME BoundsAssumption ==
  {ReadyTicks, MaxSession, MaxPrinted, MaxLogged} \subseteq Nat \ {0}

VARIABLES
  session,   \* number of the current session, 0 before the first
  pc,        \* its vpn_connect and then its watchdog
  logs,      \* state.logs, each line as the number of the session it belongs to
  before,    \* previous_log_count
  cleared,   \* previous_logs_cleared
  core,      \* the session whose core runs, 0 for none
  printed,   \* how many lines that core has printed
  pipe,      \* printed, and not yet appended by the reader tasks
  coreLog,   \* logs.log
  size,      \* last_size
  met,       \* the length metadata() returned
  ticks,     \* consecutive_active_ticks
  clearing   \* a logs_clear between its two steps

logVars == <<session, pc, logs, before, cleared, core, printed, pipe, coreLog, size, met, ticks, clearing>>

LogInit ==
  /\ session = 0
  /\ pc = "none"
  /\ logs = <<>>
  /\ before = 0
  /\ cleared = FALSE
  /\ core = 0
  /\ printed = 0
  /\ pipe = <<>>
  /\ coreLog = <<>>
  /\ size = 0
  /\ met = 0
  /\ ticks = 0
  /\ clearing = FALSE

-----------------------------------------------------------------------------
(* vpn_connect and finish_vpn.                                             *)

\* The mutated form kills the core and leaves its reader tasks to themselves.
FinishKeepsReaders ==
  /\ pc # "none"
  /\ pc' = "none"
  /\ core' = 0
  /\ UNCHANGED <<session, logs, before, cleared, printed, pipe, coreLog, size, met, ticks, clearing>>

\* The watchdog is gone, CoreProcess::kill ends the core and aborts its reader tasks.
Finish ==
  /\ pc # "none"
  /\ pc' = "none"
  /\ core' = 0
  /\ pipe' = <<>>
  /\ UNCHANGED <<session, logs, before, cleared, printed, coreLog, size, met, ticks, clearing>>

\* The mutated form measures the log one line short.
ConnectOneShort ==
  /\ pc = "none"
  /\ session < MaxSession
  /\ Len(logs) < MaxLogged
  /\ session' = session + 1
  /\ before' = IF logs = <<>> THEN 0 ELSE Len(logs) - 1
  /\ logs' = Append(logs, session')
  /\ pc' = "spawn"
  /\ UNCHANGED <<cleared, core, printed, pipe, coreLog, size, met, ticks, clearing>>

\* The log is measured, then the first line of the new session is logged.
Connect ==
  /\ pc = "none"
  /\ session < MaxSession
  /\ Len(logs) < MaxLogged
  /\ session' = session + 1
  /\ before' = Len(logs)
  /\ logs' = Append(logs, session')
  /\ pc' = "spawn"
  /\ UNCHANGED <<cleared, core, printed, pipe, coreLog, size, met, ticks, clearing>>

\* logs.log is emptied, the core spawned and its watchdog with fresh locals.
Spawn ==
  /\ pc = "spawn"
  /\ coreLog' = <<>>
  /\ core' = session
  /\ printed' = 0
  /\ cleared' = FALSE
  /\ size' = 0
  /\ met' = 0
  /\ ticks' = 0
  /\ pc' = "watch"
  /\ UNCHANGED <<session, logs, before, pipe, clearing>>

\* Any task may log a line.
Log ==
  /\ session > 0
  /\ Len(logs) < MaxLogged
  /\ logs' = Append(logs, session)
  /\ UNCHANGED <<session, pc, before, cleared, core, printed, pipe, coreLog, size, met, ticks, clearing>>

-----------------------------------------------------------------------------
(* The core and its reader tasks.                                          *)

Line == [from : 1..MaxSession, active : BOOLEAN]

CoreWrites ==
  /\ core # 0
  /\ printed < MaxPrinted
  /\ printed' = printed + 1
  /\ \E active \in BOOLEAN :
       pipe' = Append(pipe, [from |-> core, active |-> active])
  /\ UNCHANGED <<session, pc, logs, before, cleared, core, coreLog, size, met, ticks, clearing>>

AppendLine ==
  /\ pipe # <<>>
  /\ coreLog' = Append(coreLog, Head(pipe))
  /\ pipe' = Tail(pipe)
  /\ UNCHANGED <<session, pc, logs, before, cleared, core, printed, size, met, ticks, clearing>>

-----------------------------------------------------------------------------
(* The watchdog's poll: the length first, the content after another await. *)

Meta ==
  /\ pc = "watch"
  /\ Len(coreLog) > size
  /\ met' = Len(coreLog)
  /\ pc' = "read"
  /\ UNCHANGED <<session, logs, before, cleared, core, printed, pipe, coreLog, size, ticks, clearing>>

Lesser(m, n) == IF m < n THEN m ELSE n

NewPart == SubSeq(coreLog, Lesser(size, Len(coreLog)) + 1, Len(coreLog))

Count(acc, line) == IF line.active THEN acc + 1 ELSE 0

\* The first active line removes as many lines as there were before the session, and logs
\* a line about it.
Drained ==
  LET count == Lesser(before, Len(logs))
      rest  == SubSeq(logs, count + 1, Len(logs))
  IN IF count > 0 THEN Append(rest, session) ELSE rest

Read ==
  /\ pc = "read"
  /\ LET counted == FoldLeft(Count, ticks, NewPart)
         proved  == \E i \in DOMAIN NewPart : NewPart[i].active
     IN /\ ticks' = counted
        /\ cleared' = (cleared \/ proved)
        /\ logs' = IF proved /\ ~cleared THEN Drained ELSE logs
        /\ pc' = IF counted >= ReadyTicks THEN "ready" ELSE "watch"
  /\ size' = met
  /\ UNCHANGED <<session, before, core, printed, pipe, coreLog, met, clearing>>

-----------------------------------------------------------------------------
(* DELETE /logs: the vector, then the file.                                   *)

ClearLogs ==
  /\ ~clearing
  /\ logs' = <<>>
  /\ clearing' = TRUE
  /\ UNCHANGED <<session, pc, before, cleared, core, printed, pipe, coreLog, size, met, ticks>>

ClearFile ==
  /\ clearing
  /\ coreLog' = <<>>
  /\ clearing' = FALSE
  /\ UNCHANGED <<session, pc, logs, before, cleared, core, printed, pipe, size, met, ticks>>

LogNext ==
  \/ Connect \/ Spawn \/ Finish \/ Log
  \/ CoreWrites \/ AppendLine
  \/ Meta \/ Read
  \/ ClearLogs \/ ClearFile

LogSpec == LogInit /\ [][LogNext]_logVars

-----------------------------------------------------------------------------
Watching == pc \in {"watch", "read", "ready"}

LogTypeOK ==
  /\ session \in 0..MaxSession
  /\ pc \in {"none", "spawn", "watch", "read", "ready"}
  /\ logs \in Seq(1..MaxSession)
  /\ before \in 0..MaxLogged
  /\ cleared \in BOOLEAN
  /\ core \in 0..MaxSession
  /\ printed \in 0..MaxPrinted
  /\ pipe \in Seq(Line)
  /\ coreLog \in Seq(Line)
  /\ size \in Nat
  /\ met \in Nat
  /\ ticks \in Nat
  /\ clearing \in BOOLEAN

\* "Every fresh core start gets a fresh core log ... reconnecting cannot expose stale
\* readiness lines": what a watchdog reads was printed by the core of its own session.
FreshReadiness == Watching => \A i \in DOMAIN coreLog : coreLog[i].from = session

\* Once the new core has proved to be alive the lines of earlier sessions are gone, also
\* when DELETE /logs ran between the measuring and the draining.
EarlierLinesGone == Watching /\ cleared => \A i \in DOMAIN logs : logs[i] = session
=============================================================================
