------------------------ MODULE DesktopStoresProofs ------------------------
(***************************************************************************)
(* Proofs about what the desktop API keeps beside the session, for any     *)
(* requests in any number: ConfigStore (an id that a user has deleted is   *)
(* never given to another config), VkCalls (every call that lives is on a  *)
(* list that will be finished, except what was reported during a           *)
(* vpn_connect that replaces the list), SessionLogs (the readiness of a    *)
(* session is read from its own core, and the lines of earlier sessions    *)
(* are drained), SettingsStore (the identity of the device survives every  *)
(* overlap of forms and every kill that leaves one of its two files whole) *)
(* and CoreDownload (the flag of a download is never left up by an error,  *)
(* and what the name of the core leads to is a complete release that       *)
(* LATEST does not run ahead of).                                          *)
(***************************************************************************)
EXTENDS ConfigStore, VkCalls, SessionLogs, SettingsStore, CoreDownload, TLAPS

\* What makes IdsNameOneConfig inductive: sqlite_sequence is at or above every
\* id there is or has been, so the next one is new.
SequenceInv ==
  /\ sequence \in Nat
  /\ DOMAIN rows \subseteq 1..sequence
  /\ deleted \subseteq 1..sequence
  /\ IdsNameOneConfig

(* An insert takes the one number above the sequence.                      *)
LEMMA InsertKeeps ==
  ASSUME SequenceInv, NEW text, Insert(text)
  PROVE  SequenceInv'
<1>1. sequence' = sequence + 1 /\ sequence' \in Nat /\ deleted' = deleted
  BY DEF Insert, SequenceInv
<1>2. DOMAIN rows' = DOMAIN rows \cup {sequence'}
  BY DEF Insert
<1>3. /\ 1..sequence \subseteq 1..sequence'
      /\ sequence' \in 1..sequence' /\ sequence' \notin 1..sequence
  BY <1>1 DEF SequenceInv
<1> QED
  BY <1>1, <1>2, <1>3 DEF SequenceInv, IdsNameOneConfig

(* Every step keeps the ids below the sequence, and the deleted ones       *)
(* apart.                                                                  *)
LEMMA ConfigStepKeeps ==
  ASSUME SequenceInv, [ConfigNext]_configVars
  PROVE  SequenceInv'
<1>1. CASE UNCHANGED configVars
  BY <1>1 DEF configVars, SequenceInv, IdsNameOneConfig
<1>2. CASE \E text \in Text : Insert(text)
  BY <1>2, InsertKeeps
<1>3. CASE \E text \in Text, id \in Id : Update(id, text)
  <2>1. DOMAIN rows' = DOMAIN rows /\ UNCHANGED <<sequence, deleted>>
    BY <1>3 DEF Update
  <2> QED
    BY <2>1 DEF SequenceInv, IdsNameOneConfig
<1>4. ASSUME NEW id \in Id, Delete(id)
      PROVE  SequenceInv'
  <2>1. id \in DOMAIN rows /\ deleted' = deleted \cup {id} /\ sequence' = sequence
    BY <1>4 DEF Delete
  <2>2. DOMAIN rows' = DOMAIN rows \ {id}
    BY <1>4 DEF Delete, Restrict
  <2> QED
    BY <2>1, <2>2 DEF SequenceInv, IdsNameOneConfig
<1>5. CASE \/ \E id \in Id, c \in Client : FindToSelect(c, id)
           \/ \E c \in Client : Select(c)
           \/ Deselect \/ RestartConfigs
  BY <1>5 DEF FindToSelect, Select, Deselect, RestartConfigs, SequenceInv, IdsNameOneConfig
<1> QED
  BY <1>1, <1>2, <1>3, <1>4, <1>5 DEF ConfigNext

(* ConfigStore::insert and delete: AUTOINCREMENT never gives a deleted id   *)
(* to another config, for any history of requests and restarts.             *)
THEOREM IdsSafe == ConfigSpec => []IdsNameOneConfig
<1>1. ConfigInit => SequenceInv
  BY DEF ConfigInit, SequenceInv, IdsNameOneConfig
<1>2. SequenceInv /\ [ConfigNext]_configVars => SequenceInv'
  BY ConfigStepKeeps
<1>3. SequenceInv => IdsNameOneConfig
  BY DEF SequenceInv
<1> QED
  BY <1>1, <1>2, <1>3, PTL DEF ConfigSpec

-----------------------------------------------------------------------------
\* CallsListed speaks of one union; the steps are about one call at a time.
\* What is on the list during a vpn_connect has been reported during it.
KnownTo(c) == \/ c \in active \/ c \in given \/ c \in risked
              \/ \E p \in Caller : c \in own[p]
ListedInv ==
  /\ own \in [Caller -> SUBSET Call]
  /\ \A c \in live : KnownTo(c)
  /\ connect # "idle" => active \subseteq risked

(* A list of calls that moves from a start to the list, or to given, or     *)
(* from the list to given, keeps the calls known; the hand-over forgets     *)
(* what was reported since the connect took the list, and no more.          *)
LEMMA CallStepKeeps ==
  ASSUME ListedInv, [CallNext]_callVars
  PROVE  ListedInv'
<1>1. CASE UNCHANGED callVars
  BY <1>1 DEF callVars, ListedInv, KnownTo
<1>2. ASSUME NEW p \in Caller, CallFails(p)
      PROVE  ListedInv'
  BY <1>2 DEF CallFails, connectVars, ListedInv, KnownTo
<1>3. ASSUME NEW p \in Starter, TokenInvalid(p) \/ DropStarter(p)
      PROVE  ListedInv'
  <2>1. /\ own' = [own EXCEPT ![p] = {}] /\ given' = given \cup own[p]
        /\ UNCHANGED <<active, connect, risked>>
    BY <1>3 DEF TokenInvalid, DropStarter, connectVars
  <2>2. live' \subseteq live
    BY <1>3 DEF TokenInvalid, DropStarter
  <2> QED
    BY <2>1, <2>2 DEF ListedInv, KnownTo, Caller
<1>4. ASSUME NEW p \in Starter, Report(p)
      PROVE  ListedInv'
  <2>1. /\ own' = [own EXCEPT ![p] = {}] /\ active' = active \cup own[p]
        /\ UNCHANGED <<live, given, connect>>
        /\ risked' = IF connect = "idle" THEN risked ELSE risked \cup own[p]
    BY <1>4 DEF Report
  <2> QED
    BY <2>1 DEF ListedInv, KnownTo, Caller
<1>5. ASSUME NEW p \in Caller, NEW c \in Call, Called(p, c)
      PROVE  ListedInv'
  <2>1. /\ own' = [own EXCEPT ![p] = @ \cup {c}] /\ live' = live \cup {c}
        /\ UNCHANGED <<active, given, connect, risked>>
    BY <1>5 DEF Called, connectVars
  <2> QED
    BY <2>1 DEF ListedInv, KnownTo, Caller
<1>6. CASE ConnectStops \/ \E s \in Stopper : StopAll(s)
  <2>1. given' = given \cup active /\ active' = {} /\ UNCHANGED <<live, own, risked>>
    BY <1>6 DEF ConnectStops, StopAll, TakeList
  <2> QED
    BY <2>1 DEF ListedInv, KnownTo, Caller
<1>7. ASSUME NEW s \in Finisher, NEW c \in Call, Finished(s, c)
      PROVE  ListedInv'
  <2>1. /\ live' = live \ {c} /\ active \ {c} \subseteq active' /\ active' \subseteq active
        /\ UNCHANGED <<own, given, connect, risked>>
    BY <1>7 DEF Finished, connectVars
  <2> QED
    BY <2>1 DEF ListedInv, KnownTo, Caller
<1>8. CASE \/ SetToken
           \/ \E p \in Starter : StartCalls(p)
           \/ \E s \in Stopper : \/ \E ids \in SUBSET active : StopCalls(s, ids)
                                 \/ DropStopper(s)
           \/ \E s \in Finisher, c \in Call : FinishFails(s, c)
  <2>1. UNCHANGED <<live, active, own, given, connect, risked>>
    BY <1>8 DEF StartCalls, StopCalls, DropStopper, FinishFails, SetToken, connectVars
  <2> QED
    BY <2>1 DEF ListedInv, KnownTo, Caller
<1>9. CASE ConnectCalls
  <2>1. UNCHANGED <<live, active, own, given, risked>> /\ connect # "idle"
    BY <1>9 DEF ConnectCalls
  <2> QED
    BY <2>1 DEF ListedInv, KnownTo, Caller
<1>10. CASE HandOver
  <2>1. /\ active' = own[Connector] /\ own' = [own EXCEPT ![Connector] = {}]
        /\ connect' = "idle" /\ UNCHANGED <<live, given, risked>>
    BY <1>10 DEF HandOver
  <2>2. active \subseteq risked
    BY <1>10 DEF HandOver, ListedInv
  <2> QED
    BY <2>1, <2>2 DEF ListedInv, KnownTo, Caller
<1>11. CASE ConnectEnds
  <2>1. /\ own' = [own EXCEPT ![Connector] = {}] /\ given' = given \cup own[Connector]
        /\ connect' = "idle" /\ risked' = risked \ active /\ active' = active
        /\ live' \subseteq live
    BY <1>11 DEF ConnectEnds
  <2> QED
    BY <2>1 DEF ListedInv, KnownTo, Caller
<1> QED
  BY <1>1, <1>2, <1>3, <1>4, <1>5, <1>6, <1>7, <1>8, <1>9, <1>10, <1>11 DEF CallNext

(* vk_calls_start, vk_calls_stop, vpn_connect and the stop-all of the       *)
(* disconnect: a call that lives is known to the start under way or is on   *)
(* the list, or a request has taken the list to finish all of it, or it was *)
(* reported between the finish_vpn of a vpn_connect and its hand-over,      *)
(* which replaces the list.                                                 *)
THEOREM CallsSafe == CallSpec => []CallsListed
<1>1. CallInit => ListedInv
  BY DEF CallInit, ListedInv
<1>2. ListedInv /\ [CallNext]_callVars => ListedInv'
  BY CallStepKeeps
<1>3. ListedInv => CallsListed
  BY DEF ListedInv, KnownTo, CallsListed
<1> QED
  BY <1>1, <1>2, <1>3, PTL DEF CallSpec

-----------------------------------------------------------------------------
\* A core runs exactly while its session is watched, and all that is on its way to
\* logs.log, or there, is from it.
SourceInv ==
  /\ session \in 0..MaxSession
  /\ pc \in {"none", "spawn", "watch", "read", "ready"}
  /\ pipe \in Seq(Line) /\ coreLog \in Seq(Line)
  /\ core = IF Watching THEN session ELSE 0
  /\ ~Watching => pipe = <<>>
  /\ \A i \in DOMAIN pipe : pipe[i].from = session
  /\ FreshReadiness

\* Beyond the lines that were there at the connect, all are of the session.
DrainInv ==
  /\ session \in 0..MaxSession /\ before \in Nat
  /\ pc # "none" => session > 0
  /\ logs \in Seq(1..MaxSession)
  /\ pc # "none" => \A i \in DOMAIN logs : i > before => logs[i] = session
  /\ EarlierLinesGone

(* What is left of a sequence without its first n elements.                *)
LEMMA Suffix ==
  ASSUME NEW S, NEW s \in Seq(S), NEW n \in 0..Len(s)
  PROVE  /\ SubSeq(s, n + 1, Len(s)) \in Seq(S)
         /\ Len(SubSeq(s, n + 1, Len(s))) = Len(s) - n
         /\ \A i \in 1..Len(SubSeq(s, n + 1, Len(s))) :
              SubSeq(s, n + 1, Len(s))[i] = s[n + i]
OBVIOUS

(* A task that appends to the log, drains it or empties it.                *)
LEMMA LogStepKeeps ==
  ASSUME DrainInv, [LogNext]_logVars
  PROVE  DrainInv'
<1> USE DEF DrainInv, EarlierLinesGone, Watching
<1>1. CASE UNCHANGED logVars
  BY <1>1 DEF logVars
<1>2. CASE Connect
  <2>1. /\ before' = Len(logs) /\ logs' = Append(logs, session') /\ pc' = "spawn"
        /\ session' = session + 1 /\ session' \in 1..MaxSession
    BY <1>2, BoundsAssumption DEF Connect
  <2>2. /\ logs' \in Seq(1..MaxSession)
        /\ \A i \in DOMAIN logs' : i > before' => logs'[i] = session'
    BY <2>1
  <2> QED
    BY <2>1, <2>2
<1>3. CASE Log
  <2>1. logs' = Append(logs, session) /\ UNCHANGED <<session, pc, before, cleared>>
    BY <1>3 DEF Log
  <2>2. session \in 1..MaxSession
    BY <1>3, BoundsAssumption DEF Log
  <2>3. logs' \in Seq(1..MaxSession)
    BY <2>1, <2>2
  <2>4. \A i \in DOMAIN logs' :
          (i \in DOMAIN logs /\ logs'[i] = logs[i]) \/ logs'[i] = session
    BY <2>1, <2>2
  <2> QED
    BY <2>1, <2>3, <2>4
<1>4. CASE Read
  <2>1. pc = "read" /\ pc' \in {"ready", "watch"} /\ UNCHANGED <<session, before>>
    BY <1>4 DEF Read
  <2>2. session \in 1..MaxSession
    BY <2>1, BoundsAssumption
  <2>3. CASE cleared' = cleared /\ logs' = logs
    BY <2>1, <2>3
  <2>4. CASE cleared /\ logs' = logs
    BY <2>1, <2>4
  <2>5. CASE logs' = Drained
    <3> DEFINE count == Lesser(before, Len(logs))
               rest  == SubSeq(logs, count + 1, Len(logs))
    <3>1. count \in 0..Len(logs) /\ (count = before \/ count = Len(logs))
      BY DEF Lesser
    <3>2. /\ rest \in Seq(1..MaxSession) /\ Len(rest) = Len(logs) - count
          /\ \A i \in 1..Len(rest) : rest[i] = logs[count + i]
      BY <3>1, Suffix
    <3>3. \A i \in 1..Len(rest) : rest[i] = session
      BY <2>1, <3>1, <3>2
    <3> HIDE DEF rest
    <3>4. logs' = rest \/ logs' = Append(rest, session)
      BY <2>5 DEF Drained, rest
    <3>5. CASE logs' = rest
      BY <2>1, <3>2, <3>3, <3>5
    <3>6. CASE logs' = Append(rest, session)
      <4>1. /\ logs' \in Seq(1..MaxSession) /\ Len(logs') = Len(rest) + 1
            /\ \A i \in 1..Len(logs') : logs'[i] = IF i = Len(logs') THEN session ELSE rest[i]
        BY <2>2, <3>2, <3>6
      <4> QED
        BY <2>1, <3>2, <3>3, <4>1
    <3> QED
      BY <3>4, <3>5, <3>6
  <2> QED
    BY <1>4, <2>3, <2>4, <2>5 DEF Read
<1>5. CASE ClearLogs
  BY <1>5 DEF ClearLogs
<1>6. CASE Spawn
  BY <1>6 DEF Spawn
<1>7. CASE Finish
  BY <1>7 DEF Finish
<1>8. CASE Meta
  BY <1>8 DEF Meta
<1>9. CASE CoreWrites \/ AppendLine \/ ClearFile
  BY <1>9 DEF CoreWrites, AppendLine, ClearFile
<1> QED
  BY <1>1, <1>2, <1>3, <1>4, <1>5, <1>6, <1>7, <1>8, <1>9 DEF LogNext

(* What the core prints reaches logs.log through its own reader tasks.     *)
LEMMA SourceStepKeeps ==
  ASSUME SourceInv, [LogNext]_logVars
  PROVE  SourceInv'
<1> USE DEF SourceInv, FreshReadiness, Watching
<1>1. CASE UNCHANGED logVars
  BY <1>1 DEF logVars
<1>2. CASE Connect
  BY <1>2, BoundsAssumption DEF Connect
<1>3. CASE Spawn
  BY <1>3 DEF Spawn
<1>4. CASE Finish
  BY <1>4 DEF Finish
<1>5. CASE CoreWrites
  <2>1. PICK a \in BOOLEAN : pipe' = Append(pipe, [from |-> core, active |-> a])
    BY <1>5 DEF CoreWrites
  <2>2. Watching /\ core = session /\ session \in 1..MaxSession
    BY <1>5, BoundsAssumption DEF CoreWrites
  <2>3. [from |-> core, active |-> a] \in Line
    BY <2>2 DEF Line
  <2>4. UNCHANGED <<session, pc, core, coreLog>>
    BY <1>5 DEF CoreWrites
  <2> DEFINE line == [from |-> core, active |-> a]
  <2>5. line.from = session
    BY <2>2
  <2> HIDE DEF line
  <2>6. pipe' \in Seq(Line) /\ \A i \in DOMAIN pipe' : pipe'[i].from = session
    BY <2>1, <2>3, <2>5 DEF line
  <2> QED
    BY <2>2, <2>4, <2>6
<1>6. CASE AppendLine
  BY <1>6 DEF AppendLine
<1>7. CASE Meta
  BY <1>7 DEF Meta
<1>8. CASE Read
  BY <1>8 DEF Read
<1>9. CASE ClearFile
  BY <1>9 DEF ClearFile
<1>10. CASE Log \/ ClearLogs
  BY <1>10 DEF Log, ClearLogs
<1> QED
  BY <1>1, <1>2, <1>3, <1>4, <1>5, <1>6, <1>7, <1>8, <1>9, <1>10 DEF LogNext

(* The watchdog of vpn_connect and logs_clear: once the new core has       *)
(* proved alive the log holds no line of an earlier session, also when it  *)
(* was emptied between the measuring and the draining.                     *)
THEOREM LinesGone == LogSpec => []EarlierLinesGone
<1>1. LogInit => DrainInv
  BY BoundsAssumption DEF LogInit, DrainInv, EarlierLinesGone
<1>2. DrainInv /\ [LogNext]_logVars => DrainInv'
  BY LogStepKeeps
<1>3. DrainInv => EarlierLinesGone
  BY DEF DrainInv
<1> QED
  BY <1>1, <1>2, <1>3, PTL DEF LogSpec

(* logs.log and its reader tasks: every line a watchdog decides on was     *)
(* printed by the core of its own session, after any number of reconnects. *)
THEOREM ReadinessFresh == LogSpec => []FreshReadiness
<1>1. LogInit => SourceInv
  BY BoundsAssumption DEF LogInit, SourceInv, FreshReadiness, Watching
<1>2. SourceInv /\ [LogNext]_logVars => SourceInv'
  BY SourceStepKeeps
<1>3. SourceInv => FreshReadiness
  BY DEF SourceInv
<1> QED
  BY <1>1, <1>2, <1>3, PTL DEF LogSpec

-----------------------------------------------------------------------------
Writing == {"id_write", "truncate", "fill"}
Serving == {"idle", "take_id", "set", "snapshot", "truncate", "fill", "answer",
            "id_truncate", "id_fill", "id_set", "reload"}

\* The handlers wait for the start.
StepInv ==
  /\ step \in [Actor -> Serving \cup {"boot", "identify", "id_write", "up"}]
  /\ \A h \in Handler : step[h] \in Serving /\ (~Up => step[h] = "idle")
  /\ step[Start] \in Writing \cup {"boot", "identify", "up"}

\* Settings with one of the first n identities, or none.
Known(n) == [value : Value, id : 0..n]

\* No identity is above the newest one.
IdInv ==
  /\ lastId \in 1..MaxId
  /\ mem \in Known(lastId) /\ file \in Known(lastId) \cup {Torn} /\ idFile \in 0..lastId
  /\ copy \in [Actor -> Known(lastId)]
  /\ allowed \subseteq 1..lastId /\ mixed \in BOOLEAN

\* What the start has read, chosen and written.
BootInv ==
  /\ step[Start] = "identify" => copy[Start] = Parsed(file)
  /\ step[Start] \in Writing => copy[Start].id # NoId
  /\ step[Start] \in {"truncate", "fill"} => idFile = copy[Start].id

\* Either file alone leads to an identity the device may have.
OnDisk == idFile \in {NoId} \cup allowed /\ (file # Torn => file.id \in allowed)

\* One identity, known to memory and to every form that is being saved.
Settled ==
  /\ allowed = {mem.id}
  /\ \A h \in Handler :
       /\ step[h] \notin {"id_truncate", "id_fill", "id_set"}
       /\ step[h] \in {"set", "truncate", "fill", "answer", "reload"} => copy[h].id = mem.id

\* Two identities, and one handler that moves the device from one to the other.
Regenerating(h) ==
  /\ \A g \in Handler \ {h} : step[g] = "idle"
  /\ mem.id \in allowed /\ \A id \in 1..MaxId : allowed # {id}
  /\ \/ /\ step[h] \in {"id_truncate", "id_fill", "id_set"}
        /\ copy[h].id # mem.id /\ allowed = {mem.id, copy[h].id}
        /\ file # Torn => file.id = mem.id
        /\ IF step[h] = "id_set" THEN idFile = copy[h].id ELSE idFile \in {NoId, mem.id}
     \/ step[h] \in {"snapshot", "truncate", "fill", "answer"} /\ idFile = mem.id
        /\ (step[h] # "snapshot" => copy[h].id = mem.id)
        /\ (step[h] = "answer" /\ file # Torn => file.id = mem.id)

IdentityInv ==
  ~mixed =>
    /\ OnDisk
    /\ step[Start] \in {"boot", "identify"} => file # Torn \/ idFile # NoId
    /\ step[Start] \in Writing => copy[Start].id \in allowed
    /\ Up => Settled \/ \E h \in Handler : Regenerating(h)

(* What the records of the settings have for an identity, the parsed and   *)
(* the normalized ones included.                                           *)
LEMMA Records ==
  ASSUME NEW n \in 1..MaxId
  PROVE  /\ Default \in Known(n) /\ Default.id = NoId /\ Torn \notin Known(n)
         /\ \A s \in Known(n) : s.id \in 0..n
         /\ \A s \in Known(n), id \in 0..n :
              [s EXCEPT !.id = id] \in Known(n) /\ [s EXCEPT !.id = id].id = id
         /\ \A v \in Value, id \in 0..n : [value |-> Normalized(v), id |-> id] \in Known(n)
         /\ \A f \in Known(n) \cup {Torn} :
              /\ Parsed(f) \in Known(n)
              /\ Parsed(f).id = IF f = Torn THEN NoId ELSE f.id
<1>1. /\ Default \in Known(n) /\ Default.id = NoId
      /\ \A s \in Known(n) : s.id \in 0..n
      /\ \A s \in Known(n), id \in 0..n :
           [s EXCEPT !.id = id] \in Known(n) /\ [s EXCEPT !.id = id].id = id
  BY DEF Default, Known, NoId, Value
<1>2. Torn.id = MaxId + 1
  BY DEF Torn
<1>3. Torn \notin Known(n)
  BY <1>1, <1>2, SettingsAssumption
<1>4. \A v \in Value : Normalized(v) \in Value
  BY DEF Value, Normalized
<1>5. \A v \in Value, id \in 0..n : [value |-> Normalized(v), id |-> id] \in Known(n)
  BY <1>4 DEF Known
<1>6. ASSUME NEW f \in Known(n), f # Torn
      PROVE  Parsed(f) \in Known(n) /\ Parsed(f).id = f.id
  BY <1>3, <1>4, <1>6 DEF Parsed, Known
<1>7. Parsed(Torn) = Default
  BY DEF Parsed
<1> QED
  BY <1>1, <1>3, <1>5, <1>6, <1>7

(* A newer identity makes no known one unknown.                            *)
LEMMA MoreKnown ==
  ASSUME NEW n \in Nat, NEW m \in Nat, n <= m
  PROVE  Known(n) \subseteq Known(m) /\ 0..n \subseteq 0..m /\ 1..n \subseteq 1..m
BY DEF Known

(* The start serves the handlers, and a kill ends them with it.             *)
LEMMA SettingsStepKeeps ==
  ASSUME StepInv, [SettingsNext]_settingsVars
  PROVE  StepInv'
<1> USE SettingsAssumption DEF StepInv, Actor, Start, Up, Goto, Begins, Writing, Serving
<1>0. CASE UNCHANGED settingsVars
  BY <1>0 DEF settingsVars, disk, ghosts, Up, StepInv
<1>1. CASE Boot
  BY <1>1 DEF Boot
<1>2. CASE EnsureDeviceId
  BY <1>2 DEF EnsureDeviceId, Identify
<1>3. CASE WriteDeviceId
  BY <1>3 DEF WriteDeviceId
<1>4. CASE StartTruncates
  BY <1>4 DEF StartTruncates
<1>5. CASE Started
  BY <1>5 DEF Started
<1>6. CASE Kill
  BY <1>6 DEF Kill
<1>7. ASSUME NEW h \in Handler, Form(h)
      PROVE  StepInv'
  BY <1>7 DEF Form
<1>8. ASSUME NEW h \in Handler, PatchOther(h)
      PROVE  StepInv'
  BY <1>8 DEF PatchOther
<1>9. ASSUME NEW h \in Handler, TakeId(h)
      PROVE  StepInv'
  BY <1>9 DEF TakeId
<1>10. ASSUME NEW h \in Handler, SetSettings(h)
      PROVE  StepInv'
  BY <1>10 DEF SetSettings
<1>11. ASSUME NEW h \in Handler, Snapshot(h)
      PROVE  StepInv'
  BY <1>11 DEF Snapshot
<1>12. ASSUME NEW h \in Handler, Truncate(h)
      PROVE  StepInv'
  BY <1>12 DEF Truncate
<1>13. ASSUME NEW h \in Handler, Fill(h)
      PROVE  StepInv'
  BY <1>13 DEF Fill
<1>14. ASSUME NEW h \in Handler, Answer(h)
      PROVE  StepInv'
  BY <1>14 DEF Answer
<1>15. ASSUME NEW h \in Handler, SaveFails(h)
      PROVE  StepInv'
  BY <1>15 DEF SaveFails
<1>16. ASSUME NEW h \in Handler, Regenerate(h)
      PROVE  StepInv'
  BY <1>16 DEF Regenerate
<1>17. ASSUME NEW h \in Handler, TruncateId(h)
      PROVE  StepInv'
  BY <1>17 DEF TruncateId
<1>18. ASSUME NEW h \in Handler, FillId(h)
      PROVE  StepInv'
  BY <1>18 DEF FillId
<1>19. ASSUME NEW h \in Handler, IdWriteFails(h)
      PROVE  StepInv'
  BY <1>19 DEF IdWriteFails
<1>20. ASSUME NEW h \in Handler, SetId(h)
      PROVE  StepInv'
  BY <1>20 DEF SetId
<1>21. ASSUME NEW h \in Handler, Reload(h)
      PROVE  StepInv'
  BY <1>21 DEF Reload
<1>22. ASSUME NEW h \in Handler, Reloaded(h)
      PROVE  StepInv'
  BY <1>22 DEF Reloaded
<1> QED
  BY <1>0, <1>1, <1>2, <1>3, <1>4, <1>5, <1>6, <1>7, <1>8, <1>9, <1>10, <1>11, <1>12, <1>13,
      <1>14, <1>15, <1>16, <1>17, <1>18, <1>19, <1>20, <1>21, <1>22 DEF SettingsNext

(* Every identity is one that has been generated: a copy of a known one, or *)
(* the next number.                                                         *)
LEMMA IdKeeps ==
  ASSUME StepInv, IdInv, BootInv, [SettingsNext]_settingsVars
  PROVE  IdInv'
<1> USE SettingsAssumption DEF IdInv, Actor, Keep, Begins, disk, ghosts
<1>a. lastId \in 1..MaxId
  OBVIOUS
<1>b. Start \in Actor
  BY DEF Actor
<1> USE <1>a, <1>b, Records
<1>0. CASE UNCHANGED settingsVars
  BY <1>0 DEF settingsVars, disk, ghosts, Up, IdInv
<1>1. CASE Boot
  BY <1>1 DEF Boot
<1>2. CASE EnsureDeviceId
  <2>1. PICK id \in 1..MaxId :
          /\ IF idFile # NoId THEN id = idFile /\ UNCHANGED lastId
             ELSE IF copy[Start].id # NoId THEN id = copy[Start].id /\ UNCHANGED lastId
             ELSE Fresh /\ id = lastId'
          /\ copy' = [copy EXCEPT ![Start] = [copy[Start] EXCEPT !.id = id]]
    BY <1>2 DEF EnsureDeviceId, Identify
  <2>2. idFile' = NoId /\ mixed' \in BOOLEAN /\ UNCHANGED <<mem, file, allowed>>
    BY <1>2 DEF EnsureDeviceId, Identify
  <2>3. lastId' \in 1..MaxId /\ lastId <= lastId' /\ id \in 0..lastId'
    BY <2>1 DEF Fresh, NoId
  <2>4. /\ Known(lastId) \subseteq Known(lastId') /\ 0..lastId \subseteq 0..lastId'
        /\ 1..lastId \subseteq 1..lastId'
    BY <2>3, MoreKnown
  <2>5. [copy[Start] EXCEPT !.id = id] \in Known(lastId')
    BY <2>3, <2>4
  <2> QED
    BY <2>1, <2>2, <2>3, <2>4, <2>5 DEF NoId
<1>3. CASE WriteDeviceId
  BY <1>3 DEF WriteDeviceId
<1>4. CASE StartTruncates
  BY <1>4 DEF StartTruncates
<1>5. CASE Started
  <2>1. copy[Start].id \in 1..lastId
    BY <1>5 DEF Started, BootInv, Writing, NoId
  <2> QED
    BY <1>5, <2>1 DEF Started
<1>6. CASE Kill
  BY <1>6 DEF Kill
<1>7. ASSUME NEW h \in Handler, Form(h)
      PROVE  IdInv'
  BY <1>7 DEF Form
<1>8. ASSUME NEW h \in Handler, PatchOther(h)
      PROVE  IdInv'
  BY <1>8 DEF PatchOther
<1>9. ASSUME NEW h \in Handler, TakeId(h)
      PROVE  IdInv'
  BY <1>9 DEF TakeId
<1>10. ASSUME NEW h \in Handler, SetSettings(h)
      PROVE  IdInv'
  BY <1>10 DEF SetSettings
<1>11. ASSUME NEW h \in Handler, Snapshot(h)
      PROVE  IdInv'
  BY <1>11 DEF Snapshot
<1>12. ASSUME NEW h \in Handler, Truncate(h)
      PROVE  IdInv'
  BY <1>12 DEF Truncate
<1>13. ASSUME NEW h \in Handler, Fill(h)
      PROVE  IdInv'
  BY <1>13 DEF Fill
<1>14. ASSUME NEW h \in Handler, Answer(h)
      PROVE  IdInv'
  BY <1>14 DEF Answer
<1>15. ASSUME NEW h \in Handler, SaveFails(h)
      PROVE  IdInv'
  BY <1>15 DEF SaveFails
<1>16. ASSUME NEW h \in Handler, Regenerate(h)
      PROVE  IdInv'
  <2>1. /\ lastId' = lastId + 1 /\ lastId < MaxId /\ allowed' = allowed \cup {lastId'}
        /\ copy' = [copy EXCEPT ![h] = [Default EXCEPT !.id = lastId']]
        /\ mixed' \in BOOLEAN /\ UNCHANGED <<mem, file, idFile>>
    BY <1>16 DEF Regenerate, Fresh
  <2>2. lastId' \in 1..MaxId /\ lastId <= lastId'
    BY <2>1
  <2>3. /\ Known(lastId) \subseteq Known(lastId') /\ 0..lastId \subseteq 0..lastId'
        /\ 1..lastId \subseteq 1..lastId'
    BY <2>2, MoreKnown
  <2>4. [Default EXCEPT !.id = lastId'] \in Known(lastId')
    BY <2>2
  <2> QED
    BY <2>1, <2>2, <2>3, <2>4
<1>17. ASSUME NEW h \in Handler, TruncateId(h)
      PROVE  IdInv'
  BY <1>17 DEF TruncateId
<1>18. ASSUME NEW h \in Handler, FillId(h)
      PROVE  IdInv'
  BY <1>18 DEF FillId
<1>19. ASSUME NEW h \in Handler, IdWriteFails(h)
      PROVE  IdInv'
  BY <1>19 DEF IdWriteFails
<1>20. ASSUME NEW h \in Handler, SetId(h)
      PROVE  IdInv'
  BY <1>20 DEF SetId
<1>21. ASSUME NEW h \in Handler, Reload(h)
      PROVE  IdInv'
  BY <1>21 DEF Reload
<1>22. ASSUME NEW h \in Handler, Reloaded(h)
      PROVE  IdInv'
  BY <1>22 DEF Reloaded
<1> QED
  BY <1>0, <1>1, <1>2, <1>3, <1>4, <1>5, <1>6, <1>7, <1>8, <1>9, <1>10, <1>11, <1>12, <1>13,
      <1>14, <1>15, <1>16, <1>17, <1>18, <1>19, <1>20, <1>21, <1>22 DEF SettingsNext

(* A start leaves no identity out, and writes device_id.json first.         *)
LEMMA BootKeeps ==
  ASSUME StepInv, IdInv, BootInv, [SettingsNext]_settingsVars
  PROVE  BootInv'
<1> USE SettingsAssumption DEF IdInv, StepInv, BootInv, Actor, Start, Up, NoId, Goto, Keep,
    Begins, Writing, Serving, disk, ghosts
<1>0. CASE UNCHANGED settingsVars
  BY <1>0 DEF settingsVars, disk, ghosts, Up, BootInv
<1>1. CASE Boot
  BY <1>1 DEF Boot
<1>2. CASE EnsureDeviceId
  BY <1>2 DEF EnsureDeviceId, Identify
<1>3. CASE WriteDeviceId
  BY <1>3 DEF WriteDeviceId
<1>4. CASE StartTruncates
  BY <1>4 DEF StartTruncates
<1>5. CASE Started
  BY <1>5 DEF Started
<1>6. CASE Kill
  BY <1>6 DEF Kill
<1>7. ASSUME NEW h \in Handler, Form(h)
      PROVE  BootInv'
  BY <1>7 DEF Form
<1>8. ASSUME NEW h \in Handler, PatchOther(h)
      PROVE  BootInv'
  BY <1>8 DEF PatchOther
<1>9. ASSUME NEW h \in Handler, TakeId(h)
      PROVE  BootInv'
  BY <1>9 DEF TakeId
<1>10. ASSUME NEW h \in Handler, SetSettings(h)
      PROVE  BootInv'
  BY <1>10 DEF SetSettings
<1>11. ASSUME NEW h \in Handler, Snapshot(h)
      PROVE  BootInv'
  BY <1>11 DEF Snapshot
<1>12. ASSUME NEW h \in Handler, Truncate(h)
      PROVE  BootInv'
  BY <1>12 DEF Truncate
<1>13. ASSUME NEW h \in Handler, Fill(h)
      PROVE  BootInv'
  BY <1>13 DEF Fill
<1>14. ASSUME NEW h \in Handler, Answer(h)
      PROVE  BootInv'
  BY <1>14 DEF Answer
<1>15. ASSUME NEW h \in Handler, SaveFails(h)
      PROVE  BootInv'
  BY <1>15 DEF SaveFails
<1>16. ASSUME NEW h \in Handler, Regenerate(h)
      PROVE  BootInv'
  BY <1>16 DEF Regenerate
<1>17. ASSUME NEW h \in Handler, TruncateId(h)
      PROVE  BootInv'
  BY <1>17 DEF TruncateId
<1>18. ASSUME NEW h \in Handler, FillId(h)
      PROVE  BootInv'
  BY <1>18 DEF FillId
<1>19. ASSUME NEW h \in Handler, IdWriteFails(h)
      PROVE  BootInv'
  BY <1>19 DEF IdWriteFails
<1>20. ASSUME NEW h \in Handler, SetId(h)
      PROVE  BootInv'
  BY <1>20 DEF SetId
<1>21. ASSUME NEW h \in Handler, Reload(h)
      PROVE  BootInv'
  BY <1>21 DEF Reload
<1>22. ASSUME NEW h \in Handler, Reloaded(h)
      PROVE  BootInv'
  BY <1>22 DEF Reloaded
<1> QED
  BY <1>0, <1>1, <1>2, <1>3, <1>4, <1>5, <1>6, <1>7, <1>8, <1>9, <1>10, <1>11, <1>12, <1>13,
      <1>14, <1>15, <1>16, <1>17, <1>18, <1>19, <1>20, <1>21, <1>22 DEF SettingsNext

(* What a step may do to the identity. A form that is saved beside others   *)
(* carries the only one there is; a regeneration that is not alone is mixed;*)
(* and the start finds one file or the other whole.                         *)
LEMMA IdentityKeeps ==
  ASSUME StepInv, IdInv, BootInv, IdentityInv, [SettingsNext]_settingsVars
  PROVE  IdentityInv'
<1> USE DEF Actor, Start, Up, NoId, Goto, Keep, Begins, Busy, StepInv, Writing, Serving,
           disk, ghosts
<1>a. /\ copy \in [Actor -> Known(lastId)]
      /\ step \in [Actor -> Serving \cup {"boot", "identify", "id_write", "up"}]
      /\ allowed \subseteq 1..MaxId /\ Start \notin Handler /\ mixed \in BOOLEAN
  BY SettingsAssumption DEF IdInv, StepInv, Start
<1>0. CASE UNCHANGED settingsVars
  BY <1>0 DEF settingsVars, disk, ghosts, Up, IdentityInv, OnDisk, Settled, Regenerating
<1>1. CASE Boot
  BY <1>1, <1>a DEF Boot, IdentityInv, OnDisk, Settled, Regenerating
<1>2. CASE EnsureDeviceId
  <2>1. PICK id \in 1..MaxId :
          /\ IF idFile # NoId THEN id = idFile /\ UNCHANGED lastId
             ELSE IF copy[Start].id # NoId THEN id = copy[Start].id /\ UNCHANGED lastId
             ELSE Fresh /\ id = lastId'
          /\ copy' = [copy EXCEPT ![Start] = [copy[Start] EXCEPT !.id = id]]
    BY <1>2 DEF EnsureDeviceId, Identify, Keep
  <2>2. /\ step[Start] = "identify" /\ step' = [step EXCEPT ![Start] = "id_write"]
        /\ idFile' = NoId /\ UNCHANGED <<mem, file, allowed, mixed>>
    BY <1>2 DEF EnsureDeviceId, Identify, Goto
  <2> SUFFICES ASSUME ~mixed'
               PROVE  IdentityInv'
    BY DEF IdentityInv
  <2>3. /\ ~mixed /\ OnDisk /\ (file # Torn \/ idFile # NoId)
        /\ copy[Start] \in Known(lastId) /\ copy[Start] = Parsed(file)
    BY <1>a, <2>2 DEF IdentityInv, BootInv, Actor
  <2>4. ASSUME idFile = NoId
        PROVE  /\ copy[Start].id = file.id /\ file.id \in allowed /\ file.id # NoId
    <3>1. file # Torn /\ file.id \in 1..MaxId
      BY <1>a, <2>3, <2>4 DEF OnDisk
    <3> QED
      BY <3>1, <2>3, Records DEF IdInv, OnDisk
  <2>5. id \in allowed
    BY <2>1, <2>3, <2>4 DEF OnDisk
  <2>6. copy'[Start].id = id
    BY <1>a, <2>1, <2>3 DEF Actor, Known
  <2>7. step'[Start] = "id_write"
    BY <1>a, <2>2 DEF Actor
  <2> QED
    BY <2>2, <2>3, <2>4, <2>5, <2>6, <2>7 DEF IdentityInv, OnDisk, Up
<1>3. CASE WriteDeviceId
  BY <1>3, <1>a DEF WriteDeviceId, IdentityInv, OnDisk, Settled, Regenerating
<1>4. CASE StartTruncates
  BY <1>4, <1>a DEF StartTruncates, IdentityInv, OnDisk, Settled, Regenerating
<1>5. CASE Started
  <2>1. /\ step[Start] = "fill" /\ step' = [step EXCEPT ![Start] = "up"]
        /\ file' = copy[Start] /\ mem' = copy[Start] /\ UNCHANGED idFile /\ ~mixed'
        /\ allowed' = IF mixed THEN {copy[Start].id} ELSE allowed \cap {copy[Start].id}
    BY <1>5 DEF Started, Goto
  <2>2. idFile = copy[Start].id
    BY <2>1 DEF BootInv
  <2>3. allowed' = {copy[Start].id}
    BY <2>1 DEF IdentityInv, Writing
  <2>4. \A h \in Handler : step'[h] = "idle"
    BY <1>a, <2>1 DEF StepInv, Up, Actor
  <2>5. step'[Start] = "up"
    BY <1>a, <2>1 DEF Actor
  <2>6. OnDisk' /\ Settled'
    BY <2>1, <2>2, <2>3, <2>4 DEF OnDisk, Settled
  <2> QED
    BY <2>5, <2>6 DEF IdentityInv, Writing
<1>6. CASE Kill
  BY <1>6, <1>a DEF Kill, IdentityInv, OnDisk, Settled, Regenerating
<1>7. ASSUME NEW h \in Handler, Form(h)
      PROVE  IdentityInv'
  <2> SUFFICES ASSUME ~mixed'
               PROVE  IdentityInv'
    BY DEF IdentityInv
  <2>1. /\ UNCHANGED <<mem, file, idFile, allowed>>
        /\ \A a \in Actor : a # h => copy'[a] = copy[a]
    BY <1>7, <1>a DEF Form, Keep, disk
  <2>2. /\ Up /\ ~mixed /\ (Busy # {} => allowed = {mem.id})
        /\ \A a \in Actor : step'[a] = IF a = h THEN "take_id" ELSE step[a]
    BY <1>7, <1>a DEF Form, Begins, Goto, Actor
  <2>3. Settled
    BY <1>a, <2>2 DEF IdentityInv, Regenerating, Busy
  <2>4. Settled'
    BY <2>1, <2>2, <2>3 DEF Settled, Actor
  <2>5. OnDisk' /\ Up'
    BY <1>a, <2>1, <2>2 DEF IdentityInv, OnDisk, Up, Actor
  <2> QED
    BY <2>4, <2>5 DEF IdentityInv, Up, Writing
<1>8. ASSUME NEW h \in Handler, PatchOther(h)
      PROVE  IdentityInv'
  BY <1>8, <1>a DEF PatchOther, IdentityInv, OnDisk, Settled, Regenerating
<1>9. ASSUME NEW h \in Handler, TakeId(h)
      PROVE  IdentityInv'
  BY <1>9, <1>a DEF TakeId, IdentityInv, OnDisk, Settled, Regenerating
<1>10. ASSUME NEW h \in Handler, SetSettings(h)
      PROVE  IdentityInv'
  BY <1>10, <1>a DEF SetSettings, IdentityInv, OnDisk, Settled, Regenerating
<1>11. ASSUME NEW h \in Handler, Snapshot(h)
      PROVE  IdentityInv'
  BY <1>11, <1>a DEF Snapshot, IdentityInv, OnDisk, Settled, Regenerating
<1>12. ASSUME NEW h \in Handler, Truncate(h)
      PROVE  IdentityInv'
  BY <1>12, <1>a DEF Truncate, IdentityInv, OnDisk, Settled, Regenerating
<1>13. ASSUME NEW h \in Handler, Fill(h)
      PROVE  IdentityInv'
  BY <1>13, <1>a DEF Fill, IdentityInv, OnDisk, Settled, Regenerating
<1>14. ASSUME NEW h \in Handler, Answer(h)
      PROVE  IdentityInv'
  BY <1>14, <1>a DEF Answer, IdentityInv, OnDisk, Settled, Regenerating
<1>15. ASSUME NEW h \in Handler, SaveFails(h)
      PROVE  IdentityInv'
  <2> SUFFICES ASSUME ~mixed'
               PROVE  IdentityInv'
    BY DEF IdentityInv
  <2>1. /\ ~mixed /\ allowed = {mem.id} /\ step[h] \in {"truncate", "fill"}
        /\ step' = [step EXCEPT ![h] = "idle"] /\ copy' = [copy EXCEPT ![h] = Default]
        /\ UNCHANGED <<mem, file, idFile, allowed>>
    BY <1>15, <1>a DEF SaveFails
  <2>2. Up /\ mem.id \in 1..MaxId
    BY <1>a, <2>1
  <2>3. Settled
    BY <2>1, <2>2 DEF IdentityInv, Regenerating
  <2>4. \A a \in Actor : step'[a] = IF a = h THEN "idle" ELSE step[a]
    BY <1>a, <2>1
  <2>5. \A a \in Actor : a # h => copy'[a] = copy[a]
    BY <1>a, <2>1
  <2>6. Settled'
    BY <2>1, <2>3, <2>4, <2>5 DEF Settled
  <2> QED
    BY <1>a, <2>1, <2>2, <2>4, <2>6 DEF IdentityInv, OnDisk
<1>16. ASSUME NEW h \in Handler, Regenerate(h)
      PROVE  IdentityInv'
  <2> SUFFICES ASSUME ~mixed'
               PROVE  IdentityInv'
    BY DEF IdentityInv
  <2>1. /\ Up /\ step[h] = "idle" /\ step' = [step EXCEPT ![h] = "id_truncate"]
        /\ ~mixed /\ Busy = {} /\ lastId' = lastId + 1 /\ lastId < MaxId
        /\ copy' = [copy EXCEPT ![h] = [Default EXCEPT !.id = lastId']]
        /\ allowed' = allowed \cup {lastId'} /\ UNCHANGED <<mem, file, idFile>>
    BY <1>16, <1>a DEF Regenerate, Begins, Fresh, Goto, Keep, disk
  <2>2. Settled
    BY <2>1 DEF IdentityInv, Regenerating, Busy
  <2>3. /\ allowed = {mem.id} /\ mem.id <= lastId /\ lastId \in 1..MaxId /\ mem.id \in 1..MaxId
    BY <1>a, <2>2, Records DEF Settled, IdInv
  <2>4. allowed' = {mem.id, lastId'} /\ mem.id # lastId' /\ \A id \in 1..MaxId : allowed' # {id}
    BY <2>1, <2>3
  <2>5. copy'[h].id = lastId' /\ \A a \in Actor : a # h => copy'[a] = copy[a]
    BY <1>a, <2>1 DEF Default, Actor
  <2>6. \A a \in Actor : step'[a] = IF a = h THEN "id_truncate" ELSE step[a]
    BY <1>a, <2>1 DEF Actor
  <2>7. (file # Torn => file.id = mem.id) /\ idFile \in {NoId, mem.id}
    BY <2>1, <2>3 DEF IdentityInv, OnDisk
  <2>8. Regenerating(h)'
    BY <2>1, <2>4, <2>5, <2>6, <2>7 DEF Regenerating, Busy, Actor
  <2>9. OnDisk' /\ Up'
    BY <1>a, <2>1, <2>6 DEF OnDisk, IdentityInv, Up, Actor
  <2> QED
    BY <2>8, <2>9 DEF IdentityInv, Up, Writing
<1>17. ASSUME NEW h \in Handler, TruncateId(h)
      PROVE  IdentityInv'
  BY <1>17, <1>a DEF TruncateId, IdentityInv, OnDisk, Settled, Regenerating
<1>18. ASSUME NEW h \in Handler, FillId(h)
      PROVE  IdentityInv'
  BY <1>18, <1>a DEF FillId, IdentityInv, OnDisk, Settled, Regenerating
<1>19. ASSUME NEW h \in Handler, IdWriteFails(h)
      PROVE  IdentityInv'
  BY <1>19, <1>a DEF IdWriteFails, IdentityInv, OnDisk, Settled, Regenerating
<1>20. ASSUME NEW h \in Handler, SetId(h)
      PROVE  IdentityInv'
  BY <1>20, <1>a DEF SetId, IdentityInv, OnDisk, Settled, Regenerating
<1>21. ASSUME NEW h \in Handler, Reload(h)
      PROVE  IdentityInv'
  <2>1. /\ Begins(h, "reload") /\ UNCHANGED <<mem, file, idFile, allowed>>
        /\ copy' = [copy EXCEPT ![h] = IF file = Torn THEN mem ELSE Parsed(file)]
    BY <1>21 DEF Reload, Keep, disk
  <2>2. file # Torn => Parsed(file).id = file.id
    BY Records DEF IdInv
  <2> QED
    BY <2>1, <2>2, <1>a DEF IdentityInv, OnDisk, Settled, Regenerating
<1>22. ASSUME NEW h \in Handler, Reloaded(h)
      PROVE  IdentityInv'
  BY <1>22, <1>a DEF Reloaded, IdentityInv, OnDisk, Settled, Regenerating
<1> QED
  BY <1>0, <1>1, <1>2, <1>3, <1>4, <1>5, <1>6, <1>7, <1>8, <1>9, <1>10, <1>11, <1>12, <1>13,
      <1>14, <1>15, <1>16, <1>17, <1>18, <1>19, <1>20, <1>21, <1>22 DEF SettingsNext

(* ensure_device_id and the handlers of the settings: the device answers   *)
(* with the identity it had or with the one regenerated last, for any      *)
(* overlap of forms, any number of them, any failed write of a form or of   *)
(* device_id.json and any kill; from a regeneration that overlapped another *)
(* handler or could not save settings.json, or a kill while both files were *)
(* torn, to the end of the next start, nothing is claimed.                  *)
THEOREM IdentitySafe == SettingsSpec => []IdentityKept
<1>1. SettingsInit => StepInv /\ IdInv /\ BootInv /\ IdentityInv
  <2> SUFFICES ASSUME SettingsInit
               PROVE  StepInv /\ IdInv /\ BootInv /\ IdentityInv
    OBVIOUS
  <2> USE DEF SettingsInit
  <2>1. Start \notin Handler /\ step[Start] = "boot" /\ 1 \in 1..MaxId
    BY SettingsAssumption DEF Start, Actor
  <2>2. PICK v \in Value : file = [value |-> v, id |-> 1]
    OBVIOUS
  <2>3. file \in Known(1) /\ file.id = 1
    BY <2>2 DEF Known
  <2>4. StepInv /\ BootInv
    BY <2>1 DEF StepInv, BootInv, Actor, Up, Serving, Writing
  <2>5. IdInv
    <3>1. Default \in Known(1)
      BY <2>1, Records
    <3>2. lastId = 1 /\ mem = Default /\ copy = [a \in Actor |-> Default]
      OBVIOUS
    <3>3. idFile \in 0..1 /\ allowed \subseteq 1..1
      BY DEF NoId
    <3>4. mixed \in BOOLEAN
      OBVIOUS
    <3> HIDE DEF SettingsInit
    <3> QED
      BY <2>1, <2>3, <3>1, <3>2, <3>3, <3>4 DEF IdInv
  <2>6. file # Torn
    BY <2>1, <2>3, Records
  <2>7. IdentityInv
    BY <2>1, <2>3, <2>6 DEF IdentityInv, OnDisk, Up, Writing, NoId
  <2> QED
    BY <2>4, <2>5, <2>7
<1>2. /\ StepInv /\ IdInv /\ BootInv /\ IdentityInv /\ [SettingsNext]_settingsVars
      => StepInv' /\ IdInv' /\ BootInv' /\ IdentityInv'
  BY SettingsStepKeeps, IdKeeps, BootKeeps, IdentityKeeps
<1>3. StepInv /\ IdInv /\ BootInv /\ IdentityInv => IdentityKept
  BY DEF IdInv, IdentityInv, IdentityKept, Settled, Regenerating
<1> QED
  BY <1>1, <1>2, <1>3, PTL DEF SettingsSpec

-----------------------------------------------------------------------------
(* CoreDownload.                                                           *)

Label == {"idle", "check", "claim", "fetch", "get", "create", "write1", "write2",
          "chmod", "rename", "latest", "release", "dropped"}

\* vpn_connect takes no part in the flag and writes no LATEST; a file is open
\* while it is being written.
StageInv ==
  /\ kind \in Kind /\ released \in 1..MaxVersion /\ latest \in 0..Word
  /\ stage \in [Proc -> Label] /\ version \in [Proc -> 0..MaxVersion]
  /\ handle \in [Proc -> {"tmp", "dest", "gone", "none"}]
  /\ stage[Connection] \notin {"check", "claim", "latest", "release", "dropped"}
  /\ \A p \in Proc : handle[p] # "none" => stage[p] \in {"write1", "write2"}

\* Nobody else has the files of a download that is alone.
Alone == \A p, q \in Proc : UnderWay(p) /\ UnderWay(q) => p = q

\* How far p is: the version it has, and what <core>.tmp holds of it.
Along(p) ==
  /\ stage[p] = "get" => version[p] \in 0..released
  /\ stage[p] \in {"create", "write1", "write2", "chmod", "rename", "latest"} =>
       version[p] \in 1..released
  /\ stage[p] \in {"get", "create", "write1", "write2", "chmod", "rename", "latest"} =>
       (kind = "csqtt" => version[p] \in 1..released /\ latest <= version[p])
  /\ stage[p] \in {"write1", "write2"} => handle[p] = "tmp"
  /\ stage[p] \in {"write1", "write2", "chmod", "rename"} => tmp # Missing
  /\ stage[p] \in {"write2", "chmod", "rename"} => tmp[1] = version[p]
  /\ stage[p] \in {"chmod", "rename"} => tmp[2] = version[p]
  /\ stage[p] = "latest" /\ dest # Missing => dest[1] = version[p]

\* The installed core is complete, and LATEST is not ahead of it.
Installed ==
  /\ dest # Missing => /\ Whole(dest) /\ dest[1] \in 1..released
                       /\ (kind = "csqtt" => latest <= dest[1])
  /\ kind = "csqtt" => latest <= released

FileInv ==
  ~overlapped => /\ tmp \in Content /\ dest \in Content
                 /\ Alone /\ Installed /\ \A p \in Proc : Along(p)

(* A file that exists, and a file with one half replaced.                  *)
LEMMA Halves ==
  /\ Missing \in Content /\ Empty \in Content /\ Empty # Missing
  /\ \A f \in Content, v \in 0..MaxVersion, h \in Half : f # Missing =>
       /\ [f EXCEPT ![h] = v] \in Content /\ [f EXCEPT ![h] = v] # Missing
       /\ [f EXCEPT ![h] = v][h] = v
       /\ \A i \in Half \ {h} : [f EXCEPT ![h] = v][i] = f[i]
<1>1. Empty \in [Half -> 0..MaxVersion]
  BY CoreAssumption DEF Empty
<1>2. \A f \in [Half -> 0..MaxVersion] : f # Missing
  BY DEF Half, Missing
<1> QED
  BY <1>1, <1>2 DEF Content

(* What the handlers do to the flag, the versions and the open files keeps *)
(* their shape: the install of a connect passes the flag by.               *)
LEMMA StepKeeps ==
  ASSUME StageInv, [Next]_vars
  PROVE  StageInv'
<1> USE CoreAssumption DEF StageInv, Label, Proc, Enter, Return, Leave, world, files, Word,
           Begin, Unlink, Relinked, PinnedRelease, UnderWay
<1>0. CASE UNCHANGED vars
  BY <1>0 DEF vars
<1>1. ASSUME NEW p \in Proc, Ask(p)
      PROVE  StageInv'
  BY <1>1 DEF Ask
<1>2. ASSUME NEW p \in Proc, CheckFlag(p)
      PROVE  StageInv'
  BY <1>2 DEF CheckFlag
<1>3. ASSUME NEW p \in Proc, SetFlag(p)
      PROVE  StageInv'
  BY <1>3 DEF SetFlag
<1>4. ASSUME NEW p \in Proc, ClearFlag(p)
      PROVE  StageInv'
  BY <1>4 DEF ClearFlag
<1>5. ASSUME NEW p \in Proc, Fetched(p)
      PROVE  StageInv'
  BY <1>5 DEF Fetched
<1>6. ASSUME NEW p \in Proc, FetchFails(p)
      PROVE  StageInv'
  BY <1>6 DEF FetchFails
<1>7. ASSUME NEW p \in Proc, Received(p)
      PROVE  StageInv'
  BY <1>7 DEF Received
<1>8. ASSUME NEW p \in Proc, DownloadFails(p)
      PROVE  StageInv'
  BY <1>8 DEF DownloadFails
<1>9. ASSUME NEW p \in Proc, Create(p)
      PROVE  StageInv'
  BY <1>9 DEF Create
<1>10. ASSUME NEW p \in Proc, Write(p, 1)
      PROVE  StageInv'
  BY <1>10 DEF Write
<1>11. ASSUME NEW p \in Proc, Write(p, 2)
      PROVE  StageInv'
  BY <1>11 DEF Write
<1>12. ASSUME NEW p \in Proc, RemoveOld(p)
      PROVE  StageInv'
  BY <1>12 DEF RemoveOld
<1>13. ASSUME NEW p \in Proc, Rename(p)
      PROVE  StageInv'
  BY <1>13 DEF Rename
<1>14. ASSUME NEW p \in Proc, WriteLatest(p)
      PROVE  StageInv'
  BY <1>14 DEF WriteLatest
<1>15. ASSUME NEW p \in Proc, Drop(p)
      PROVE  StageInv'
  BY <1>15 DEF Drop
<1>16. CASE BeginConnect
  BY <1>16 DEF BeginConnect
<1>17. CASE DeleteCore
  BY <1>17 DEF DeleteCore
<1>18. CASE Publish
  BY <1>18 DEF Publish
<1>19. CASE Restart
  BY <1>19 DEF Restart
<1> QED
  BY <1>0, <1>1, <1>2, <1>3, <1>4, <1>5, <1>6, <1>7, <1>8, <1>9, <1>10, <1>11, <1>12, <1>13,
      <1>14, <1>15, <1>16, <1>17, <1>18, <1>19 DEF Next

(* A step of the download that is alone moves it on; a second one that     *)
(* begins ends the claim.                                                  *)
LEMMA FileKeeps ==
  ASSUME StageInv, FileInv, [Next]_vars
  PROVE  FileInv'
<1> USE CoreAssumption DEF world, files
<1>0. CASE UNCHANGED vars
  BY <1>0, Halves DEF vars, StageInv, FileInv, Alone, Installed, Along, Whole, Half, Label,
      Proc, UnderWay, Enter, Return, Leave, Begin, Unlink, Relinked, PinnedRelease
<1>1. ASSUME NEW p \in Proc, Ask(p)
      PROVE  FileInv'
  BY <1>1, Halves DEF Ask, StageInv, FileInv, Alone, Installed, Along, Whole, Half, Label,
      Proc, UnderWay, Enter, Return, Leave, Begin, Unlink, Relinked, PinnedRelease
<1>2. ASSUME NEW p \in Proc, CheckFlag(p)
      PROVE  FileInv'
  BY <1>2, Halves DEF CheckFlag, StageInv, FileInv, Alone, Installed, Along, Whole, Half,
      Label, Proc, UnderWay, Enter, Return, Leave, Begin, Unlink, Relinked, PinnedRelease
<1>3. ASSUME NEW p \in Proc, SetFlag(p)
      PROVE  FileInv'
  BY <1>3, Halves DEF SetFlag, StageInv, FileInv, Alone, Installed, Along, Whole, Half,
      Label, Proc, UnderWay, Enter, Return, Leave, Begin, Unlink, Relinked, PinnedRelease
<1>4. ASSUME NEW p \in Proc, ClearFlag(p)
      PROVE  FileInv'
  BY <1>4, Halves DEF ClearFlag, StageInv, FileInv, Alone, Installed, Along, Whole, Half,
      Label, Proc, UnderWay, Enter, Return, Leave, Begin, Unlink, Relinked, PinnedRelease
<1>5. ASSUME NEW p \in Proc, Fetched(p)
      PROVE  FileInv'
  BY <1>5, Halves DEF Fetched, StageInv, FileInv, Alone, Installed, Along, Whole, Half,
      Label, Proc, UnderWay, Enter, Return, Leave, Begin, Unlink, Relinked, PinnedRelease
<1>6. ASSUME NEW p \in Proc, FetchFails(p)
      PROVE  FileInv'
  BY <1>6, Halves DEF FetchFails, StageInv, FileInv, Alone, Installed, Along, Whole, Half,
      Label, Proc, UnderWay, Enter, Return, Leave, Begin, Unlink, Relinked, PinnedRelease
<1>7. ASSUME NEW p \in Proc, Received(p)
      PROVE  FileInv'
  <2>1. /\ stage[p] = "get" /\ stage' = [stage EXCEPT ![p] = "create"]
        /\ version' = [version EXCEPT ![p] = IF version[p] = 0 THEN released ELSE version[p]]
        /\ UNCHANGED <<kind, released, handle, tmp, dest, latest, overlapped>>
    BY <1>7 DEF Received, Enter
  <2>2. \A q \in Proc : /\ stage'[q] = IF q = p THEN "create" ELSE stage[q]
                        /\ q # p => version'[q] = version[q]
    BY <2>1 DEF StageInv
  <2> SUFFICES ASSUME ~overlapped
               PROVE  FileInv'
    BY <2>1 DEF FileInv
  <2>3. version'[p] \in 1..released /\ (version[p] # 0 => version'[p] = version[p])
    BY <2>1 DEF StageInv, FileInv, Along
  <2>4. Along(p)'
    BY <2>1, <2>2, <2>3 DEF Along, FileInv, Installed
  <2>5. ASSUME NEW q \in Proc, q # p
        PROVE  Along(q)'
    BY <2>1, <2>2, <2>5 DEF Along, FileInv
  <2>6. Alone'
    BY <2>1, <2>2 DEF Alone, UnderWay, FileInv
  <2> QED
    BY <2>1, <2>4, <2>5, <2>6 DEF FileInv, Installed, Whole
<1>8. ASSUME NEW p \in Proc, DownloadFails(p)
      PROVE  FileInv'
  BY <1>8, Halves DEF DownloadFails, StageInv, FileInv, Alone, Installed, Along, Whole, Half,
      Label, Proc, UnderWay, Enter, Return, Leave, Begin, Unlink, Relinked, PinnedRelease
<1>9. ASSUME NEW p \in Proc, Create(p)
      PROVE  FileInv'
  BY <1>9, Halves DEF Create, StageInv, FileInv, Alone, Installed, Along, Whole, Half, Label,
      Proc, UnderWay, Enter, Return, Leave, Begin, Unlink, Relinked, PinnedRelease
<1>10. ASSUME NEW p \in Proc, Write(p, 1)
      PROVE  FileInv'
  <2>1. stage[p] = "write1" /\ stage' = [stage EXCEPT ![p] = "write2"]
    BY <1>10 DEF Write, Enter
  <2>2. /\ tmp' = Put(tmp, p, "tmp", 1) /\ dest' = Put(dest, p, "dest", 1)
        /\ UNCHANGED <<kind, released, version, latest, overlapped>>
    BY <1>10 DEF Write
  <2>3. handle' = handle
    BY <1>10 DEF Write
  <2> SUFFICES ASSUME ~overlapped
               PROVE  FileInv'
    BY <2>2 DEF FileInv
  <2>5. \A q \in Proc : stage'[q] = IF q = p THEN "write2" ELSE stage[q]
    BY <2>1 DEF StageInv
  <2>6. handle[p] = "tmp" /\ tmp # Missing /\ Along(p)
    BY <2>1 DEF FileInv, Along
  <2>7. tmp' = [tmp EXCEPT ![1] = version[p]] /\ dest' = dest
    BY <2>2, <2>6 DEF Put
  <2>4. tmp \in Content /\ dest \in Content /\ version[p] \in 0..MaxVersion /\ 1 \in Half
    BY DEF FileInv, StageInv, Half
  <2>8. tmp' \in Content /\ tmp' # Missing /\ tmp'[1] = version[p]
    <3>1. /\ [tmp EXCEPT ![1] = version[p]] \in Content
          /\ [tmp EXCEPT ![1] = version[p]] # Missing
          /\ [tmp EXCEPT ![1] = version[p]][1] = version[p]
          /\ \A i \in Half \ {1} : [tmp EXCEPT ![1] = version[p]][i] = tmp[i]
      BY <2>4, <2>6, Halves
    <3> QED
      BY <2>7, <3>1 DEF Half
  <2>9. Along(p)'
    BY <2>1, <2>2, <2>3, <2>5, <2>6, <2>7, <2>8 DEF Along, StageInv
  <2>10. ASSUME NEW q \in Proc, q # p
         PROVE  Along(q)'
    <3>1. ~UnderWay(q)
      BY <2>1, <2>10 DEF FileInv, Alone, UnderWay
    <3> QED
      BY <2>5, <2>10, <3>1 DEF Along, UnderWay
  <2>11. Alone'
    BY <2>1, <2>5 DEF Alone, UnderWay, FileInv
  <2> QED
    BY <2>2, <2>4, <2>7, <2>8, <2>9, <2>10, <2>11 DEF FileInv, Installed, Whole
<1>11. ASSUME NEW p \in Proc, Write(p, 2)
      PROVE  FileInv'
  <2>1. stage[p] = "write2" /\ stage' = [stage EXCEPT ![p] = "chmod"]
    BY <1>11 DEF Write, Enter
  <2>2. /\ tmp' = Put(tmp, p, "tmp", 2) /\ dest' = Put(dest, p, "dest", 2)
        /\ UNCHANGED <<kind, released, version, latest, overlapped>>
    BY <1>11 DEF Write
  <2>3. handle' = [handle EXCEPT ![p] = "none"]
    BY <1>11 DEF Write
  <2> SUFFICES ASSUME ~overlapped
               PROVE  FileInv'
    BY <2>2 DEF FileInv
  <2>5. \A q \in Proc : stage'[q] = IF q = p THEN "chmod" ELSE stage[q]
    BY <2>1 DEF StageInv
  <2>6. handle[p] = "tmp" /\ tmp # Missing /\ Along(p)
    BY <2>1 DEF FileInv, Along
  <2>7. tmp' = [tmp EXCEPT ![2] = version[p]] /\ dest' = dest
    BY <2>2, <2>6 DEF Put
  <2>4. tmp \in Content /\ dest \in Content /\ version[p] \in 0..MaxVersion /\ 2 \in Half
    BY DEF FileInv, StageInv, Half
  <2>8. tmp' \in Content /\ tmp' # Missing /\ tmp'[2] = version[p] /\ tmp'[1] = tmp[1]
    <3>1. /\ [tmp EXCEPT ![2] = version[p]] \in Content
          /\ [tmp EXCEPT ![2] = version[p]] # Missing
          /\ [tmp EXCEPT ![2] = version[p]][2] = version[p]
          /\ \A i \in Half \ {2} : [tmp EXCEPT ![2] = version[p]][i] = tmp[i]
      BY <2>4, <2>6, Halves
    <3> QED
      BY <2>7, <3>1 DEF Half
  <2>9. Along(p)'
    BY <2>1, <2>2, <2>3, <2>5, <2>6, <2>7, <2>8 DEF Along, StageInv
  <2>10. ASSUME NEW q \in Proc, q # p
         PROVE  Along(q)'
    <3>1. ~UnderWay(q)
      BY <2>1, <2>10 DEF FileInv, Alone, UnderWay
    <3> QED
      BY <2>5, <2>10, <3>1 DEF Along, UnderWay
  <2>11. Alone'
    BY <2>1, <2>5 DEF Alone, UnderWay, FileInv
  <2> QED
    BY <2>2, <2>4, <2>7, <2>8, <2>9, <2>10, <2>11 DEF FileInv, Installed, Whole
<1>12. ASSUME NEW p \in Proc, RemoveOld(p)
      PROVE  FileInv'
  BY <1>12, Halves DEF RemoveOld, StageInv, FileInv, Alone, Installed, Along, Whole, Half,
      Label, Proc, UnderWay, Enter, Return, Leave, Begin, Unlink, Relinked, PinnedRelease
<1>13. ASSUME NEW p \in Proc, Rename(p)
      PROVE  FileInv'
  <2>1. /\ stage[p] = "rename" /\ dest' = tmp /\ tmp' = Missing
        /\ stage' = [stage EXCEPT ![p] = IF p = Connection THEN "idle" ELSE "latest"]
        /\ \A q \in Proc : p # Connection \/ q # p => version'[q] = version[q]
        /\ UNCHANGED <<kind, released, latest, overlapped>>
    BY <1>13 DEF Rename, Return, Enter, StageInv
  <2> SUFFICES ASSUME ~overlapped
               PROVE  FileInv'
    BY <2>1 DEF FileInv
  <2>2. \A q \in Proc : q # p => ~UnderWay(q)
    BY <2>1 DEF FileInv, Alone, UnderWay
  <2>3. \A q \in Proc :
          stage'[q] = IF q # p THEN stage[q] ELSE IF p = Connection THEN "idle" ELSE "latest"
    BY <2>1 DEF StageInv
  <2>4. /\ tmp # Missing /\ tmp \in Content /\ tmp[1] = version[p] /\ tmp[2] = version[p]
        /\ version[p] \in 1..released /\ (kind = "csqtt" => latest <= version[p])
    BY <2>1 DEF FileInv, Along
  <2>5. \A q \in Proc : Along(q)'
    BY <2>1, <2>2, <2>3, <2>4 DEF Along, UnderWay
  <2>6. Alone'
    BY <2>2, <2>3 DEF Alone, UnderWay
  <2>7. Installed'
    BY <2>1, <2>4 DEF Installed, Whole, FileInv
  <2> QED
    BY <2>1, <2>4, <2>5, <2>6, <2>7, Halves DEF FileInv
<1>14. ASSUME NEW p \in Proc, WriteLatest(p)
      PROVE  FileInv'
  BY <1>14, Halves DEF WriteLatest, StageInv, FileInv, Alone, Installed, Along, Whole, Half,
      Label, Proc, UnderWay, Enter, Return, Leave, Begin, Unlink, Relinked, PinnedRelease
<1>15. ASSUME NEW p \in Proc, Drop(p)
      PROVE  FileInv'
  BY <1>15, Halves DEF Drop, StageInv, FileInv, Alone, Installed, Along, Whole, Half, Label,
      Proc, UnderWay, Enter, Return, Leave, Begin, Unlink, Relinked, PinnedRelease
<1>16. CASE BeginConnect
  BY <1>16, Halves DEF BeginConnect, StageInv, FileInv, Alone, Installed, Along, Whole, Half,
      Label, Proc, UnderWay, Enter, Return, Leave, Begin, Unlink, Relinked, PinnedRelease
<1>17. CASE DeleteCore
  BY <1>17, Halves DEF DeleteCore, StageInv, FileInv, Alone, Installed, Along, Whole, Half,
      Label, Proc, UnderWay, Enter, Return, Leave, Begin, Unlink, Relinked, PinnedRelease
<1>18. CASE Publish
  BY <1>18, Halves DEF Publish, StageInv, FileInv, Alone, Installed, Along, Whole, Half,
      Label, Proc, UnderWay, Enter, Return, Leave, Begin, Unlink, Relinked, PinnedRelease
<1>19. CASE Restart
  BY <1>19, Halves DEF Restart, StageInv, FileInv, Alone, Installed, Along, Whole, Half,
      Label, Proc, UnderWay, Enter, Return, Leave, Begin, Unlink, Relinked, PinnedRelease
<1> QED
  BY <1>0, <1>1, <1>2, <1>3, <1>4, <1>5, <1>6, <1>7, <1>8, <1>9, <1>10, <1>11, <1>12, <1>13,
      <1>14, <1>15, <1>16, <1>17, <1>18, <1>19 DEF Next

(* Who sets the flag goes on with the download; every way out of it clears *)
(* the flag, but for the connection that is dropped.                       *)
LEMMA FlagKeeps ==
  ASSUME StageInv, FlagReleased, [Next]_vars
  PROVE  FlagReleased'
<1> USE CoreAssumption DEF StageInv, FlagReleased, Label, Proc, Enter, Return, Leave, Begin
<1>0. CASE UNCHANGED vars
  BY <1>0 DEF vars
<1>1. ASSUME NEW p \in Proc, Ask(p)
      PROVE  FlagReleased'
  BY <1>1 DEF Ask
<1>2. ASSUME NEW p \in Proc, CheckFlag(p)
      PROVE  FlagReleased'
  BY <1>2 DEF CheckFlag
<1>3. ASSUME NEW p \in Proc, SetFlag(p)
      PROVE  FlagReleased'
  BY <1>3 DEF SetFlag
<1>4. ASSUME NEW p \in Proc, ClearFlag(p)
      PROVE  FlagReleased'
  BY <1>4 DEF ClearFlag
<1>5. ASSUME NEW p \in Proc, Fetched(p)
      PROVE  FlagReleased'
  BY <1>5 DEF Fetched
<1>6. ASSUME NEW p \in Proc, FetchFails(p)
      PROVE  FlagReleased'
  BY <1>6 DEF FetchFails
<1>7. ASSUME NEW p \in Proc, Received(p)
      PROVE  FlagReleased'
  BY <1>7 DEF Received
<1>8. ASSUME NEW p \in Proc, DownloadFails(p)
      PROVE  FlagReleased'
  BY <1>8 DEF DownloadFails
<1>9. ASSUME NEW p \in Proc, Create(p)
      PROVE  FlagReleased'
  BY <1>9 DEF Create
<1>10. ASSUME NEW p \in Proc, Write(p, 1)
      PROVE  FlagReleased'
  BY <1>10 DEF Write
<1>11. ASSUME NEW p \in Proc, Write(p, 2)
      PROVE  FlagReleased'
  BY <1>11 DEF Write
<1>12. ASSUME NEW p \in Proc, RemoveOld(p)
      PROVE  FlagReleased'
  BY <1>12 DEF RemoveOld
<1>13. ASSUME NEW p \in Proc, Rename(p)
      PROVE  FlagReleased'
  BY <1>13 DEF Rename
<1>14. ASSUME NEW p \in Proc, WriteLatest(p)
      PROVE  FlagReleased'
  BY <1>14 DEF WriteLatest
<1>15. ASSUME NEW p \in Proc, Drop(p)
      PROVE  FlagReleased'
  BY <1>15 DEF Drop
<1>16. CASE BeginConnect
  BY <1>16 DEF BeginConnect
<1>17. CASE DeleteCore
  BY <1>17 DEF DeleteCore
<1>18. CASE Publish
  BY <1>18 DEF Publish
<1>19. CASE Restart
  BY <1>19 DEF Restart
<1> QED
  BY <1>0, <1>1, <1>2, <1>3, <1>4, <1>5, <1>6, <1>7, <1>8, <1>9, <1>10, <1>11, <1>12, <1>13,
      <1>14, <1>15, <1>16, <1>17, <1>18, <1>19 DEF Next

(* core_downloading: no error path of a handler leaves the flag up. Only a *)
(* download dropped with its connection does, until the next start.        *)
THEOREM FlagSafe == Spec => []FlagReleased
<1>1. Init => StageInv /\ FlagReleased
  BY CoreAssumption DEF Init, StageInv, FlagReleased, Label, Proc, Word
<1>2. StageInv /\ FlagReleased /\ [Next]_vars => StageInv' /\ FlagReleased'
  BY StepKeeps, FlagKeeps
<1> QED
  BY <1>1, <1>2, PTL DEF Spec

(* download_binary and core_check_p: where downloads do not overlap, the    *)
(* name of the core leads to nothing or to one complete release, whatever   *)
(* fails or is cut short, and a core that is out of date is offered its     *)
(* update.                                                                  *)
THEOREM CoreSafe == Spec => []InstalledCore
<1>1. Init => StageInv /\ FileInv
  <2>1. Init => StageInv
    BY CoreAssumption DEF Init, StageInv, Label, Proc, Word
  <2>2. Init => FileInv
    BY CoreAssumption, Halves DEF Init, FileInv, Alone, Installed, Along, UnderWay, Proc
  <2> QED
    BY <2>1, <2>2
<1>2. StageInv /\ FileInv /\ [Next]_vars => StageInv' /\ FileInv'
  BY StepKeeps, FileKeeps
<1>3. StageInv /\ FileInv => InstalledCore
  BY DEF StageInv, FileInv, Installed, InstalledCore, HasUpdate
<1> QED
  BY <1>1, <1>2, <1>3, PTL DEF Spec
=============================================================================
