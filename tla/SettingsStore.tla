--------------------------- MODULE SettingsStore ----------------------------
(***************************************************************************)
(* The settings of the desktop backend and the identity of the device:     *)
(* state.settings in memory, settings.json and device_id.json on disk, the *)
(* handlers under /settings and /device, /debug/reload, and AppState::new. *)
(*                                                                         *)
(* The handlers hold no lock from their first read to their last write and *)
(* run on several threads: every lock and every file operation is a step.  *)
(* std::fs::write truncates and then fills; the backend may be killed      *)
(* between any two steps, those of the next start included.                *)
(***************************************************************************)
EXTENDS Naturals

CONSTANTS
  Handler,      \* requests being handled
  MaxId         \* bound on the identities generated while the model runs

ASSUME SettingsAssumption == MaxId \in Nat \ {0} /\ "start" \notin Handler

\* One field stands for the form: a value, its default, and a value out of
\* range, which normalize() turns into the default.
Value == {"default", "chosen", "invalid"}
Normalized(v) == IF v = "invalid" THEN "default" ELSE v
NoId == 0
Settings == [value : Value, id : 0..MaxId]
Default == [value |-> "default", id |-> NoId]
\* A file that does not parse: truncated, or filled by two writers at once.
Torn == [value |-> "invalid", id |-> MaxId + 1]

VARIABLES
  mem,          \* state.settings
  file, idFile, \* settings.json, and the id in device_id.json (NoId: torn)
  step, copy,   \* where a handler or the start is, and its local settings
  lastId,       \* newest identity generated
  allowed,      \* identities the device may have, from what was answered
  mixed         \* a regeneration overlapped another handler or could not save
                \* settings.json, or a kill came while both files were torn;
                \* forgotten when the next start has written both

settingsVars == <<mem, file, idFile, step, copy, lastId, allowed, mixed>>
disk == <<file, idFile>>
ghosts == <<allowed, mixed>>

Start == "start"                  \* the task that runs AppState::new
Actor == Handler \cup {Start}
Up == step[Start] = "up"

SettingsInit ==
  /\ mem = Default
  /\ file \in {[value |-> v, id |-> 1] : v \in Value} /\ idFile \in {NoId, 1}
  /\ step = [a \in Actor |-> IF a = Start THEN "boot" ELSE "idle"]
  /\ copy = [a \in Actor |-> Default]
  /\ lastId = 1
  /\ allowed = {1} /\ mixed = FALSE

Goto(a, s) == step' = [step EXCEPT ![a] = s]
Keep(a, s) == copy' = [copy EXCEPT ![a] = s]
Fresh == lastId < MaxId /\ lastId' = lastId + 1

-----------------------------------------------------------------------------
(* AppState::new and ensure_device_id. *)

Parsed(f) == IF f = Torn THEN Default ELSE [f EXCEPT !.value = Normalized(@)]

Boot ==
  /\ step[Start] = "boot"
  /\ Goto(Start, "identify") /\ Keep(Start, Parsed(file))
  /\ UNCHANGED <<mem, disk, lastId, ghosts>>

\* The first of the candidates that is an identity, or a new one; then
\* fs::write truncates device_id.json.
Identify(first, second) ==
  /\ step[Start] = "identify"
  /\ \E id \in 1..MaxId :
       /\ IF first # NoId THEN id = first /\ UNCHANGED lastId
          ELSE IF second # NoId THEN id = second /\ UNCHANGED lastId
          ELSE Fresh /\ id = lastId'
       /\ Keep(Start, [copy[Start] EXCEPT !.id = id])
  /\ idFile' = NoId
  /\ Goto(Start, "id_write")
  /\ UNCHANGED <<mem, file, ghosts>>

\* The mutated form has the settings alone say who the device is.
IdentifyBySettings == Identify(copy[Start].id, NoId)

\* existing_uuid.or(preferred_uuid).unwrap_or_else(Uuid::new_v4)
EnsureDeviceId == Identify(idFile, copy[Start].id)

WriteDeviceId ==
  /\ step[Start] = "id_write"
  /\ idFile' = copy[Start].id
  /\ Goto(Start, "truncate")
  /\ UNCHANGED <<mem, file, copy, lastId, ghosts>>

StartTruncates ==
  /\ step[Start] = "truncate"
  /\ file' = Torn /\ Goto(Start, "fill")
  /\ UNCHANGED <<mem, idFile, copy, lastId, ghosts>>

Started ==
  /\ step[Start] = "fill"
  /\ file' = copy[Start] /\ mem' = copy[Start]
  /\ Goto(Start, "up") /\ Keep(Start, Default)
  /\ mixed' = FALSE
  /\ allowed' = IF mixed THEN {copy[Start].id} ELSE allowed \cap {copy[Start].id}
  /\ UNCHANGED <<idFile, lastId>>

-----------------------------------------------------------------------------
(* settings_put, settings_patch, settings_put_key and settings_reset: the   *)
(* new settings, the identity read again, the write, the save.              *)

Busy == {h \in Handler : step[h] # "idle"}
Begins(h, s) ==
  /\ Up /\ step[h] = "idle"
  /\ Goto(h, s)
  /\ mixed' = \/ mixed
              \/ Busy # {} /\ (s = "id_truncate" \/ allowed # {mem.id})

\* The body names every field, an identity among them (PUT, reset), or is
\* merged into a clone of the settings (PATCH, PUT of a key).
Form(h) ==
  \E v \in Value, id \in {NoId, mem.id} :
    /\ Begins(h, "take_id")
    /\ Keep(h, [value |-> Normalized(v), id |-> id])
    /\ UNCHANGED <<mem, disk, lastId, allowed>>

PatchOther(h) ==
  /\ Begins(h, "take_id") /\ Keep(h, mem)
  /\ UNCHANGED <<mem, disk, lastId, allowed>>

TakeId(h) ==
  /\ step[h] = "take_id"
  /\ Keep(h, [copy[h] EXCEPT !.id = mem.id]) /\ Goto(h, "set")
  /\ UNCHANGED <<mem, disk, lastId, ghosts>>

SetSettings(h) ==
  /\ step[h] = "set"
  /\ mem' = copy[h] /\ Goto(h, "snapshot")
  /\ UNCHANGED <<disk, copy, lastId, ghosts>>

\* save_settings: clone under the lock, then fs::write outside it.
Snapshot(h) ==
  /\ step[h] = "snapshot"
  /\ Keep(h, mem) /\ Goto(h, "truncate")
  /\ UNCHANGED <<mem, disk, lastId, ghosts>>

Truncate(h) ==
  /\ step[h] = "truncate"
  /\ file' = Torn /\ Goto(h, "fill")
  /\ UNCHANGED <<mem, idFile, copy, lastId, ghosts>>

\* Over what another writer has filled since: a longer tail may remain.
Fill(h) ==
  /\ step[h] = "fill"
  /\ file' \in IF file = Torn THEN {copy[h]} ELSE {copy[h], Torn}
  /\ Goto(h, "answer")
  /\ UNCHANGED <<mem, idFile, copy, lastId, ghosts>>

\* The answer: a regeneration is now known to the user.
Answer(h) ==
  /\ step[h] = "answer"
  /\ allowed' = IF copy[h].id \in allowed THEN {copy[h].id} ELSE allowed
  /\ Goto(h, "idle") /\ Keep(h, Default)
  /\ UNCHANGED <<mem, disk, lastId, mixed>>

\* The open fails, or the write ends early: error 500, or ignored. Under a
\* regeneration device_id.json and the memory have the new identity already.
SaveFails(h) ==
  /\ step[h] \in {"truncate", "fill"}
  /\ Goto(h, "idle") /\ Keep(h, Default)
  /\ mixed' = (mixed \/ allowed # {mem.id})
  /\ UNCHANGED <<mem, disk, lastId, allowed>>

-----------------------------------------------------------------------------
(* device_id_regenerate and debug_reload. *)

Regenerate(h) ==
  /\ Begins(h, "id_truncate")
  /\ Fresh
  /\ Keep(h, [Default EXCEPT !.id = lastId'])
  /\ allowed' = allowed \cup {lastId'}
  /\ UNCHANGED <<mem, disk>>

TruncateId(h) ==
  /\ step[h] = "id_truncate"
  /\ idFile' = NoId /\ Goto(h, "id_fill")
  /\ UNCHANGED <<mem, file, copy, lastId, ghosts>>

FillId(h) ==
  /\ step[h] = "id_fill"
  /\ idFile' = copy[h].id /\ Goto(h, "id_set")
  /\ UNCHANGED <<mem, file, copy, lastId, ghosts>>

\* Error 500: the identity stays the one in memory and in settings.json.
IdWriteFails(h) ==
  /\ step[h] \in {"id_truncate", "id_fill"}
  /\ Goto(h, "idle") /\ Keep(h, Default)
  /\ allowed' = allowed \ {copy[h].id}
  /\ UNCHANGED <<mem, disk, lastId, mixed>>

SetId(h) ==
  /\ step[h] = "id_set"
  /\ mem' = [mem EXCEPT !.id = copy[h].id] /\ Goto(h, "snapshot")
  /\ UNCHANGED <<disk, copy, lastId, ghosts>>

Reload(h) ==
  /\ Begins(h, "reload")
  /\ Keep(h, IF file = Torn THEN mem ELSE Parsed(file))
  /\ UNCHANGED <<mem, disk, lastId, allowed>>

Reloaded(h) ==
  /\ step[h] = "reload"
  /\ mem' = copy[h]
  /\ Goto(h, "idle") /\ Keep(h, Default)
  /\ UNCHANGED <<disk, lastId, ghosts>>

-----------------------------------------------------------------------------

Kill ==
  /\ step[Start] # "boot"
  /\ step' = [a \in Actor |-> IF a = Start THEN "boot" ELSE "idle"]
  /\ copy' = [a \in Actor |-> Default] /\ mem' = Default
  /\ mixed' = (mixed \/ (file = Torn /\ idFile = NoId))
  /\ UNCHANGED <<disk, lastId, allowed>>

SettingsNext ==
  \/ Boot \/ EnsureDeviceId \/ WriteDeviceId \/ StartTruncates \/ Started \/ Kill
  \/ \E h \in Handler :
       \/ Form(h) \/ PatchOther(h) \/ TakeId(h) \/ SetSettings(h) \/ Snapshot(h)
       \/ Truncate(h) \/ Fill(h) \/ Answer(h) \/ SaveFails(h)
       \/ Regenerate(h) \/ TruncateId(h) \/ FillId(h) \/ IdWriteFails(h) \/ SetId(h)
       \/ Reload(h) \/ Reloaded(h)

SettingsSpec == SettingsInit /\ [][SettingsNext]_settingsVars

-----------------------------------------------------------------------------

SettingsTypeOK ==
  /\ mem \in Settings /\ file \in Settings \cup {Torn} /\ idFile \in 0..MaxId
  /\ step \in [Actor -> {"boot", "identify", "id_write", "truncate", "fill", "up", "idle",
                         "take_id", "set", "snapshot", "answer", "id_truncate", "id_fill",
                         "id_set", "reload"}]
  /\ copy \in [Actor -> Settings] /\ lastId \in 1..MaxId
  /\ mixed \in BOOLEAN /\ allowed \subseteq 1..MaxId

\* ensure_device_id, "upgrades do not change identity", and settings_put,
\* "managed by device_id.json, never by settings form payloads": forms that
\* overlap in any order, failed writes, kills inside any write of a file and
\* inside the starts that follow leave the device the identity it had, or the
\* one last regenerated.  What the code does not keep is left out: a
\* regeneration that overlaps another handler or cannot save settings.json,
\* and a kill while neither file is whole, as inside the rewrite of
\* device_id.json by the start that follows a kill inside a save; from such
\* a step to the end of the next start nothing is claimed.
IdentityKept ==
  Up /\ ~mixed => mem.id \in allowed
=============================================================================
