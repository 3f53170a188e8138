---------------------------- MODULE CoreDownload ----------------------------
(***************************************************************************)
(* Installing and updating a core of the desktop backend: the download     *)
(* handlers and the download inside vpn_connect (api.rs), and the file     *)
(* operations of core_manager::download_binary.                            *)
(*                                                                         *)
(* A download writes <core>.tmp, removes the installed core, renames the   *)
(* temporary file and, for the handlers, writes the version to LATEST.     *)
(* The handlers exclude each other with a flag that is read and set under  *)
(* two separate locks; vpn_connect does not look at it. Cores of different *)
(* protocols share nothing but the flag: the model follows one.            *)
(*                                                                         *)
(* A file is two halves, each written by the download of one version; a    *)
(* download keeps writing to its open file wherever the name has gone.     *)
(***************************************************************************)
EXTENDS Naturals, Sequences

CONSTANTS
  Request,        \* download requests being handled
  Connection,        \* the vpn_connect under way: vpn.operation lets one run
  MaxVersion      \* bound on the releases published while the model runs

ASSUME CoreAssumption == Connection \notin Request /\ MaxVersion \in Nat \ {0}

Proc == Request \cup {Connection}
Kind == {"csqtt", "pinned", "paperflux"}
\* What the PaperFlux branches write instead of a version.
Word == MaxVersion + 1
PinnedRelease == 1
Missing == << >>

VARIABLES
  kind,         \* csqtt and csqttr, CSQTT 2.1.9, or PaperFlux
  released,     \* newest version in the repository
  downloading,  \* state.core_downloading
  stage, version,
  handle,       \* link of the file p has open: "tmp", "dest", "gone", "none"
  tmp, dest,    \* contents of <core>.tmp and of the installed core
  latest,       \* contents of LATEST.<protocol>, 0 when absent or empty
  overlapped    \* two downloads have been under way at once

world == <<kind, released>>
files == <<handle, tmp, dest, latest>>
vars == <<world, downloading, stage, version, files, overlapped>>

Half == 1..2
Content == [Half -> 0..MaxVersion] \cup {Missing}
Empty == [h \in Half |-> 0]
Whole(f) == f # Missing /\ f[1] # 0 /\ f[1] = f[2]
UnderWay(p) == stage[p] \notin {"idle", "check", "claim", "dropped"}

Init ==
  /\ kind \in Kind /\ released = 1 /\ downloading = FALSE
  /\ stage = [p \in Proc |-> "idle"]
  /\ version = [p \in Proc |-> 0]
  /\ handle = [p \in Proc |-> "none"]
  /\ tmp = Missing /\ dest = Missing /\ latest = 0
  /\ overlapped = FALSE

Enter(p, l) == stage' = [stage EXCEPT ![p] = l]
\* The handler ends; its local variables are gone.
Return(p) == Enter(p, "idle") /\ version' = [version EXCEPT ![p] = 0]
Leave(p) ==
  IF p = Connection THEN Return(p) ELSE Enter(p, "release") /\ UNCHANGED version

-----------------------------------------------------------------------------
(* core_download_async_p and core_download_sync_p: the asynchronous one is *)
(* a synchronous one that is never dropped.                                *)

Ask(p) ==
  /\ p # Connection /\ stage[p] = "idle"
  /\ Enter(p, "check")
  /\ UNCHANGED <<world, downloading, version, files, overlapped>>

\* "already downloading" or on to the second lock().
CheckFlag(p) ==
  /\ stage[p] = "check"
  /\ IF downloading THEN Return(p) ELSE Enter(p, "claim") /\ UNCHANGED version
  /\ UNCHANGED <<world, downloading, files, overlapped>>

Begin(p) ==
  /\ Enter(p, "fetch")
  /\ overlapped' = (overlapped \/ \E q \in Proc : UnderWay(q))

SetFlag(p) ==
  /\ stage[p] = "claim"
  /\ downloading' = TRUE
  /\ Begin(p)
  /\ UNCHANGED <<world, version, files>>

ClearFlag(p) ==
  /\ stage[p] = "release"
  /\ downloading' = FALSE
  /\ Return(p)
  /\ UNCHANGED <<world, files, overlapped>>

(* vpn_connect with a core that is not installed. *)
BeginConnect ==
  /\ stage[Connection] = "idle" /\ dest = Missing
  /\ Begin(Connection)
  /\ UNCHANGED <<world, downloading, version, files>>

-----------------------------------------------------------------------------
(* fetch_latest_generic and download_binary. The three levels of each      *)
(* differ in the address alone: they succeed, or all of them fail.         *)

Fetched(p) ==
  /\ stage[p] = "fetch"
  /\ version' = [version EXCEPT ![p] = CASE kind = "csqtt" -> released
                                         [] kind = "pinned" -> PinnedRelease
                                         [] OTHER -> 0]
  /\ Enter(p, "get")
  /\ UNCHANGED <<world, downloading, files, overlapped>>

\* The mutated form returns the error without clearing the flag.
FetchFailsFlagged(p) ==
  /\ stage[p] = "fetch" /\ kind = "csqtt"
  /\ Return(p)
  /\ UNCHANGED <<world, downloading, files, overlapped>>

\* "cannot fetch LATEST"; the pinned and the PaperFlux branch fetch nothing.
FetchFails(p) ==
  /\ stage[p] = "fetch" /\ kind = "csqtt"
  /\ Leave(p)
  /\ UNCHANGED <<world, downloading, files, overlapped>>

\* The answer is complete; PaperFlux is whatever /releases/latest/ is now.
Received(p) ==
  /\ stage[p] = "get"
  /\ version' = [version EXCEPT ![p] = IF @ = 0 THEN released ELSE @]
  /\ Enter(p, "create")
  /\ UNCHANGED <<world, downloading, files, overlapped>>

\* Every level failed, or a file operation returned an error through `?`.
DownloadFails(p) ==
  /\ stage[p] \in {"get", "create", "write1", "write2", "chmod", "rename"}
  /\ Leave(p) /\ handle' = [handle EXCEPT ![p] = "none"]
  /\ UNCHANGED <<world, downloading, tmp, dest, latest, overlapped>>

\* The mutated form writes the installed core in place.
CreateInPlace(p) ==
  /\ stage[p] = "create"
  /\ dest' = Empty
  /\ handle' = [handle EXCEPT ![p] = "dest"]
  /\ Enter(p, "write1")
  /\ UNCHANGED <<world, downloading, version, tmp, latest, overlapped>>

\* File::create truncates the file another download may have open.
Create(p) ==
  /\ stage[p] = "create"
  /\ tmp' = Empty
  /\ handle' = [handle EXCEPT ![p] = "tmp"]
  /\ Enter(p, "write1")
  /\ UNCHANGED <<world, downloading, version, dest, latest, overlapped>>

Put(file, p, place, h) ==
  IF handle[p] = place THEN [file EXCEPT ![h] = version[p]] ELSE file

Write(p, h) ==
  /\ stage[p] = IF h = 1 THEN "write1" ELSE "write2"
  /\ tmp' = Put(tmp, p, "tmp", h) /\ dest' = Put(dest, p, "dest", h)
  /\ IF h = 1 THEN Enter(p, "write2") /\ UNCHANGED handle
     ELSE Enter(p, "chmod") /\ handle' = [handle EXCEPT ![p] = "none"]
  /\ UNCHANGED <<world, downloading, version, latest, overlapped>>

\* What unlinking or renaming a file does to the handles on it.
Relinked(from, to) == [q \in Proc |-> IF handle[q] = from THEN to ELSE handle[q]]

Unlink == dest' = Missing /\ handle' = Relinked("dest", "gone")

\* set_permissions on the path, which another download may have renamed,
\* then `if dest.exists() { remove_file(dest) }`.
RemoveOld(p) ==
  /\ stage[p] = "chmod" /\ tmp # Missing
  /\ Unlink
  /\ Enter(p, "rename")
  /\ UNCHANGED <<world, downloading, version, tmp, latest, overlapped>>

Rename(p) ==
  /\ stage[p] = "rename" /\ tmp # Missing
  /\ dest' = tmp /\ tmp' = Missing
  /\ handle' = [q \in Proc |-> IF handle[q] = "dest" THEN "gone"
                               ELSE IF handle[q] = "tmp" THEN "dest" ELSE handle[q]]
  /\ IF p = Connection THEN Return(p) ELSE Enter(p, "latest") /\ UNCHANGED version
  /\ UNCHANGED <<world, downloading, latest, overlapped>>

\* `let _ = tokio::fs::write(&latest_file, ..)`: it may also leave the old
\* text or an empty file.
WriteLatest(p) ==
  LET told == IF kind = "paperflux" THEN Word ELSE version[p] IN
  /\ stage[p] = "latest"
  /\ latest' \in {told, 0, latest}
  /\ Leave(p)
  /\ UNCHANGED <<world, downloading, handle, tmp, dest, overlapped>>

-----------------------------------------------------------------------------
(* core_delete_p, core_check_p, and the world. *)

DeleteCore ==
  /\ dest # Missing
  /\ Unlink
  /\ UNCHANGED <<world, downloading, stage, version, tmp, latest, overlapped>>

HasUpdate == latest # IF kind = "pinned" THEN PinnedRelease ELSE released

Publish ==
  /\ released < MaxVersion
  /\ released' = released + 1
  /\ UNCHANGED <<kind, downloading, stage, version, files, overlapped>>

\* hyper drops a synchronous handler whose client has gone. A file operation
\* begun on the blocking pool is completed: a step taken before the drop.
Drop(p) ==
  /\ UnderWay(p) /\ stage[p] # "release"
  /\ Enter(p, IF p = Connection THEN "idle" ELSE "dropped")
  /\ version' = [version EXCEPT ![p] = 0]
  /\ handle' = [handle EXCEPT ![p] = "none"]
  /\ UNCHANGED <<world, downloading, tmp, dest, latest, overlapped>>

\* The backend is killed and started again; a LATEST being written is cut.
Restart ==
  /\ \E p \in Proc : stage[p] # "idle"
  /\ stage' = [p \in Proc |-> "idle"] /\ handle' = [p \in Proc |-> "none"]
  /\ version' = [p \in Proc |-> 0]
  /\ downloading' = FALSE
  /\ latest' \in {latest} \cup (IF \E p \in Proc : stage[p] = "latest" THEN {0} ELSE {})
  /\ UNCHANGED <<world, tmp, dest, overlapped>>

Next ==
  \/ \E p \in Proc : \/ Ask(p) \/ CheckFlag(p) \/ SetFlag(p) \/ ClearFlag(p)
                     \/ Fetched(p) \/ FetchFails(p) \/ Received(p) \/ DownloadFails(p)
                     \/ Create(p) \/ Write(p, 1) \/ Write(p, 2)
                     \/ RemoveOld(p) \/ Rename(p) \/ WriteLatest(p) \/ Drop(p)
  \/ BeginConnect \/ DeleteCore \/ Publish \/ Restart

Spec == Init /\ [][Next]_vars

-----------------------------------------------------------------------------
(* Properties. Two downloads of one core at once spoil the first one       *)
(* (README, section 6); it is stated without such an overlap.              *)

TypeOK ==
  /\ kind \in Kind /\ released \in 1..MaxVersion
  /\ downloading \in BOOLEAN /\ overlapped \in BOOLEAN
  /\ stage \in [Proc -> {"idle", "check", "claim", "fetch", "get", "create", "write1",
                      "write2", "chmod", "rename", "latest", "release", "dropped"}]
  /\ version \in [Proc -> 0..MaxVersion]
  /\ handle \in [Proc -> {"tmp", "dest", "gone", "none"}]
  /\ tmp \in Content /\ dest \in Content /\ latest \in 0..Word

\* download_binary and core_check_p: whatever fails, is dropped or is killed in
\* the middle of a download, the name of the core leads to nothing or to one
\* complete release, never to a part of it (vpn_connect executes what it finds
\* there), and LATEST never runs ahead of that file: a core older than the
\* newest release is offered its update.
InstalledCore ==
  ~overlapped /\ dest # Missing =>
    Whole(dest) /\ (kind = "csqtt" /\ dest[1] < released => HasUpdate)

\* core_downloading answers 409 to every further download: once no handler
\* is at work it is down again, on every error path. The exception is a
\* synchronous download dropped with its connection.
FlagReleased ==
  downloading => \E p \in Request : stage[p] \notin {"idle", "check", "claim"}
=============================================================================
