---------------------------- MODULE ConfigStore -----------------------------
(***************************************************************************)
(* The configs of the desktop backend: the SQLite table behind ConfigStore *)
(* (config.rs), the handlers under /configs and /selected, and the copy of *)
(* a config that is selected for the next connect.                         *)
(*                                                                         *)
(* A mutex makes every statement one step. Requests name a config by an id *)
(* that their client has read earlier, and selected_set reads the row and  *)
(* writes the selection under different locks.                             *)
(***************************************************************************)
EXTENDS Integers, Functions, FiniteSetsExt

CONSTANTS
  Client,     \* requests to /selected being handled
  Text,       \* what a config says: the columns but id
  MaxConfigs  \* bound on the configs inserted while the model runs

ASSUME ConfigAssumption == MaxConfigs \in Nat \ {0}

VARIABLES
  rows,       \* the table: [id -> text]
  sequence,   \* sqlite_sequence: the largest id there has ever been
  selected,   \* state.selected_config: a copy of a row, or Nothing
  found,      \* what the request has read for selected_set, or Nothing
  deleted     \* ids of the configs a user has deleted

configVars == <<rows, sequence, selected, found, deleted>>

Id == 1..MaxConfigs
Nothing == [id |-> 0]
Row(id) == [id |-> id, text |-> rows[id]]

ConfigInit ==
  /\ rows = << >> /\ sequence = 0
  /\ selected = Nothing /\ found = [c \in Client |-> Nothing]
  /\ deleted = {}

\* The mutated form numbers the rows without AUTOINCREMENT.
InsertReusing(text) ==
  LET id == Max(DOMAIN rows \cup {0}) + 1 IN
  /\ sequence < MaxConfigs
  /\ rows' = [i \in DOMAIN rows \cup {id} |-> IF i = id THEN text ELSE rows[i]]
  /\ sequence' = sequence + 1
  /\ UNCHANGED <<selected, found, deleted>>

\* configs_create: body_to_item has a text or answers 400 and changes nothing.
Insert(text) ==
  /\ sequence < MaxConfigs
  /\ sequence' = sequence + 1
  /\ rows' = [i \in DOMAIN rows \cup {sequence'} |-> IF i = sequence' THEN text ELSE rows[i]]
  /\ UNCHANGED <<selected, found, deleted>>

\* No row with the id: "config {} not found", error 500.
Update(id, text) ==
  /\ rows' = IF id \in DOMAIN rows THEN [rows EXCEPT ![id] = text] ELSE rows
  /\ UNCHANGED <<sequence, selected, found, deleted>>

Delete(id) ==
  /\ id \in DOMAIN rows
  /\ rows' = Restrict(rows, DOMAIN rows \ {id})
  /\ deleted' = deleted \cup {id}
  /\ UNCHANGED <<sequence, selected, found>>

\* 404 for an id that is not there.
FindToSelect(c, id) ==
  /\ found[c] = Nothing /\ id \in DOMAIN rows
  /\ found' = [found EXCEPT ![c] = Row(id)]
  /\ UNCHANGED <<rows, sequence, selected, deleted>>

Select(c) ==
  /\ found[c] # Nothing
  /\ selected' = found[c] /\ found' = [found EXCEPT ![c] = Nothing]
  /\ UNCHANGED <<rows, sequence, deleted>>

Deselect ==
  /\ selected' = Nothing
  /\ UNCHANGED <<rows, sequence, found, deleted>>

\* AppState::new: nothing is selected, the database is as it was.
RestartConfigs ==
  /\ selected' = Nothing /\ found' = [c \in Client |-> Nothing]
  /\ UNCHANGED <<rows, sequence, deleted>>

ConfigNext ==
  \/ \E text \in Text : Insert(text) \/ \E id \in Id : Update(id, text)
  \/ \E id \in Id : Delete(id) \/ \E c \in Client : FindToSelect(c, id)
  \/ \E c \in Client : Select(c)
  \/ Deselect \/ RestartConfigs

ConfigSpec == ConfigInit /\ [][ConfigNext]_configVars

-----------------------------------------------------------------------------

ConfigTypeOK ==
  /\ DOMAIN rows \subseteq Id /\ Range(rows) \subseteq Text
  /\ sequence \in 0..MaxConfigs /\ deleted \subseteq Id
  /\ \A s \in Range(found) \cup {selected} : s = Nothing \/ s \in [id : Id, text : Text]

\* ConfigStore: an id names one config for ever. What a client still shows
\* after a delete, and the copy that stays selected, must not reach a config
\* made later when they are used to update, delete, select or connect.
IdsNameOneConfig == deleted \cap DOMAIN rows = {}
=============================================================================
