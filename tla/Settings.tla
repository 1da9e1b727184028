------------------------------ MODULE Settings ------------------------------
(***************************************************************************)
(* Saving the settings (app/update/settings.rs).  Every change is applied  *)
(* at once and saved by a task of its own on a blocking thread; tasks run  *)
(* in any order, one at a time under SAVE_GATE, and may fail.  Their       *)
(* results reach the application later, also in any order.                 *)
(*                                                                         *)
(* The settings are known by the number of the change that made them,      *)
(* `config_save`.  A save replaces the file as a whole (a temporary file   *)
(* that is renamed); one that fails may have done so before.  "Mutant"     *)
(* marks a bug that the run must notice.                                   *)
(***************************************************************************)
EXTENDS Naturals

CONSTANT MaxChanges  (* Bound: changes of the settings.                    *)

VARIABLES
  config,         (* `Shio::config`, and LATEST_SAVE.                       *)
  disk,           (* The settings file.                                     *)
  saves,          (* Saves that have not taken SAVE_GATE.                   *)
  gate,           (* The save that holds it, or 0.                          *)
  results,        (* Results on their way to the application.               *)
  notice          (* "settings could not be saved" is "shown", or was       *)
                  (* "dismissed" since the settings last changed.           *)

vars == <<config, disk, saves, gate, results, notice>>

TypeOK ==
  /\ config \in 0..MaxChanges
  /\ disk \in 0..config
  /\ saves \subseteq 1..config
  /\ gate \in 0..config
  /\ results \subseteq [id : 1..config, ok : BOOLEAN]
  /\ notice \in {"none", "shown", "dismissed"}

Result(id, ok) == results' = results \cup {[id |-> id, ok |-> ok]}

(* `apply_config`, and the welcome dialog that saves the settings as they  *)
(* are. *)
SaveConfig ==
  /\ config < MaxChanges
  /\ config' = config + 1
  /\ saves' = saves \cup {config + 1}
  /\ notice' = IF notice = "dismissed" THEN "none" ELSE notice
  /\ UNCHANGED <<disk, gate, results>>

(* `save_if_latest` *)
EnterGate(id) ==
  /\ id \in saves /\ gate = 0
  /\ saves' = saves \ {id}
  /\ IF id = config THEN gate' = id /\ UNCHANGED results
     ELSE Result(id, TRUE) /\ UNCHANGED gate
  /\ UNCHANGED <<config, disk, notice>>

(* `AppConfig::save_to_path` *)
Save ==
  /\ gate # 0
  /\ gate' = 0
  /\ \E ok \in BOOLEAN :
       /\ Result(gate, ok)
       /\ disk' \in IF ok THEN {gate} ELSE {disk, gate}
  /\ UNCHANGED <<config, saves, notice>>

(* Mutant: the result of any save is believed. *)
ShownAlways(r) == IF r.ok THEN "none" ELSE "shown"

(* The notice follows the result of the last save. *)
Shown(r) == IF r.id # config THEN notice ELSE IF r.ok THEN "none" ELSE "shown"

(* `config_saved` *)
ConfigSaved(r) ==
  /\ r \in results
  /\ results' = results \ {r}
  /\ notice' = Shown(r)
  /\ UNCHANGED <<config, disk, saves, gate>>

DismissNotice ==
  /\ notice = "shown"
  /\ notice' = "dismissed"
  /\ UNCHANGED <<config, disk, saves, gate, results>>

Init ==
  /\ config = 0 /\ disk = 0
  /\ saves = {} /\ gate = 0 /\ results = {} /\ notice = "none"

Next ==
  \/ SaveConfig \/ Save \/ DismissNotice
  \/ \E id \in saves : EnterGate(id)
  \/ \E r \in results : ConfigSaved(r)

Spec == Init /\ [][Next]_vars

-----------------------------------------------------------------------------
(***************************************************************************)
(* Once no save is under way, the file holds the last settings, or the     *)
(* user is told that it may not, and was when the notice was dismissed.    *)
(***************************************************************************)
SavedOrTold == saves = {} /\ gate = 0 /\ results = {} => disk = config \/ notice # "none"
=============================================================================
