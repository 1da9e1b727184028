--------------------------- MODULE TorrentSession ---------------------------
(***************************************************************************)
(* One torrent in the session of librqbit that all torrent workers share   *)
(* (torrent/session.rs, torrent.rs, engine.rs).  The session persists its  *)
(* entries and would run them by itself; workers, commands and detached    *)
(* tasks add, resume, pause and delete the entry by its info hash.  A row  *)
(* may be followed by another row of the same torrent with another folder. *)
(*                                                                         *)
(* Of the row only what decides about the session is kept: TorrentFiles    *)
(* has its files, Engine its queue.  librqbit is modelled by how it is     *)
(* used: it runs an added or resumed entry, may fail an operation, and an  *)
(* operation that timed out may take effect later; the handle of a deleted *)
(* entry is an error.  Assumed: the next row of a torrent is added when    *)
(* the worker and the tasks of the one before are done, and that one is    *)
(* left alone then.  "Mutant" marks a bug that the run must notice.        *)
(***************************************************************************)
EXTENDS Naturals

CONSTANTS
  MaxRows,        (* Bound: rows of the torrent, one after the other.       *)
  MaxFailures,    (* Bound: operations of librqbit that fail or time out.   *)
  MaxRestarts     (* Bound: times the process is killed.                    *)

VARIABLES
  row,            (* The row of the torrent.                                *)
  status,         (* Its status, "Active" for any of a row at work.         *)
  worker,         (* Its worker.                                            *)
  session,        (* The session is open.                                   *)
  entry,          (* The session's entry: the row whose folder it has,      *)
                  (* its state, and whether an operation on it failed.      *)
  late,           (* A pause that timed out may still take effect.          *)
  forgetting,     (* The detached task of `forget_torrent` is to run.       *)
  op,             (* The command that waits for the worker.                 *)
  failures, restarts

boundVars == <<failures, restarts>>
vars == <<row, status, worker, session, entry, late, forgetting, op, boundVars>>

NoEntry == [row |-> 0, state |-> "none", failed |-> FALSE]
NoWorker == [pc |-> "idle", cancelled |-> FALSE, ok |-> FALSE]
Unfinished == {"Queued", "Active", "Paused", "Error"}

-----------------------------------------------------------------------------
(* Helpers *)

At(pc) == worker.pc = pc
Goto(pc) == worker' = [worker EXCEPT !.pc = pc]
Failing == failures < MaxFailures /\ failures' = failures + 1 /\ UNCHANGED restarts
Working == UNCHANGED boundVars
IsRunning == entry.state = "live"

(* `stop_torrent_in_session`: the entry is deleted by hash, whoever's it is. *)
Stop == entry' = NoEntry /\ UNCHANGED late

(* An operation that fails, or that times out and so may still happen. *)
Refused ==
  /\ entry.state # "none"
  /\ entry' = [entry EXCEPT !.failed = TRUE]

-----------------------------------------------------------------------------
(* The worker. *)

(* Entries are restored paused. *)
Restored == "paused"

(* Those of unfinished rows, at the folder they have, are kept. *)
Keeps == status \in Unfinished /\ entry.row = row

(* `open_session`, also by a worker of another torrent. *)
OpenSession ==
  /\ ~session
  /\ session' = TRUE
  /\ entry' = IF entry.state # "none" /\ Keeps
              THEN [entry EXCEPT !.state = Restored, !.failed = FALSE] ELSE NoEntry
  /\ Working
  /\ UNCHANGED <<row, status, worker, late, forgetting, op>>

(* Without a session `run_torrent` is never called. *)
AwaitSession ==
  /\ At("session")
  /\ \/ session /\ Goto("handle") /\ Working
     \/ Failing /\ Goto("exited")
     \/ worker.cancelled /\ Goto("exited") /\ Working
  /\ UNCHANGED <<row, status, session, entry, late, forgetting, op>>

(* `handle`: the entry of this row is resumed, that of another is replaced.  *)
GetHandle ==
  /\ At("handle")
  /\ \/ /\ entry.state = "none"
        /\ entry' = [row |-> row, state |-> "live", failed |-> FALSE]
        /\ Goto("run") /\ Working
     \/ /\ entry.row = row
        /\ entry' = [entry EXCEPT !.state = "live", !.failed = FALSE]
        /\ Goto("run") /\ Working
     \/ /\ entry.row \notin {0, row}
        /\ entry' = NoEntry
        /\ UNCHANGED worker /\ Working
     \/ Failing /\ Goto("pause") /\ UNCHANGED entry
     \/ worker.cancelled /\ Goto("pause") /\ UNCHANGED entry /\ Working
  /\ UNCHANGED <<row, status, session, late, forgetting, op>>

(* Mutant: a torrent that was paused is waited for. *)
ResumesNever == FALSE

(* "A pause from an earlier run can land after this run resumed it." *)
Resumes == entry.state = "paused"

(* `check_state`, on every tick of the download and of seeding. *)
CheckState ==
  /\ At("run")
  /\ \/ Resumes /\ entry' = [entry EXCEPT !.state = "live"] /\ UNCHANGED worker /\ Working
     \/ Resumes /\ Failing /\ Goto("pause") /\ UNCHANGED entry
     \/ entry.state \in {"error", "none"} /\ Goto("pause") /\ UNCHANGED entry /\ Working
  /\ UNCHANGED <<row, status, session, late, forgetting, op>>

(* The run is cancelled, or fails for another reason, or seeding is over. *)
EndRun ==
  /\ At("run")
  /\ \/ worker.cancelled /\ Goto("pause") /\ Working
     \/ Goto("pause") /\ Failing
     \/ IsRunning /\ Goto("leave") /\ Working
  /\ UNCHANGED <<row, status, session, entry, late, forgetting, op>>

(* Mutant: only a cancelled run pauses its torrent. *)
PausesIfCancelled == worker.cancelled

(* Every run that does not succeed pauses the torrent (`run_torrent`). *)
Pauses == TRUE

PauseEntry ==
  /\ At("pause")
  /\ Goto("exited")
  /\ \/ /\ entry' = IF Pauses /\ IsRunning THEN [entry EXCEPT !.state = "paused"] ELSE entry
        /\ Working /\ UNCHANGED late
     \/ Pauses /\ IsRunning /\ Failing /\ Refused /\ late' \in BOOLEAN
  /\ UNCHANGED <<row, status, session, forgetting, op>>

(* `leave_session`: deleted, or at least paused; the download is done anyway.*)
Leave ==
  /\ At("leave")
  /\ worker' = [worker EXCEPT !.pc = "exited", !.ok = TRUE]
  /\ \/ Stop /\ Working
     \/ /\ Failing
        /\ entry' = IF IsRunning THEN [entry EXCEPT !.state = "paused"] ELSE entry
        /\ UNCHANGED late
     \/ /\ failures + 2 <= MaxFailures /\ failures' = failures + 2 /\ UNCHANGED restarts
        /\ Refused /\ late' \in BOOLEAN
  /\ UNCHANGED <<row, status, session, forgetting, op>>

-----------------------------------------------------------------------------
(* librqbit. *)

TorrentFails ==
  /\ session /\ IsRunning
  /\ Failing
  /\ entry' = [entry EXCEPT !.state = "error"]
  /\ UNCHANGED <<row, status, worker, session, late, forgetting, op>>

LatePause ==
  /\ late
  /\ late' = FALSE
  /\ entry' = IF IsRunning THEN [entry EXCEPT !.state = "paused"] ELSE entry
  /\ Working
  /\ UNCHANGED <<row, status, worker, session, forgetting, op>>

-----------------------------------------------------------------------------
(* The engine. *)

CancelWorker == worker' = IF At("idle") THEN worker ELSE [worker EXCEPT !.cancelled = TRUE]
Command == UNCHANGED <<row, session, entry, late, forgetting, boundVars>>

Start ==
  /\ status = "Queued" /\ At("idle") /\ op = "none"
  /\ status' = "Active"
  /\ worker' = [NoWorker EXCEPT !.pc = "session"]
  /\ UNCHANGED op /\ Command

(* `pause`, `cancel` and `stop_seeding` *)
Interrupt ==
  /\ op = "none"
  /\ \/ status \in {"Queued", "Active"} /\ status' = "Paused"
     \/ status \in Unfinished /\ status' = "Cancelled"
     \/ status = "Active" /\ status' = "Completed"
  /\ CancelWorker
  /\ UNCHANGED op /\ Command

Resume ==
  /\ op = "none"
  /\ status \in {"Paused", "Error"}
  /\ status' = "Queued"
  /\ UNCHANGED <<worker, op>> /\ Command

(* `force_recheck` and `remove` wait for the worker. *)
AskStop(what) ==
  /\ op = "none" /\ status # "Gone"
  /\ what = "recheck" => status \in {"Paused", "Completed", "Active", "Error"}
  /\ op' = what
  /\ status' = IF what = "recheck" THEN "Queued" ELSE status
  /\ CancelWorker /\ Command

(* `stop_torrent_session`, whose failure is only logged. *)
Stopped ==
  /\ op # "none" /\ At("idle")
  /\ op' = "none"
  /\ status' = IF op = "remove" THEN "Gone" ELSE status
  /\ \/ ~session /\ UNCHANGED <<entry, late>> /\ Working
     \/ session /\ Stop /\ Working
     \/ session /\ Failing /\ Refused /\ UNCHANGED late
  /\ UNCHANGED <<row, worker, session, forgetting>>

(* `finish`, and the task of `forget_torrent` for a row that is done. *)
Finish ==
  /\ At("exited")
  /\ worker' = NoWorker
  /\ status' = IF worker.ok THEN "Completed"
               ELSE IF status # "Active" THEN status
               ELSE IF worker.cancelled THEN "Cancelled" ELSE "Error"
  /\ forgetting' = (forgetting \/ (session /\ worker.cancelled /\ status' \in {"Cancelled", "Completed"}))
  /\ Working
  /\ UNCHANGED <<row, session, entry, late, op>>

Forget ==
  /\ forgetting
  /\ forgetting' = FALSE
  /\ (Stop /\ Working) \/ (Failing /\ Refused /\ UNCHANGED late)
  /\ UNCHANGED <<row, status, worker, session, op>>

(* `add_torrent`: not while a row of the torrent is unfinished. *)
AddAgain ==
  /\ status \notin Unfinished /\ row < MaxRows
  /\ At("idle") /\ ~forgetting /\ op = "none"
  /\ row' = row + 1
  /\ status' = "Queued"
  /\ UNCHANGED <<worker, session, entry, late, forgetting, op, boundVars>>

Restart ==
  /\ restarts < MaxRestarts
  /\ restarts' = restarts + 1
  /\ session' = FALSE
  /\ status' = IF status = "Active" THEN "Queued" ELSE status
  /\ worker' = NoWorker
  /\ late' = FALSE /\ forgetting' = FALSE /\ op' = "none"
  /\ UNCHANGED <<row, entry, failures>>

Init ==
  /\ row = 1 /\ status = "Queued"
  /\ worker = NoWorker
  /\ session = FALSE
  /\ entry = NoEntry
  /\ late = FALSE /\ forgetting = FALSE /\ op = "none"
  /\ failures = 0 /\ restarts = 0

Next ==
  \/ OpenSession \/ AwaitSession \/ GetHandle \/ CheckState \/ EndRun \/ PauseEntry \/ Leave
  \/ TorrentFails \/ LatePause
  \/ Start \/ Interrupt \/ Resume \/ AskStop("recheck") \/ AskStop("remove") \/ Stopped
  \/ Finish \/ Forget \/ AddAgain
  \/ Restart

(* Workers are polled; a tick is never far away. *)
Fairness == WF_vars(CheckState)

Spec == Init /\ [][Next]_vars /\ Fairness

-----------------------------------------------------------------------------
(* Properties. *)

TypeOK ==
  /\ row \in 1..MaxRows
  /\ status \in Unfinished \cup {"Completed", "Cancelled", "Gone"}
  /\ worker \in [pc : {"idle", "session", "handle", "run", "pause", "leave", "exited"},
                 cancelled : BOOLEAN, ok : BOOLEAN]
  /\ session \in BOOLEAN
  /\ entry \in [row : 0..MaxRows, state : {"none", "live", "paused", "error"}, failed : BOOLEAN]
  /\ late \in BOOLEAN /\ forgetting \in BOOLEAN
  /\ op \in {"none", "recheck", "remove"}
  /\ failures \in 0..MaxFailures
  /\ restarts \in 0..MaxRestarts

(***************************************************************************)
(* A torrent runs only while its row's worker watches it, unless librqbit  *)
(* failed to stop it: not after a pause, a cancel, an error or the end of  *)
(* seeding, and not because the session remembers it from the last start.  *)
(***************************************************************************)
RunsForItsRow ==
  session /\ IsRunning /\ ~entry.failed => worker.pc \in {"run", "leave", "pause"} /\ entry.row = row

(***************************************************************************)
(* A pause that lands late does not stop the next run: the torrent goes on *)
(* or the run ends.                                                        *)
(***************************************************************************)
PausedTorrentsResume ==
  At("run") /\ entry.state = "paused" ~> IsRunning \/ ~At("run")
=============================================================================
