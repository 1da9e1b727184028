----------------------------- MODULE Lifecycle -----------------------------
(***************************************************************************)
(* What the engine promises of its rows: the life that a user sees each    *)
(* download, and the archive set, have.  A row has one status, which every *)
(* command changes at once; there is no record beside it, and yet a crash  *)
(* makes of it only what a restart should.  Behind a row there is at most  *)
(* one task, which outlives the command that interrupts it.                *)
(*                                                                         *)
(* Engine implements this with a queue, slots, reports, exits, a database  *)
(* that is written before the rows, and commands that wait.                *)
(***************************************************************************)
CONSTANTS
  Rows,           (* The downloads.                                         *)
  Torrent,        (* Those that are torrents.                               *)
  Parts           (* Those that are the parts of the archive set.           *)

VARIABLES
  life,           (* The status of each row, whatever phase its task is in. *)
  set,            (* The status of the archive set.                         *)
  busy,           (* The rows with a task.                                  *)
  closing,        (* The engine was told to shut down.                      *)
  unsaved         (* A status could not be written.                         *)

vars == <<life, set, busy, closing, unsaved>>

Absent == {"New", "Gone"}
AtWork == {"Working", "Unpacking"}
Settled ==
  {"Queued", "Paused", "Error", "ExtractError", "PasswordRequired", "Completed", "Cancelled"}
SetWaits == {"NotStarted", "Error", "PasswordRequired"}

(* The rows I, which all have one of these statuses, get another. *)
Becomes(I, from, to) ==
  /\ I # {} /\ \A i \in I : life[i] \in from
  /\ life' = [i \in Rows |-> IF i \in I THEN to ELSE life[i]]

(* A row that is interrupted may keep its task for a while. *)
Command(I, from, to) == ~closing /\ Becomes(I, from, to) /\ UNCHANGED <<busy, closing, unsaved>>

Add(i) == i \notin Parts /\ Command({i}, {"New"}, "Queued") /\ UNCHANGED set

AddSet == set = "New" /\ Command(Parts, {"New"}, "Queued") /\ set' = "NotStarted"

Pause(I) == Command(I, {"Queued", "Working"}, "Paused") /\ UNCHANGED set

Resume(I) == Command(I, {"Paused", "Error"}, "Queued") /\ UNCHANGED set

Cancel(I) == Command(I, {"Queued", "Working", "Paused", "Error"}, "Cancelled") /\ UNCHANGED set

StopSeeding(i) == i \in Torrent /\ Command({i}, {"Working"}, "Completed") /\ UNCHANGED set

Recheck(i) ==
  i \in Torrent /\ Command({i}, {"Paused", "Completed", "Working", "Error"}, "Queued")
    /\ UNCHANGED set

(* What is done before a recheck fails; the row is not touched otherwise. *)
RecheckFails(i) ==
  i \in Torrent \ busy /\ Command({i}, {"Queued", "Completed", "Error"}, "Error") /\ UNCHANGED set

(* Rows go only without a task, and the parts with their set. *)
Remove(i) ==
  i \notin Parts \cup busy /\ Command({i}, Settled, "Gone") /\ UNCHANGED set

RemoveSet ==
  /\ set \notin {"Extracting"} \cup Absent /\ set' = "Gone"
  /\ Parts \cap busy = {} /\ Command(Parts, Settled, "Gone")

(* A task starts only where there is none. *)
Spawn(i, from, to) ==
  /\ ~closing /\ i \notin busy /\ Becomes({i}, from, to)
  /\ busy' = busy \cup {i}
  /\ UNCHANGED <<set, closing, unsaved>>

Start(i) == Spawn(i, {"Queued"}, "Working")

RetryExtract(i) == Spawn(i, {"ExtractError", "PasswordRequired"}, "Unpacking")

(* It cannot be written that it starts. *)
StartFails(i) ==
  /\ ~closing /\ i \notin busy /\ Becomes({i}, {"Queued"}, "Error") /\ unsaved'
  /\ UNCHANGED <<set, busy, closing>>

(* What becomes of a row whose task ends: work that is done is done, even  *)
(* if it was interrupted; what a command made of the row stays otherwise.  *)
Leaves(i) ==
  \/ Becomes({i}, Settled \cup AtWork, "Completed")
  \/ life[i] \notin AtWork /\ UNCHANGED life
  \/ \E to \in {"Error", "ExtractError", "PasswordRequired", "Cancelled"} :
       Becomes({i}, {"Working"}, to)
  \/ \E to \in {"ExtractError", "PasswordRequired"} : Becomes({i}, {"Unpacking"}, to)
  \/ closing /\ Becomes({i}, {"Working"}, "Queued")

(* The last part that completes has the set extracted. *)
CompletesSet(i) ==
  i \in Parts /\ ~closing /\ set \in SetWaits /\ \A j \in Parts : life'[j] = "Completed"

Finish(i) ==
  /\ i \in busy /\ busy' = busy \ {i}
  /\ \/ Leaves(i) /\ ~CompletesSet(i) /\ UNCHANGED <<set, unsaved>>
     \/ Leaves(i) /\ CompletesSet(i) /\ set' = "Extracting" /\ UNCHANGED unsaved
     \/ Leaves(i) /\ CompletesSet(i) /\ unsaved' /\ UNCHANGED set
     \/ Becomes({i}, Settled \cup AtWork, "Error") /\ unsaved' /\ UNCHANGED set
  /\ UNCHANGED closing

ExtractSet ==
  /\ ~closing /\ set \in SetWaits /\ \A i \in Parts : life[i] = "Completed"
  /\ set' = "Extracting"
  /\ UNCHANGED <<life, busy, closing, unsaved>>

FinishSet ==
  /\ set = "Extracting"
  /\ \/ set' \in {"Completed", "PasswordRequired", "Error"} /\ UNCHANGED unsaved
     \/ set' = "Error" /\ unsaved'
  /\ UNCHANGED <<life, busy, closing>>

WriteFails == unsaved' /\ UNCHANGED <<life, set, busy, closing>>

Close == closing' /\ UNCHANGED <<life, set, busy, unsaved>>

(* What a crash makes of a row; only an error that was not written is lost. *)
AfterCrash(i) ==
  IF life[i] = "Working" THEN {"Queued"}
  ELSE IF life[i] = "Unpacking" THEN {"ExtractError"}
  ELSE IF life[i] = "Error" /\ unsaved THEN Settled
  ELSE {life[i]}

(* The process ends, or starts again. *)
Crash ==
  /\ life' \in [Rows -> Absent \cup Settled] /\ \A i \in Rows : life'[i] \in AfterCrash(i)
  /\ set' = IF set = "Extracting" THEN "Error" ELSE set
  /\ busy' = {}
  /\ closing' \in {closing, FALSE}
  /\ UNCHANGED unsaved

Init ==
  /\ life = [i \in Rows |-> "New"] /\ set = "New" /\ busy = {}
  /\ closing = FALSE /\ unsaved = FALSE

Next ==
  \/ \E i \in Rows : \/ Add(i) \/ StopSeeding(i) \/ Recheck(i) \/ RecheckFails(i) \/ Remove(i)
                     \/ Start(i) \/ StartFails(i) \/ RetryExtract(i) \/ Finish(i)
  \/ \E I \in SUBSET Rows : Pause(I) \/ Resume(I) \/ Cancel(I)
  \/ AddSet \/ RemoveSet \/ ExtractSet \/ FinishSet
  \/ WriteFails \/ Close \/ Crash

Spec == Init /\ [][Next]_vars
=============================================================================
