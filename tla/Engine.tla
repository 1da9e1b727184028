------------------------------- MODULE Engine -------------------------------
(***************************************************************************)
(* The download engine of shio-core: the single task that owns the start   *)
(* queue, the worker table and every committed status (engine.rs), with    *)
(* the worker tasks it spawns (engine/job.rs).                             *)
(*                                                                         *)
(* Three kinds of actor share the rows:                                    *)
(*   - the loop, which scans the queue, then waits for a command, for the  *)
(*     exit of a worker or for a freed slot, handles it, and scans again;  *)
(*   - one task per worker, which reports the phase it is in, gives back   *)
(*     its slot and sends its exit to the loop;                            *)
(*   - the progress tracker inside each worker task, which copies reported *)
(*     phases onto the row.                                                *)
(* A row has a status in memory and one in the database.  Commands and     *)
(* exits write the database first, then memory; trackers write memory      *)
(* only.  The process can be killed at any moment and started again from   *)
(* the database.                                                           *)
(*                                                                         *)
(* Left to other modules: the bytes a worker transfers, the files removed  *)
(* or published, librqbit's session, previews, filenames and the event     *)
(* stream.  No command that the engine rejects is modelled: it changes     *)
(* nothing.  A definition marked "Mutant" is a bug the runs must notice: it*)
(* is not part of the model.                                               *)
(***************************************************************************)
EXTENDS StartQueue

CONSTANTS
  Http,           (* Ids of the HTTP rows, archive parts included.          *)
  Torrent,        (* Ids of the torrent rows.                               *)
  InfoHash,       (* The info hash of each torrent row.                     *)
  Parts,          (* The parts of the one archive set, <<>> for none.       *)
  Pkg,            (* Its row id, PackageId::row_id.                         *)
  Commands,       (* The commands users send.                               *)
  MaxConcurrent,  (* The highest max_concurrent that users configure.       *)
  MaxQueue,       (* Bound: commands do not grow the queue beyond it.       *)
  MaxFaults,      (* Bound: database writes that fail.                      *)
  MaxRestarts     (* Bound: times the process is started again.             *)

Rows == Http \cup Torrent
PartSet == Entries(Parts)
WorkerIds == Rows \cup {Pkg}

ASSUME EngineAssumption ==
  /\ IsFiniteSet(Rows)
  /\ Http \cap Torrent = {}
  /\ Pkg \notin Rows
  /\ Parts \in Seq(Http)
  /\ DOMAIN InfoHash = Torrent
  /\ MaxConcurrent \in Nat \ {0}
  /\ MaxQueue \in Nat
  /\ MaxFaults \in Nat
  /\ MaxRestarts \in Nat

-----------------------------------------------------------------------------
(* Statuses (types.rs).  "New": not yet added.  "Gone": removed. *)
Active == {"Starting", "Downloading", "FetchingMetadata", "Extracting", "Seeding"}
Terminal == {"Completed", "Cancelled"}
Pausable == {"Queued", "Starting", "Downloading", "FetchingMetadata", "Seeding"}
Cancellable ==
  {"Queued", "Starting", "Downloading", "FetchingMetadata", "Paused", "Error"}
Statuses ==
  {"New", "Queued", "Paused", "Error", "ExtractError", "PasswordRequired", "Gone"}
    \cup Active \cup Terminal
Absent == {"New", "Gone"}
PackageStates ==
  {"New", "NotStarted", "Extracting", "Completed", "Error", "PasswordRequired", "Gone"}

(* A worker's last reported phase, then its return and its exit message. *)
Phases == Active \cup {"none", "returned", "exited"}
Results == {"none", "ok", "password", "extract", "error"}
Worker ==
  [job : {"none", "download", "extract"}, phase : Phases, result : Results,
   report : Active \cup {"none"}, cancelled : BOOLEAN, slot : BOOLEAN]

(* Not in the worker table. *)
NoWorker ==
  [job |-> "none", phase |-> "none", result |-> "none",
   report |-> "none", cancelled |-> FALSE, slot |-> FALSE]

VARIABLES
  status,         (* Status of each row in memory.                          *)
  durable,        (* Status of each row in the database.                    *)
  created,        (* The rows in the database by created_at, oldest first.  *)
  pkg,            (* Extraction state of the archive set in memory.         *)
  durablePkg,     (* The same in the database.                              *)
  queue,          (* Rows waiting for a slot.                               *)
  worker,         (* The worker table and the tasks behind it.              *)
  permit,         (* The permit of the Notify `freed`.                      *)
  limit,          (* max_concurrent.                                        *)
  loop,           (* What the loop is doing.                                *)
  target,         (* The row a remove or a recheck waits for.               *)
  stops,          (* The workers that command has still to stop.            *)
  prior,          (* The status the rechecked row had.                      *)
  faults,         (* Database writes that failed so far.                    *)
  restarts        (* Restarts so far.                                       *)

rowVars == <<status, durable, created>>
pkgVars == <<pkg, durablePkg>>
waitVars == <<target, stops, prior>>
boundVars == <<faults, restarts>>
vars == <<rowVars, pkgVars, queue, worker, permit, limit, loop, waitVars, boundVars>>

LoopStates == {"scan", "select", "remove", "recheck", "stop", "off"}

-----------------------------------------------------------------------------
(* Helpers *)

Slots == {w \in WorkerIds : worker[w].slot}
Idle(w) == worker[w].job = "none"
Put(f, S, v) == [x \in DOMAIN f |-> IF x \in S THEN v ELSE f[x]]

(* `commit`: the rows I get status s, in the database and then in memory. *)
Commit(I, s) ==
  /\ status' = Put(status, I, s)
  /\ durable' = Put(durable, I, s)

(* A database write that fails. *)
Fault == faults < MaxFaults /\ faults' = faults + 1

Cancelled(W) ==
  [w \in WorkerIds |-> IF w \in W /\ ~Idle(w)
                       THEN [worker[w] EXCEPT !.cancelled = TRUE] ELSE worker[w]]

(* Mutant: the workers of interrupted rows go on. *)
InterruptQueueOnly(I) ==
  /\ queue' = Retain(queue, Rows \ I)
  /\ UNCHANGED worker

(* `interrupt`: drop the rows I from the queue and cancel their workers. *)
Interrupt(I) ==
  /\ queue' = Retain(queue, Rows \ I)
  /\ worker' = Cancelled(I)

(* `queue.extend` and `push_back`. *)
Enqueue(q) ==
  /\ Len(queue) + Len(q) <= MaxQueue
  /\ queue' = queue \o q

(* `spawn_job`: a row starts as Starting, an extraction as Extracting. *)
Spawned(job) ==
  [NoWorker EXCEPT !.job = job,
                   !.phase = IF job = "download" THEN "Starting" ELSE "Extracting",
                   !.slot = (job = "download")]

(* `command_targets`: the package's row stands for its parts. *)
Targets(id, allowed) ==
  {i \in IF id = Pkg THEN PartSet ELSE {id} : status[i] \in allowed}

(* The targets in the order the command pushes them. *)
InOrder(id, I) == IF id = Pkg THEN Retain(Parts, I) ELSE <<id>>

(* Two unfinished rows for one torrent (`reject_active_duplicate`, `restore`). *)
Unfinished(st) == {i \in Torrent : st[i] \notin Terminal \cup Absent}
Duplicates(i, st) == {j \in Unfinished(st) \ {i} : InfoHash[j] = InfoHash[i]}

(* Mutant: only rows at work count as duplicates. *)
NoWorkingDuplicate(i) == \A j \in Duplicates(i, status) : status[j] \notin Active

(* `reject_active_duplicate` lets row i pass. *)
NoActiveDuplicate(i) == Duplicates(i, status) = {}

-----------------------------------------------------------------------------
(* Commands.  The loop handles one at a time, then scans the queue. *)

Receive(command) ==
  /\ command \in Commands
  /\ loop = "select"
  /\ UNCHANGED <<permit, boundVars>>

(* A command that changes rows, the queue and workers, and waits for nothing. *)
RowCommand(command) ==
  /\ Receive(command)
  /\ loop' = "scan"
  /\ UNCHANGED <<created, pkgVars, limit, waitVars>>

(* `insert`: the new rows are Queued, in one transaction. *)
Insert(q) ==
  /\ \A i \in Entries(q) : status[i] = "New"
  /\ Commit(Entries(q), "Queued")
  /\ created' = created \o q
  /\ Enqueue(q)
  /\ loop' = "scan"
  /\ UNCHANGED <<worker, limit, waitVars>>

(* `add_http` and `add_torrent`.  Ids stand for rows whose paths do not overlap. *)
Add(i) ==
  /\ Receive("Add")
  /\ i \notin PartSet
  /\ i \in Torrent => NoActiveDuplicate(i)
  /\ Insert(<<i>>)
  /\ UNCHANGED pkgVars

(* `add_archive_set`, of a set that is to be extracted. *)
AddArchiveSet ==
  /\ Receive("AddArchiveSet")
  /\ Parts # <<>>
  /\ pkg = "New"
  /\ Insert(Parts)
  /\ pkg' = "NotStarted"
  /\ durablePkg' = "NotStarted"

Pause(id) ==
  LET I == Targets(id, Pausable) IN
  /\ RowCommand("Pause")
  /\ I # {}
  /\ Commit(I, "Paused")
  /\ Interrupt(I)

(* `resume` takes paused and failed rows, `retry` failed ones only. *)
Requeue(id, from) ==
  LET I == Targets(id, from) IN
  /\ I # {}
  /\ Commit(I, "Queued")
  /\ Enqueue(InOrder(id, I))
  /\ UNCHANGED worker

Resume(id) == RowCommand("Resume") /\ Requeue(id, {"Paused", "Error"})

Retry(id) == RowCommand("Retry") /\ Requeue(id, {"Error"})

Extracting(id) == IF id = Pkg THEN pkg = "Extracting" ELSE status[id] = "Extracting"

(* An extraction is cancelled through its worker: the exit decides the status. *)
CancelExtraction(id) ==
  /\ RowCommand("Cancel")
  /\ Extracting(id)
  /\ ~Idle(id)
  /\ worker' = Cancelled({id})
  /\ UNCHANGED <<status, durable, queue>>

Cancel(id) ==
  LET I == Targets(id, Cancellable) IN
  /\ RowCommand("Cancel")
  /\ ~Extracting(id)
  /\ I # {}
  /\ Commit(I, "Cancelled")
  /\ Interrupt(I)

StopSeeding(i) ==
  /\ RowCommand("StopSeeding")
  /\ status[i] = "Seeding"
  /\ Commit({i}, "Completed")
  /\ Interrupt({i})

PauseAll ==
  LET I == {i \in Rows : status[i] \in Pausable} IN
  /\ RowCommand("PauseAll")
  /\ I # {}
  /\ Commit(I, "Paused")
  /\ Interrupt(I)

(* A hash map gives the paused rows in no particular order. *)
ResumeAll ==
  LET I == {i \in Rows : status[i] = "Paused"} IN
  /\ RowCommand("ResumeAll")
  /\ I # {}
  /\ Commit(I, "Queued")
  /\ \E q \in Orderings(I) : Enqueue(q)
  /\ UNCHANGED worker

(* `retry_extract` of a row: the worker needs no slot. *)
RetryExtract(i) ==
  /\ RowCommand("RetryExtract")
  /\ status[i] \in {"ExtractError", "PasswordRequired"}
  /\ Commit({i}, "Extracting")
  /\ worker' = [worker EXCEPT ![i] = Spawned("extract")]
  /\ UNCHANGED queue

(* Mutant: the configuration is not validated. *)
SetAnyConfig(n) ==
  /\ Receive("SetConfig")
  /\ limit' \in {0, n}
  /\ loop' = "scan"
  /\ UNCHANGED <<rowVars, pkgVars, queue, worker, waitVars>>

(* `set_config`, of a configuration that validates. *)
SetConfig(n) ==
  /\ Receive("SetConfig")
  /\ limit' = n
  /\ loop' = "scan"
  /\ UNCHANGED <<rowVars, pkgVars, queue, worker, waitVars>>

-----------------------------------------------------------------------------
(* Extraction of the archive set. *)

(* Mutant: a cancelled part counts as done. *)
PackageReadyWithout(parts) ==
  /\ pkg \notin {"Extracting", "Completed"} \cup Absent
  /\ \A i \in PartSet : parts[i] \in Terminal
  /\ Idle(Pkg)

(* The test of `start_package_extract`. *)
PackageReady(parts) ==
  /\ pkg \notin {"Extracting", "Completed"} \cup Absent
  /\ \A i \in PartSet : parts[i] = "Completed"
  /\ Idle(Pkg)

(* `finish` with status s for part i extracts the set, but not at shutdown. *)
PartsDone(i, s) ==
  i \in PartSet /\ loop # "stop" /\ PackageReady(Put(status, {i}, s))

SetPackage(state) == pkg' = state /\ durablePkg' = state

(* `retry_extract` of the archive set. *)
RetryPackageExtract ==
  /\ Receive("RetryExtract")
  /\ PackageReady(status)
  /\ SetPackage("Extracting")
  /\ worker' = [worker EXCEPT ![Pkg] = Spawned("extract")]
  /\ loop' = "scan"
  /\ UNCHANGED <<rowVars, queue, limit, waitVars>>

-----------------------------------------------------------------------------
(* Commands that wait for workers: `remove`, `force_recheck`.  While they   *)
(* wait the loop handles the messages of workers and nothing else.          *)

Remove(id) ==
  /\ Receive("Remove")
  /\ id \notin PartSet
  /\ IF id = Pkg THEN pkg \notin Absent ELSE status[id] \notin Absent
  /\ loop' = "remove"
  /\ target' = id
  /\ stops' = IF id = Pkg THEN Append(Parts, Pkg) ELSE <<id>>
  /\ UNCHANGED <<rowVars, pkgVars, queue, worker, limit, prior>>

(* The row is Queued and its worker is told to stop, with no await between. *)
ForceRecheck(i) ==
  /\ Receive("ForceRecheck")
  /\ status[i] \in {"Paused", "Completed", "Seeding", "Error"}
  /\ status[i] = "Completed" => NoActiveDuplicate(i)
  /\ Len(queue) < MaxQueue
  /\ Commit({i}, "Queued")
  /\ loop' = "recheck"
  /\ target' = i
  /\ stops' = <<i>>
  /\ prior' = status[i]
  /\ worker' = Cancelled({i})
  /\ UNCHANGED <<created, pkgVars, queue, limit>>

Stopping == loop \in {"remove", "recheck"}

(* `stop_worker` waits for the exit of this worker, which it has cancelled. *)
AwaitsExit ==
  Stopping /\ stops # <<>> /\ ~Idle(Head(stops)) /\ worker[Head(stops)].cancelled

(* The command is over: the loop scans again. *)
EndWait ==
  /\ loop' = "scan"
  /\ target' = Pkg
  /\ stops' = <<>>
  /\ prior' = "New"

StopWorker ==
  /\ Stopping
  /\ stops # <<>>
  /\ \/ /\ Idle(Head(stops))
        /\ stops' = Tail(stops)
        /\ UNCHANGED worker
     \/ /\ ~Idle(Head(stops))
        /\ ~worker[Head(stops)].cancelled
        /\ worker' = Cancelled({Head(stops)})
        /\ UNCHANGED stops
  /\ UNCHANGED <<rowVars, pkgVars, queue, permit, limit, loop, target, prior, boundVars>>

(* Mutant: the row that could not be stopped is not put back. *)
QueueUnchanged == queue

(* A recheck that gives up puts its row back in the queue. *)
QueueAfterTimeout == IF loop = "recheck" THEN Append(queue, target) ELSE queue

(* Ten seconds pass: the command fails. *)
StopTimeout ==
  /\ AwaitsExit
  /\ queue' = QueueAfterTimeout
  /\ EndWait
  /\ UNCHANGED <<rowVars, pkgVars, worker, permit, limit, boundVars>>

(* The rows go, unless their files or the database refuse. *)
RemoveRows ==
  LET I == IF target = Pkg THEN PartSet ELSE {target} IN
  /\ Stopping
  /\ loop = "remove"
  /\ stops = <<>>
  /\ \/ /\ Commit(I, "Gone")
        /\ created' = Retain(created, Rows \ I)
        /\ IF target = Pkg THEN SetPackage("Gone") ELSE UNCHANGED pkgVars
        /\ queue' = Retain(queue, Rows \ I)
     \/ UNCHANGED <<rowVars, pkgVars, queue>>
  /\ EndWait
  /\ UNCHANGED <<worker, permit, limit, boundVars>>

(* Preparing the files of a completed row may fail; so may recording that. *)
Recheck ==
  /\ Stopping
  /\ loop = "recheck"
  /\ stops = <<>>
  /\ \/ /\ queue' = Append(queue, target)
        /\ UNCHANGED <<status, durable, faults>>
     \/ /\ prior = "Completed"
        /\ Commit({target}, "Error")
        /\ UNCHANGED <<queue, faults>>
     \/ /\ prior = "Completed"
        /\ Fault
        /\ UNCHANGED <<status, durable, queue>>
  /\ EndWait
  /\ UNCHANGED <<created, pkgVars, worker, permit, limit, restarts>>

-----------------------------------------------------------------------------
(* The loop between commands. *)

Scanning == loop = "scan"

(* `retain`: only rows that are still Queued stay in the queue. *)
Pruned == Retain(queue, {i \in Rows : status[i] = "Queued"})

(* Mutant: the first row, whatever its last worker is doing. *)
FirstOfAll(q, n) == n = 1

(* The first queued row without a worker: a draining one is waited for. *)
First(q, n) == Idle(q[n]) /\ \A m \in 1..(n - 1) : ~Idle(q[m])

(* Mutant: one slot too many. *)
SlotOrOneMore == Cardinality(Slots) <= limit

SlotFree == Cardinality(Slots) < limit

(* `start_queued` with `start`; `fail` when the status cannot be written. *)
Start ==
  /\ Scanning
  /\ SlotFree
  /\ \E n \in DOMAIN Pruned :
       LET i == Pruned[n] IN
       /\ First(Pruned, n)
       /\ queue' = DropAt(Pruned, n)
       /\ \/ /\ Commit({i}, "Starting")
             /\ worker' = [worker EXCEPT ![i] = Spawned("download")]
             /\ UNCHANGED faults
          \/ /\ Fault
             /\ status' = Put(status, {i}, "Error")
             /\ durable' \in {durable, Put(durable, {i}, "Error")}
             /\ UNCHANGED worker
  /\ UNCHANGED <<created, pkgVars, permit, limit, loop, waitVars, restarts>>

(* No slot is free, or no queued row can start. *)
ScanDone ==
  /\ Scanning
  /\ \/ ~SlotFree /\ UNCHANGED queue
     \/ /\ SlotFree
        /\ \A n \in DOMAIN Pruned : ~Idle(Pruned[n])
        /\ queue' = Pruned
  /\ loop' = "select"
  /\ UNCHANGED <<rowVars, pkgVars, worker, permit, limit, waitVars, boundVars>>

(* `slots.freed.notified()`. *)
Wake ==
  /\ loop = "select"
  /\ permit
  /\ permit' = FALSE
  /\ loop' = "scan"
  /\ UNCHANGED <<rowVars, pkgVars, queue, worker, limit, waitVars, boundVars>>

(* Mutant: nothing is received while a command waits. *)
ReceivingBetweenCommands == loop \in {"select", "stop"}

(* The loop is receiving the messages of workers. *)
Receiving == loop \in {"select", "stop"} \/ AwaitsExit

(***************************************************************************)
(* `exit_status`: what the exit of a worker makes of the status its row    *)
(* has.  After a cancelled worker, a status that a command committed stays.*)
(***************************************************************************)
(* Mutant: whatever was committed, a cancelled worker cancels its row. *)
CancelledAnyway(job, current, shutdown) ==
  IF shutdown /\ job = "download" THEN "Queued" ELSE "Cancelled"

CancelledStatus(job, current, shutdown) ==
  LET requeue == shutdown /\ job = "download" IN
  CASE current \notin Active -> current
    [] current \in Active /\ requeue -> "Queued"
    [] current = "Extracting" /\ ~requeue -> "ExtractError"
    [] current \in Active \ {"Extracting"} /\ ~requeue -> "Cancelled"

FailedStatus(job, result) ==
  CASE result = "password" -> "PasswordRequired"
    [] result # "password" /\ (job = "extract" \/ result = "extract") -> "ExtractError"
    [] OTHER -> "Error"

ExitStatus(job, current, result, cancelled, shutdown) ==
  CASE result = "ok" -> "Completed"
    [] result # "ok" /\ cancelled -> CancelledStatus(job, current, shutdown)
    [] result # "ok" /\ ~cancelled -> FailedStatus(job, result)

(* Mutant: an exit does not make the loop scan the queue. *)
LeavesUnseen(w) ==
  /\ Receiving
  /\ worker[w].phase = "exited"
  /\ UNCHANGED <<loop, created, queue, permit, limit, waitVars, restarts>>

(* `finish`: the worker leaves the table.  Unless it came during a wait, the *)
(* loop scans the queue next.                                               *)
Leaves(w) ==
  /\ Receiving
  /\ worker[w].phase = "exited"
  /\ loop' = IF loop = "select" THEN "scan" ELSE loop
  /\ UNCHANGED <<created, queue, permit, limit, waitVars, restarts>>

(* Mutant: memory shows the status that could not be written. *)
WriteFailsUnseen(i, exit) ==
  Fault /\ status' = Put(status, {i}, exit) /\ UNCHANGED durable

(* The exit status of row i cannot be written: the row says Error. *)
WriteFails(i, exit) ==
  Fault /\ status' = Put(status, {i}, "Error") /\ UNCHANGED durable

(* `finish` for a row whose exit does not complete the archive set. *)
Finish(i) ==
  LET exit == ExitStatus(worker[i].job, status[i], worker[i].result,
                         worker[i].cancelled, loop = "stop")
  IN
  /\ Leaves(i)
  /\ worker' = [worker EXCEPT ![i] = NoWorker]
  /\ \/ Commit({i}, exit) /\ ~PartsDone(i, exit) /\ UNCHANGED faults
     \/ WriteFails(i, exit)
  /\ UNCHANGED pkgVars

(* `finish` for the part that completes the archive set: it is extracted,   *)
(* unless the state of the package cannot be written.                       *)
FinishParts(i) ==
  /\ Leaves(i)
  /\ Commit({i}, "Completed")
  /\ PartsDone(i, ExitStatus(worker[i].job, status[i], worker[i].result,
                             worker[i].cancelled, loop = "stop"))
  /\ \/ /\ SetPackage("Extracting")
        /\ worker' = [worker EXCEPT ![i] = NoWorker, ![Pkg] = Spawned("extract")]
        /\ UNCHANGED faults
     \/ /\ Fault
        /\ worker' = [worker EXCEPT ![i] = NoWorker]
        /\ UNCHANGED pkgVars

(* `finish_package_extract`. *)
FinishPackage ==
  LET exit == CASE worker[Pkg].result = "ok" -> "Completed"
                [] worker[Pkg].result = "password" -> "PasswordRequired"
                [] OTHER -> "Error"
  IN
  /\ Leaves(Pkg)
  /\ worker' = [worker EXCEPT ![Pkg] = NoWorker]
  /\ \/ SetPackage(exit) /\ UNCHANGED faults
     \/ Fault /\ pkg' = "Error" /\ UNCHANGED durablePkg
  /\ UNCHANGED <<status, durable>>

(* `stop`, on Shutdown or when every command sender is gone: the token all  *)
(* workers hang on is cancelled.                                            *)
Shutdown ==
  /\ Receive("Shutdown")
  /\ loop' = "stop"
  /\ worker' = Cancelled(WorkerIds)
  /\ UNCHANGED <<rowVars, pkgVars, queue, limit, waitVars>>

(* All workers have exited, or the ten seconds are over: the rest is aborted. *)
Stopped ==
  /\ loop = "stop"
  /\ loop' = "off"
  /\ worker' = [w \in WorkerIds |-> NoWorker]
  /\ UNCHANGED <<rowVars, pkgVars, queue, permit, limit, waitVars, boundVars>>

-----------------------------------------------------------------------------
(* The task of a worker. *)

Working(w) == worker[w].phase \in Active

(* The phase p can come after the phase a downloading worker is in. *)
Follows(i, p) ==
  LET now == worker[i].phase IN
  \/ p = "FetchingMetadata" /\ i \in Torrent /\ now = "Starting"
  \/ p = "Downloading" /\ now \in {"Starting", "FetchingMetadata"}
  \/ p = "Downloading" /\ now = "Extracting" /\ i \in Torrent /\ ~worker[i].slot
  \/ p = "Extracting" /\ i \in Http \ PartSet /\ now \in {"Starting", "Downloading"}
  \/ p = "Extracting" /\ i \in Torrent /\ worker[i].slot /\ now = "Downloading"
  \/ p = "Seeding" /\ i \in Torrent /\ ~worker[i].slot /\ now \in {"Downloading", "Extracting"}

(* The worker sends its new phase to the tracker.  The channel has room for   *)
(* more than one report; only the last counts here, for the statuses that a   *)
(* tracker shows on its way to it are shown as well when it does not lag.     *)
Report(i, p) ==
  /\ worker[i].job = "download"
  /\ Follows(i, p)
  /\ worker' = [worker EXCEPT ![i].phase = p, ![i].report = p]
  /\ UNCHANGED <<rowVars, pkgVars, queue, permit, limit, loop, waitVars, boundVars>>

(* Mutant: any row takes the reported phase. *)
TrackAll(i) ==
  LET p == worker[i].report IN
  /\ p # "none"
  /\ worker' = [worker EXCEPT ![i].report = "none"]
  /\ status' = Put(status, {i}, p)
  /\ UNCHANGED <<durable, created, pkgVars, queue, permit, limit, loop, waitVars, boundVars>>

(* `track_progress`: a row moves between active statuses only. *)
Track(i) ==
  LET p == worker[i].report IN
  /\ p # "none"
  /\ worker' = [worker EXCEPT ![i].report = "none"]
  /\ status' = IF status[i] \in Active THEN Put(status, {i}, p) ELSE status
  /\ UNCHANGED <<durable, created, pkgVars, queue, permit, limit, loop, waitVars, boundVars>>

(* Mutant: the loop is not told. *)
FreedSilently(w) == UNCHANGED permit

(* `drop` of an ActiveSlot: the permit wakes the loop. *)
Freed(w) == permit' = (permit \/ worker[w].slot)

(* A torrent gives its slot back before it seeds. *)
DropSlot(i) ==
  /\ i \in Torrent
  /\ worker[i].phase \in {"Downloading", "Extracting"}
  /\ worker[i].slot
  /\ worker' = [worker EXCEPT ![i].slot = FALSE]
  /\ Freed(i)
  /\ UNCHANGED <<rowVars, pkgVars, queue, limit, loop, waitVars, boundVars>>

(* The results a worker can have in its phase. *)
Outcome(w, result) ==
  \/ worker[w].job = "extract"
  \/ worker[w].job = "download" /\ result = "error"
  \/ worker[w].job = "download" /\ result = "ok" /\ (w \in Torrent => ~worker[w].slot)
  \/ /\ worker[w].job = "download"
     /\ result \in {"password", "extract"}
     /\ w \in Http \ PartSet \/ (w \in Torrent /\ worker[w].slot
                                 /\ worker[w].phase \in {"Downloading", "Extracting"})

(* The work is over and the slot is dropped.  An HTTP worker's tracker is    *)
(* done before that, a torrent's may still hold a report.                    *)
Return(w, result) ==
  /\ Working(w)
  /\ Outcome(w, result)
  /\ w \in Torrent \/ worker[w].report = "none"
  /\ worker' = [worker EXCEPT ![w].phase = "returned", ![w].result = result,
                              ![w].slot = FALSE]
  /\ Freed(w)
  /\ UNCHANGED <<rowVars, pkgVars, queue, limit, loop, waitVars, boundVars>>

(* Mutant: a cancelled task just ends. *)
SendExitUnlessCancelled(w) ==
  /\ worker[w].phase = "returned"
  /\ worker[w].report = "none"
  /\ ~worker[w].cancelled
  /\ worker' = [worker EXCEPT ![w].phase = "exited"]
  /\ UNCHANGED <<rowVars, pkgVars, queue, permit, limit, loop, waitVars, boundVars>>

(* The task sends Internal::Exit, its last step. *)
SendExit(w) ==
  /\ worker[w].phase = "returned"
  /\ worker[w].report = "none"
  /\ worker' = [worker EXCEPT ![w].phase = "exited"]
  /\ UNCHANGED <<rowVars, pkgVars, queue, permit, limit, loop, waitVars, boundVars>>

-----------------------------------------------------------------------------
(* Start-up. *)

Requeued == {"Queued", "Starting", "Downloading", "FetchingMetadata", "Seeding"}

(* `restore` turns away a database with two unfinished rows of one torrent. *)
RestoreAccepts == \A i \in Unfinished(durable) : Duplicates(i, durable) = {}

RestoredPackage(s) == IF s = "Extracting" THEN "Error" ELSE s

RestoredStatus(s) ==
  CASE s \in Requeued -> "Queued"
    [] s = "Extracting" -> "ExtractError"
    [] s \notin Requeued \cup {"Extracting"} -> s

(* The process is killed, or has stopped, and starts again: `restore`. *)
Restart ==
  /\ restarts < MaxRestarts
  /\ restarts' = restarts + 1
  /\ RestoreAccepts
  /\ status' = [i \in Rows |-> RestoredStatus(durable[i])]
  /\ durable' = Put(durable, {i \in Rows : durable[i] = "Extracting"}, "ExtractError")
  /\ queue' = Retain(created, {i \in Rows : durable[i] \in Requeued})
  /\ SetPackage(RestoredPackage(durablePkg))
  /\ worker' = [w \in WorkerIds |-> NoWorker]
  /\ permit' = FALSE
  /\ EndWait
  /\ UNCHANGED <<created, limit, faults>>

Init ==
  /\ status = [i \in Rows |-> "New"]
  /\ durable = status
  /\ created = <<>>
  /\ pkg = "New"
  /\ durablePkg = "New"
  /\ queue = <<>>
  /\ worker = [w \in WorkerIds |-> NoWorker]
  /\ permit = FALSE
  /\ limit = MaxConcurrent
  /\ loop = "scan"
  /\ target = Pkg
  /\ stops = <<>>
  /\ prior = "New"
  /\ faults = 0
  /\ restarts = 0

Command ==
  \/ \E i \in Rows : Add(i) \/ StopSeeding(i) \/ RetryExtract(i)
  \/ \E i \in Torrent : ForceRecheck(i)
  \/ \E id \in WorkerIds : \/ Pause(id) \/ Resume(id) \/ Retry(id)
                           \/ Cancel(id) \/ CancelExtraction(id) \/ Remove(id)
  \/ AddArchiveSet \/ RetryPackageExtract
  \/ PauseAll \/ ResumeAll
  \/ \E n \in 1..MaxConcurrent : SetConfig(n)
  \/ Shutdown

Loop ==
  \/ Start \/ ScanDone \/ Wake
  \/ \E i \in Rows : Finish(i) \/ FinishParts(i)
  \/ FinishPackage
  \/ StopWorker \/ StopTimeout \/ RemoveRows \/ Recheck \/ Stopped

Task ==
  \/ \E i \in Rows : \/ \E p \in Active : Report(i, p)
                     \/ Track(i) \/ DropSlot(i)
  \/ \E w \in WorkerIds : \/ \E result \in Results \ {"none"} : Return(w, result)
                          \/ SendExit(w)

Next == Command \/ Loop \/ Task \/ Restart

Spec == Init /\ [][Next]_vars

(***************************************************************************)
(* The runtime keeps running every task, and `select!` picks at random     *)
(* among its ready branches, so a message or a permit that waits is taken  *)
(* in the end, however many commands arrive (strong fairness: the branches *)
(* are not ready while the loop scans).  Transfers and extractions are     *)
(* assumed to end; a torrent only has to end when it is cancelled.  Users, *)
(* timeouts, faults and restarts are owed nothing.                         *)
(***************************************************************************)
Ends(w) ==
  /\ w \notin Torrent \/ worker[w].cancelled
  /\ \E result \in Results \ {"none"} : Return(w, result)

Fairness ==
  /\ WF_vars(Start \/ ScanDone \/ StopWorker \/ RemoveRows \/ Recheck \/ Stopped)
  /\ SF_vars(Wake)
  /\ SF_vars(FinishPackage)
  /\ \A i \in Rows : SF_vars(Finish(i) \/ FinishParts(i)) /\ WF_vars(Track(i))
  /\ \A w \in WorkerIds : WF_vars(Ends(w)) /\ WF_vars(SendExit(w))

FairSpec == Spec /\ Fairness

-----------------------------------------------------------------------------
(* Properties. *)

(* The engine has not been shut down: its rows and workers are in use. *)
Running == loop # "off"

TypeOK ==
  /\ status \in [Rows -> Statuses]
  /\ durable \in [Rows -> Statuses]
  /\ created \in Seq(Rows)
  /\ pkg \in PackageStates
  /\ durablePkg \in PackageStates
  /\ queue \in Seq(Rows)
  /\ worker \in [WorkerIds -> Worker]
  /\ permit \in BOOLEAN
  /\ limit \in 1..MaxConcurrent
  /\ loop \in LoopStates
  /\ target \in WorkerIds
  /\ loop = "recheck" => target \in Rows
  /\ stops \in Seq(WorkerIds)
  /\ prior \in Statuses
  /\ faults \in 0..MaxFaults
  /\ restarts \in 0..MaxRestarts

(***************************************************************************)
(* The worker table and the rows tell one story.  An active row has a      *)
(* worker, so that some exit will end its activity; a worker nobody has    *)
(* cancelled works for an active row; and a row that is gone, or whose     *)
(* extraction failed (RetryExtract would spawn over it), has no worker.    *)
(***************************************************************************)
WorkersMatchRows ==
  Running =>
    /\ \A i \in Rows :
         /\ status[i] \in Active => ~Idle(i)
         /\ ~Idle(i) => \/ status[i] \in Active
                        \/ /\ worker[i].cancelled
                           /\ status[i] \in {"Queued", "Paused"} \cup Terminal
    /\ pkg = "Extracting" <=> ~Idle(Pkg)

(***************************************************************************)
(* No row is forgotten: while it is Queued it stands in the queue, whatever*)
(* interrupts, removals, scans and draining workers did to the queue,      *)
(* except during the recheck that will push it and during shutdown, when   *)
(* exits put rows back to Queued for the next start.                       *)
(***************************************************************************)
QueuedRowsWait ==
  loop \notin {"stop", "off"} => \A i \in Rows : status[i] = "Queued" =>
               i \in Entries(queue) \/ (loop = "recheck" /\ target = i)

(***************************************************************************)
(* The loop never sleeps on work it could start: when it waits, and a      *)
(* slot is free for a queued row whose last worker is gone, the permit     *)
(* that will wake it is there.                                             *)
(***************************************************************************)
NoLostWakeup ==
  loop = "select" /\ ~permit /\ Cardinality(Slots) < limit =>
    \A i \in Entries(queue) : status[i] = "Queued" => ~Idle(i)

(***************************************************************************)
(* max_concurrent holds at every moment, also while cancelled workers      *)
(* drain and seeding torrents, extractions and exited workers hold none.   *)
(***************************************************************************)
SlotsBounded == Cardinality(Slots) <= MaxConcurrent

(***************************************************************************)
(* What a crash now would make of a row is what the user was told: settled *)
(* rows keep their status, waiting and working rows are queued again, and  *)
(* an extraction becomes an extraction error.  The only row that differs   *)
(* from its record is one that says Error because a write failed.  This is *)
(* what makes a crash a step of Lifecycle.                                 *)
(***************************************************************************)
CrashLosesNothing ==
  Running => \A i \in Rows :
    \/ faults > 0 /\ status[i] = "Error"
    \/ RestoredStatus(durable[i]) =
         IF status[i] \notin Active THEN status[i]
         ELSE IF worker[i].job = "extract" THEN "ExtractError" ELSE "Queued"

(***************************************************************************)
(* The archive set is extracted only while every part stays Completed, by  *)
(* one extraction at a time, and not once it was extracted.                *)
(***************************************************************************)
ExtractionHasAllParts ==
  ~Idle(Pkg) => \A i \in PartSet : status[i] = "Completed" /\ Idle(i)

(* A row turns active only with a fresh worker: no late report of a worker *)
(* that was paused, cancelled or is draining brings its row back.  A step  *)
(* of Lifecycle that starts a task says the same of the life of a row.     *)
NoRevival ==
  [][\A i \in Rows : status[i] \notin Active /\ status'[i] \in Active
                       => Idle(i) /\ ~Idle(i)']_vars

(* A worker leaves the table before the next one of its row enters it, and *)
(* its cancellation is never undone.                                       *)
OneWorkerAtATime ==
  [][\A w \in WorkerIds : ~Idle(w) /\ ~Idle(w)' =>
       /\ worker'[w].job = worker[w].job
       /\ worker[w].cancelled => worker'[w].cancelled
       /\ worker[w].slot \/ ~worker'[w].slot]_vars

(* The exit of a worker that did not finish never overrides what a command *)
(* committed meanwhile (pause, cancel, stop seeding, resume, recheck).     *)
CommandsOutlastExits ==
  [][\A i \in Rows :
       /\ worker[i].phase = "exited" /\ worker[i].result # "ok"
       /\ Idle(i)' /\ restarts' = restarts /\ faults' = faults
       /\ status[i] \notin Active
       => status'[i] = status[i]]_vars

(* A queued row gets its turn, unless the engine is shut down first: a slot *)
(* that is freed, a worker that drains or commands that keep the loop busy  *)
(* never leave it waiting for good.                                         *)
QueuedRowsStart ==
  \A i \in Rows : status[i] = "Queued" ~> status[i] # "Queued" \/ loop \in {"stop", "off"}

(* A remove or a recheck ends without its timeout: while the loop waits for *)
(* a worker, it still takes the exit it waits for.                          *)
WaitsEnd == loop \in {"remove", "recheck"} ~> loop \notin {"remove", "recheck"}

(* Every worker that is told to stop leaves the table. *)
CancelledWorkersLeave == \A w \in WorkerIds : worker[w].cancelled ~> Idle(w)

(* An archive set whose parts are all Completed is extracted: "unpack ZIP,  *)
(* 7z and RAR files when they finish", says the setting.                    *)
FinishedSetIsExtracted ==
  pkg = "NotStarted" /\ loop \notin {"stop", "off"} /\ (\A i \in PartSet : status[i] = "Completed")
    ~> pkg # "NotStarted" \/ loop \in {"stop", "off"}

(* The status of row i to its user: the phases of a task are one, and once  *)
(* the engine is off the database has it.                                   *)
Life(i) ==
  IF ~Running THEN RestoredStatus(durable[i])
  ELSE IF status[i] \notin Active THEN status[i]
  ELSE IF worker[i].job = "extract" THEN "Unpacking" ELSE "Working"

LifeOfSet == IF Running THEN pkg ELSE RestoredPackage(durablePkg)

(***************************************************************************)
(* What the engine is to its user (engine.rs, Engine): rows whose status   *)
(* each command changes at once and that only a task of their own changes  *)
(* otherwise; a crash at any moment makes of each what it should, for the  *)
(* database, the queue, late reports and exits, and commands that wait for *)
(* workers are never seen.                                                 *)
(***************************************************************************)
Lives == INSTANCE Lifecycle
  WITH life <- [i \in Rows |-> Life(i)], set <- LifeOfSet, Parts <- PartSet,
       busy <- {i \in Rows : ~Idle(i)}, closing <- loop \in {"stop", "off"},
       unsaved <- faults > 0
ImplementsLifecycle == Lives!Spec
=============================================================================
