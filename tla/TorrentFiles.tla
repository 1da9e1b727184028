--------------------------- MODULE TorrentFiles ---------------------------
(***************************************************************************)
(* The files of one torrent row (torrent.rs, torrent/staging.rs): its      *)
(* worker stages the payload in a directory that an owner file marks as    *)
(* its own, publishes the files one by one at their destinations, records  *)
(* that in a second marker, unpacks them and seeds from the staging.       *)
(* Around it act the engine's commands (engine.rs), the detached task that *)
(* cleans up after a stopped seed, a user who writes into the same folder, *)
(* and crashes at any moment.                                              *)
(*                                                                         *)
(* Row statuses are reduced: "Downloading" is also Starting and            *)
(* FetchingMetadata, "ExtractError" also PasswordRequired.  Reports reach  *)
(* the row at once (Engine has the late ones); the librqbit session only   *)
(* fetches (TorrentSession has its entries); metadata is known; a removal  *)
(* of files is one step (DeleteJournal has its steps).  "Mutant" marks a   *)
(* bug that the run must notice.                                           *)
(***************************************************************************)
EXTENDS Naturals, Sequences, FiniteSets

CONSTANTS
  Payload,        (* The selected files, in order.                          *)
  MaxFailures,    (* Bound: I/O, torrent and extraction failures.           *)
  MaxForeign,     (* Bound: files users put where a payload file will go.   *)
  MaxRestarts     (* Bound: times the process is killed.                    *)

FileSet == {Payload[n] : n \in DOMAIN Payload}

Active == {"Downloading", "Extracting", "Seeding"}
Statuses ==
  {"Queued", "Paused", "Error", "ExtractError", "Completed", "Cancelled", "Gone"} \cup Active

(* Where the worker stands in `run`. *)
Steps ==
  {"idle", "root", "owner", "check", "handle", "download", "publish", "ready",
   "extract", "retry", "seed", "clean", "exited"}
Results == {"none", "ok", "cancelled", "error", "extract"}
NoWorker ==
  [job |-> "download", pc |-> "idle", was |-> FALSE, next |-> 1, published |-> {},
   cancelled |-> FALSE, result |-> "none"]

(* The staging directory; a "bare" one has no owner file.  Of `files`, the  *)
(* `whole` ones hold the complete data.                                     *)
NoStaging == [root |-> "none", marker |-> FALSE, files |-> {}, whole |-> {}]

(* What is at a destination: nothing, a file of the user, the staged file   *)
(* itself ("same", a hard link), a payload file of its own inode, or        *)
(* nothing again, because it was unpacked and then deleted.                 *)
Ours == {"same", "own", "unpacked"}
Free == {"none", "unpacked"}

VARIABLES
  status,         (* Status of the row.                                     *)
  worker,         (* Its worker task.                                       *)
  staging,        (* Its staging directory.                                 *)
  place,          (* Its destinations.                                      *)
  unpack,         (* Whether the payload was unpacked: "due", "done", or    *)
                  (* not an archive that can be ("none").                   *)
  cleaning,       (* The detached task of `forget_torrent` has to clean up. *)
  op,             (* The command that waits for the worker.                 *)
  links,          (* The file system has hard links.                        *)
  neverSeed,      (* The seed policy is NeverSeed.                          *)
  failures, foreign, restarts

fileVars == <<staging, place, unpack>>
fixedVars == <<links, neverSeed>>
boundVars == <<failures, foreign, restarts>>
vars == <<status, worker, fileVars, cleaning, op, fixedVars, boundVars>>

Ops == {"none", "recheck", "recheckCompleted", "prepare", "remove", "removeFiles"}

-----------------------------------------------------------------------------
(* Helpers *)

Idle == worker.pc = "idle"
At(pc) == worker.pc = pc
Goto(pc) == worker' = [worker EXCEPT !.pc = pc]
Ends(result) ==
  worker' = [NoWorker EXCEPT !.job = worker.job, !.pc = "exited", !.result = result,
                             !.cancelled = worker.cancelled]
Fail == Ends("error")

Failure == failures < MaxFailures /\ failures' = failures + 1
NoFailure == UNCHANGED failures

(* A file that is no longer in the staging directory is not the same any more. *)
Unlinked(p, F) == [f \in FileSet |-> IF p[f] = "same" /\ f \notin F THEN "own" ELSE p[f]]

(* `cleanup_staging` of a directory it owns; a bare one is an error.  It is *)
(* one step here: Torn has what a crash leaves of it.                       *)
CleanupStaging ==
  IF staging.root = "owned"
  THEN staging' = NoStaging /\ place' = Unlinked(place, {})
  ELSE UNCHANGED <<staging, place>>

Work == UNCHANGED <<cleaning, op, fixedVars, foreign, restarts>>

-----------------------------------------------------------------------------
(* The worker, up to publication. *)

(* `ensure_owned_staging`: a directory without an owner file is refused. *)
CreateRoot ==
  /\ At("root")
  /\ \/ /\ staging.root = "none"
        /\ staging' = [staging EXCEPT !.root = "bare"]
        /\ Goto("owner")
     \/ staging.root = "owned" /\ Goto("check") /\ UNCHANGED staging
     \/ staging.root = "bare" /\ Fail /\ UNCHANGED staging
  /\ Work /\ NoFailure
  /\ UNCHANGED <<status, place, unpack>>

(* The owner file; without it the new directory is removed again. *)
WriteOwner ==
  /\ At("owner")
  /\ \/ /\ staging' = [staging EXCEPT !.root = "owned"]
        /\ Goto("check")
        /\ NoFailure
     \/ /\ Failure
        /\ staging' = NoStaging
        /\ Fail
  /\ Work
  /\ UNCHANGED <<status, place, unpack>>

(* `check_destinations`: only the staged file itself may be there.  Whether  *)
(* the payload was published is asked here, once.                            *)
CheckDestinations ==
  /\ At("check")
  /\ IF staging.marker \/ \A f \in FileSet : place[f] \in Free \cup {"same"}
     THEN worker' = [worker EXCEPT !.pc = "handle", !.was = staging.marker]
     ELSE Fail
  /\ Work /\ NoFailure
  /\ UNCHANGED <<status, fileVars>>

(* `handle`: librqbit creates the files that are missing, and the directory  *)
(* when the detached task has just removed it.                               *)
GetHandle ==
  /\ At("handle")
  /\ \/ /\ staging' = [staging EXCEPT !.files = FileSet,
                                     !.root = IF @ = "none" THEN "bare" ELSE @]
        /\ Goto("download") \/ (worker.cancelled /\ Ends("cancelled"))
        /\ NoFailure
     \/ worker.cancelled /\ Ends("cancelled") /\ UNCHANGED staging /\ NoFailure
     \/ Failure /\ Fail /\ UNCHANGED staging
  /\ Work
  /\ UNCHANGED <<status, place, unpack>>

(* A tick of `download_phase`.  Assumed: a detached task, bounded by         *)
(* SESSION_OP_TIMEOUT and by the removal of a directory, is over before the  *)
(* next worker of its row has downloaded everything anew.                    *)
DownloadTick ==
  /\ At("download")
  /\ \/ /\ staging.whole = FileSet
        /\ worker.was \/ ~cleaning
        /\ Goto(IF worker.was THEN "seed" ELSE "publish")
        /\ NoFailure
     \/ Failure /\ Fail
  /\ Work
  /\ UNCHANGED <<status, fileVars>>

(* A worker that sleeps or extracts notices that it was cancelled. *)
Interrupted ==
  /\ worker.cancelled
  /\ worker.pc \in {"download", "extract", "retry", "seed"}
  /\ Ends("cancelled")
  /\ Work /\ NoFailure
  /\ UNCHANGED <<status, fileVars>>

-----------------------------------------------------------------------------
(* Publication (`publish_payload`). *)

Undone == {p.file : p \in worker.published}
MovedBack == {p.file : p \in {q \in worker.published : q.moved}}
Emptied(F) == [f \in FileSet |-> IF f \in F THEN "none" ELSE place[f]]

(* Mutant: rolling back removes the files it moved. *)
RollbackByRemoval ==
  place' = Emptied(Undone) /\ UNCHANGED staging

(* Mutant: rolling back removes whatever is at the destinations. *)
RollbackOfAll ==
  /\ staging' = [staging EXCEPT !.files = @ \cup MovedBack, !.whole = @ \cup MovedBack]
  /\ place' = Emptied(FileSet)

(* The files this run published are taken back: moved ones go back into the  *)
(* staging directory, links and copies are removed.                          *)
Rollback ==
  /\ staging' = [staging EXCEPT !.files = @ \cup MovedBack, !.whole = @ \cup MovedBack]
  /\ place' = Emptied(Undone)

(* `publish_file_no_clobber`: a link, else a move if nothing will seed, else a copy. *)
Publish(f) ==
  \E moved \in {FALSE, ~links /\ neverSeed} :
    /\ place' = [place EXCEPT ![f] = IF links THEN "same" ELSE "own"]
    /\ worker' = [worker EXCEPT !.next = @ + 1, !.published = @ \cup {[file |-> f, moved |-> moved]}]
    /\ staging' = IF moved THEN [staging EXCEPT !.files = @ \ {f}, !.whole = @ \ {f}] ELSE staging

PublishFile ==
  /\ At("publish")
  /\ worker.next \in DOMAIN Payload
  /\ LET f == Payload[worker.next] IN
     \/ /\ place[f] = "same"
        /\ worker' = [worker EXCEPT !.next = @ + 1]
        /\ NoFailure
        /\ UNCHANGED <<staging, place>>
     \/ place[f] \in Free /\ f \in staging.files /\ Publish(f) /\ NoFailure
     \/ /\ place[f] \in {"foreign", "own"} \/ f \notin staging.files
        /\ Rollback /\ Fail /\ NoFailure
     \/ place[f] # "same" /\ Failure /\ Rollback /\ Fail
  /\ Work
  /\ UNCHANGED <<status, unpack>>

(* Mutant: the marker is written before the last file. *)
AllButOnePublished == worker.next >= Len(Payload)

(* The marker comes after the last file. *)
AllPublished == worker.next > Len(Payload)

WriteMarker ==
  /\ At("publish")
  /\ AllPublished
  /\ \/ /\ staging' = [staging EXCEPT !.marker = TRUE]
        /\ worker' = [worker EXCEPT !.pc = "ready", !.next = 1, !.published = {}]
        /\ NoFailure
        /\ UNCHANGED place
     \/ Failure /\ Rollback /\ Fail
  /\ Work
  /\ UNCHANGED <<status, unpack>>

-----------------------------------------------------------------------------
(* Extraction and seeding. *)

(* Mutant: whether the payload was published is asked when it already is. *)
ExtractsUnlessMarked == ~staging.marker

(* Only a worker that did not find the payload published unpacks it. *)
Extracts == ~worker.was

(* `auto_extract`: is there one archive set, whole and without a password? *)
CheckReadiness ==
  /\ At("ready")
  /\ \/ ~Extracts /\ Goto("seed") /\ UNCHANGED <<status, unpack>>
     \/ /\ Extracts
        /\ Goto("seed")
        /\ unpack' = "none"
        /\ UNCHANGED status
     \/ /\ Extracts
        /\ Goto("extract")
        /\ status' = IF status \in Active THEN "Extracting" ELSE status
        /\ UNCHANGED unpack
     \/ Extracts /\ Ends("extract") /\ UNCHANGED <<status, unpack>>
  /\ Work /\ NoFailure
  /\ UNCHANGED <<staging, place>>

(* `run_extract`, which may delete the archives it unpacked; also as the job *)
(* that `retry_extract` starts.                                              *)
Extract ==
  /\ \/ /\ (At("extract") /\ Goto("seed")) \/ (At("retry") /\ Ends("ok"))
        /\ unpack' = "done"
        /\ place' \in {place, [f \in FileSet |-> "unpacked"]}
        /\ NoFailure
     \/ /\ worker.pc \in {"extract", "retry"}
        /\ Failure /\ Ends("extract")
        /\ UNCHANGED <<place, unpack>>
  /\ Work
  /\ UNCHANGED <<status, staging>>

(* A tick of `seed`: the policy may stop it, NeverSeed does at once. *)
SeedTick ==
  /\ At("seed")
  /\ \/ Goto("clean") /\ UNCHANGED status /\ NoFailure
     \/ /\ ~neverSeed
        /\ status' = IF status \in Active THEN "Seeding" ELSE status
        /\ UNCHANGED worker /\ NoFailure
     \/ Failure /\ Fail /\ UNCHANGED status
  /\ Work
  /\ UNCHANGED fileVars

(* `leave_session`; a failure there does not fail the download. *)
Leave ==
  /\ At("clean")
  /\ Ends("ok")
  /\ (CleanupStaging /\ NoFailure) \/ (Failure /\ UNCHANGED <<staging, place>>)
  /\ Work
  /\ UNCHANGED <<status, unpack>>

-----------------------------------------------------------------------------
(* Peers, and users of the file system. *)

Fetch ==
  /\ At("download")
  /\ staging.files = FileSet /\ staging.whole # FileSet
  /\ staging' = [staging EXCEPT !.whole = FileSet]
  /\ UNCHANGED <<status, worker, place, unpack, cleaning, op, fixedVars, boundVars>>

(* Not in the place of an archive that was unpacked and deleted: nothing     *)
(* tells such a file from the archive.                                       *)
Intrude(f) ==
  /\ foreign < MaxForeign
  /\ foreign' = foreign + 1
  /\ place[f] = "none"
  /\ place' = [place EXCEPT ![f] = "foreign"]
  /\ UNCHANGED <<status, worker, staging, unpack, cleaning, op, fixedVars, failures, restarts>>

-----------------------------------------------------------------------------
(* The engine. *)

Engine == UNCHANGED <<fixedVars, foreign, restarts>>
CancelWorker == worker' = IF Idle THEN worker ELSE [worker EXCEPT !.cancelled = TRUE]

(* A command that waits for nothing. *)
Command ==
  /\ op = "none"
  /\ Engine /\ NoFailure
  /\ UNCHANGED <<fileVars, cleaning, op>>

Start ==
  /\ status = "Queued" /\ Idle
  /\ status' = "Downloading"
  /\ worker' = [NoWorker EXCEPT !.pc = "root"]
  /\ Command

Pause ==
  /\ status \in {"Queued", "Downloading", "Seeding"}
  /\ status' = "Paused"
  /\ CancelWorker
  /\ Command

Resume ==
  /\ status \in {"Paused", "Error"}
  /\ status' = "Queued"
  /\ UNCHANGED worker
  /\ Command

(* An extraction is cancelled through its worker. *)
Cancel ==
  /\ status \in {"Queued", "Downloading", "Paused", "Error", "Extracting"}
  /\ status' = IF status = "Extracting" THEN status ELSE "Cancelled"
  /\ CancelWorker
  /\ Command

StopSeeding ==
  /\ status = "Seeding"
  /\ status' = "Completed"
  /\ CancelWorker
  /\ Command

(* `retry_extract` *)
RetryExtract ==
  /\ status = "ExtractError" /\ Idle
  /\ status' = "Extracting"
  /\ worker' = [NoWorker EXCEPT !.job = "extract", !.pc = "retry"]
  /\ Command

(* `exit_status` *)
ExitStatus ==
  CASE worker.result = "ok" -> "Completed"
    [] worker.result # "ok" /\ worker.cancelled /\ status = "Extracting" -> "ExtractError"
    [] worker.result # "ok" /\ worker.cancelled /\ status \in Active \ {"Extracting"} -> "Cancelled"
    [] worker.result # "ok" /\ worker.cancelled /\ status \notin Active -> status
    [] worker.result = "extract" /\ ~worker.cancelled -> "ExtractError"
    [] worker.result \in {"error", "cancelled"} /\ ~worker.cancelled -> "Error"

(* `forget_torrent` cleans up after a row that is done. *)
CleansUp(s) == s = "Completed"

(* `finish`, also while a command waits. *)
Finish ==
  /\ At("exited")
  /\ worker' = NoWorker
  /\ status' = ExitStatus
  /\ cleaning' = (cleaning \/ (worker.cancelled /\ CleansUp(status')))
  /\ Engine /\ NoFailure
  /\ UNCHANGED <<fileVars, op>>

(* The detached task.  Its `stop_torrent_in_session` may fail. *)
CleanUp ==
  /\ cleaning
  /\ cleaning' = FALSE
  /\ (CleanupStaging /\ NoFailure) \/ (Failure /\ UNCHANGED <<staging, place>>)
  /\ Engine
  /\ UNCHANGED <<status, worker, unpack, op>>

(* `force_recheck`: Queued first; the loop then waits for the worker. *)
ForceRecheck ==
  /\ op = "none"
  /\ status \in {"Paused", "Completed", "Seeding", "Error"}
  /\ status' = "Queued"
  /\ CancelWorker
  /\ op' = IF status = "Completed" THEN "recheckCompleted" ELSE "recheck"
  /\ Engine /\ NoFailure
  /\ UNCHANGED <<fileVars, cleaning>>

Rechecked ==
  /\ op \in {"recheck", "recheckCompleted"} /\ Idle
  /\ op' = IF op = "recheckCompleted" THEN "prepare" ELSE "none"
  /\ Engine /\ NoFailure
  /\ UNCHANGED <<status, worker, fileVars, cleaning>>

Linkable == {f \in FileSet : place[f] \in {"same", "own"}}

(* Every published file is there, and can be linked. *)
CanLink == links /\ Linkable = FileSet

(* `prepare_completed_recheck`: a staging directory made of links, published. *)
PrepareRecheck ==
  /\ op = "prepare"
  /\ op' = "none"
  /\ \/ /\ staging.root = "owned"
        /\ UNCHANGED <<status, staging, place>> /\ NoFailure
     \/ /\ staging.root = "none" /\ CanLink
        /\ staging' = [root |-> "owned", marker |-> TRUE, files |-> Linkable, whole |-> Linkable]
        /\ place' = [f \in FileSet |-> IF f \in Linkable THEN "same" ELSE place[f]]
        /\ UNCHANGED status /\ NoFailure
     \/ /\ \/ staging.root = "bare" /\ NoFailure
           \/ staging.root = "none" /\ ~CanLink /\ NoFailure
           \/ staging.root = "none" /\ Failure
        /\ status' = "Error"
        /\ UNCHANGED <<staging, place>>
  /\ Engine
  /\ UNCHANGED <<worker, unpack, cleaning>>

Remove(files) ==
  /\ op = "none"
  /\ status # "Gone"
  /\ CancelWorker
  /\ op' = IF files THEN "removeFiles" ELSE "remove"
  /\ Engine /\ NoFailure
  /\ UNCHANGED <<status, fileVars, cleaning>>

(* `published_files` *)
IsPublished == IF staging.root = "owned" THEN staging.marker ELSE status = "Completed"

(* The row goes, with its staging, and with its files when that was asked    *)
(* and they are published.                                                   *)
Removed ==
  /\ op \in {"remove", "removeFiles"} /\ Idle
  /\ op' = "none"
  /\ \/ /\ op = "removeFiles" => staging.root # "bare"
        /\ status' = "Gone"
        /\ staging' = IF staging.root = "bare" THEN staging ELSE NoStaging
        /\ place' = IF op = "removeFiles" /\ IsPublished THEN [f \in FileSet |-> "none"]
                    ELSE Unlinked(place, {})
        /\ NoFailure
     \/ /\ (op = "removeFiles" /\ staging.root = "bare" /\ NoFailure) \/ Failure
        /\ UNCHANGED <<status, staging, place>>
  /\ Engine
  /\ UNCHANGED <<worker, unpack, cleaning>>

-----------------------------------------------------------------------------
(* A crash, and the next start. *)

(* What is left of a staging directory when its removal or its preparation   *)
(* is cut off.                                                               *)
Torn ==
  {staging} \cup
  (IF (At("clean") \/ cleaning) /\ staging.root = "owned"
   THEN {NoStaging} \cup
        {[root |-> b, marker |-> m, files |-> F, whole |-> F] : b \in {"bare", "owned"},
           m \in {FALSE, staging.marker}, F \in SUBSET staging.whole}
   ELSE {}) \cup
  (IF op = "prepare" /\ staging.root = "none"
   THEN {[root |-> b, marker |-> FALSE, files |-> F, whole |-> F] : b \in {"bare", "owned"},
           F \in SUBSET {f \in Linkable : links}}
   ELSE {})

(* The database learns an active status from the command that starts a task  *)
(* only (`track_progress` does not write the ones that workers report): it   *)
(* takes a row for Extracting that `retry_extract` started, and a download   *)
(* that unpacks or seeds for one that has just started.                      *)
RecordedExtracting == status = "Extracting" /\ worker.job = "extract"

(* `restore`: a row at work is queued again, an extraction was interrupted. *)
Restart ==
  /\ restarts < MaxRestarts
  /\ restarts' = restarts + 1
  /\ status' = IF RecordedExtracting THEN "ExtractError"
               ELSE IF status \in Active THEN "Queued" ELSE status
  /\ staging' \in Torn
  /\ place' = [f \in FileSet |->
       IF op = "prepare" /\ staging' # staging /\ f \in staging'.files THEN "same"
       ELSE Unlinked(place, staging'.files)[f]]
  /\ worker' = NoWorker
  /\ cleaning' = FALSE
  /\ op' = "none"
  /\ UNCHANGED <<unpack, fixedVars, failures, foreign>>

Init ==
  /\ status = "Queued"
  /\ worker = NoWorker
  /\ staging = NoStaging
  /\ place = [f \in FileSet |-> "none"]
  /\ unpack = "due"
  /\ cleaning = FALSE
  /\ op = "none"
  /\ links \in BOOLEAN
  /\ neverSeed \in BOOLEAN
  /\ failures = 0 /\ foreign = 0 /\ restarts = 0

WorkerStep ==
  \/ CreateRoot \/ WriteOwner \/ CheckDestinations \/ GetHandle \/ DownloadTick
  \/ Interrupted \/ PublishFile \/ WriteMarker \/ CheckReadiness \/ Extract
  \/ SeedTick \/ Leave

EngineStep ==
  \/ Start \/ Pause \/ Resume \/ Cancel \/ StopSeeding \/ RetryExtract
  \/ Finish \/ CleanUp
  \/ ForceRecheck \/ Rechecked \/ PrepareRecheck
  \/ \E files \in BOOLEAN : Remove(files)
  \/ Removed

Next ==
  \/ WorkerStep
  \/ EngineStep
  \/ Fetch \/ \E f \in FileSet : Intrude(f)
  \/ Restart

Spec == Init /\ [][Next]_vars

-----------------------------------------------------------------------------
(* Properties. *)

Worker ==
  [job : {"download", "extract"}, pc : Steps, was : BOOLEAN, next : 1..Len(Payload) + 1,
   published : SUBSET [file : FileSet, moved : BOOLEAN],
   cancelled : BOOLEAN, result : Results]
Staging ==
  [root : {"none", "bare", "owned"}, marker : BOOLEAN,
   files : SUBSET FileSet, whole : SUBSET FileSet]

TypeOK ==
  /\ status \in Statuses
  /\ worker \in Worker
  /\ staging \in Staging
  /\ place \in [FileSet -> {"none", "foreign"} \cup Ours]
  /\ unpack \in {"due", "done", "none"}
  /\ cleaning \in BOOLEAN
  /\ op \in Ops
  /\ links \in BOOLEAN /\ neverSeed \in BOOLEAN
  /\ failures \in 0..MaxFailures
  /\ foreign \in 0..MaxForeign
  /\ restarts \in 0..MaxRestarts

(***************************************************************************)
(* The marker and the status Completed tell the truth: every selected file *)
(* is at its destination, or was unpacked from there.  A recheck and a     *)
(* removal of files (`published_files`) rely on it.                        *)
(***************************************************************************)
PublishedIsWhole ==
  staging.marker \/ status = "Completed" => \A f \in FileSet : place[f] \in Ours

(***************************************************************************)
(* Nothing downloaded is lost: a complete file stays in the staging or at  *)
(* its destination through publication, its rollback, rechecks, cleaning   *)
(* and crashes, until its row is removed.                                  *)
(***************************************************************************)
Has(f) == f \in staging.whole \/ place[f] \in Ours

PayloadSurvives ==
  [][\A f \in FileSet : Has(f) => Has(f)' \/ status' = "Gone"]_vars

(***************************************************************************)
(* A file the user put at a destination, at any moment of the publication, *)
(* of its rollback or of a removal, stays.                                 *)
(***************************************************************************)
ForeignFilesStay ==
  [][\A f \in FileSet : place[f] = "foreign" => place'[f] = "foreign"]_vars

(***************************************************************************)
(* "Unpack ZIP, 7z and RAR files when they finish", says the setting: no   *)
(* row is Completed while its payload has still to be unpacked.  The code  *)
(* does not keep that.  Whether to unpack hangs on the marker that `run`   *)
(* finds before it publishes (torrent.rs:166), so that a run cut short     *)
(* between the marker and the end of `auto_extract` leaves the extraction  *)
(* to a next run that skips it.                                            *)
(***************************************************************************)
CompletedWasUnpacked == status = "Completed" => unpack # "due"
=============================================================================
