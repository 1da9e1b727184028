----------------------------- MODULE HttpFiles -----------------------------
(***************************************************************************)
(* The files of one HTTP row (worker.rs, extract.rs): its worker owns a    *)
(* staging directory, completes the partial file in it (Transfer has that  *)
(* part), publishes it by a rename that replaces nothing, and unpacks it   *)
(* when it is an archive.  The resume metadata beside the partial file     *)
(* says how far publication got, so that a run after a crash can tell its  *)
(* own file from one of the user's.                                        *)
(*                                                                         *)
(* The remote file stays the same, reports reach the row at once, what was *)
(* written survives a crash, and statuses are reduced: "Downloading" is    *)
(* also Starting, "ExtractError" also PasswordRequired.  "Mutant" marks a  *)
(* bug that the run must notice.                                           *)
(***************************************************************************)
EXTENDS Naturals

CONSTANTS
  MaxFailures,    (* Bound: I/O and extraction failures.                    *)
  MaxForeign,     (* Bound: files users put at the destination.             *)
  MaxRestarts     (* Bound: times the process is killed.                    *)

VARIABLES
  status,         (* Status of the row.                                     *)
  worker,         (* Its worker task.                                       *)
  root,           (* The staging directory: "bare" has no owner file.       *)
  partial,        (* payload.part: "none", "part" or "whole".               *)
  metadata,       (* resume.json: "none", "fresh", "intent" or "published". *)
  place,          (* At the destination: "none", the payload ("own"), a file*)
                  (* of the user, of another size or of the same.           *)
  folders,        (* Folders the archive was unpacked into.                 *)
  scratch,        (* Unfinished extractions that lie beside the archive.    *)
  archive,        (* The payload is an archive, and is to be unpacked.      *)
  deletes,        (* And to be deleted then.                                *)
  failures, foreign, restarts

stagingVars == <<root, partial, metadata>>
outVars == <<folders, scratch>>
fixedVars == <<archive, deletes>>
boundVars == <<failures, foreign, restarts>>
vars == <<status, worker, stagingVars, place, outVars, fixedVars, boundVars>>

Statuses ==
  {"Queued", "Downloading", "Extracting", "Completed", "Paused", "Error", "ExtractError"}
Steps ==
  {"idle", "root", "owner", "recover", "discard", "record", "fetch", "download",
   "intent", "rename", "withdraw", "published", "ready", "extract", "name", "tidy", "exited"}
NoWorker == [job |-> "download", pc |-> "idle", cancelled |-> FALSE, result |-> "none"]
Foreign == {"foreign", "lookalike"}

-----------------------------------------------------------------------------
(* Helpers *)

At(pc) == worker.pc = pc
Goto(pc) == worker' = [worker EXCEPT !.pc = pc]
Ends(result) == worker' = [worker EXCEPT !.pc = "exited", !.result = result]

(* A step of the worker; one that fails changes nothing else. *)
Step(from, to) == At(from) /\ Goto(to) /\ UNCHANGED <<fixedVars, boundVars>>
Fails(result) ==
  /\ failures < MaxFailures /\ failures' = failures + 1
  /\ Ends(result)
  /\ UNCHANGED <<status, stagingVars, place, outVars, fixedVars, foreign, restarts>>

-----------------------------------------------------------------------------
(* `prepare_destination` *)

(* Mutant: a directory without an owner file is refused. *)
OwnsOnly == root = "owned"

(* A directory without an owner file is adopted if it holds no payload. *)
Owns == root = "owned" \/ (partial = "none" /\ metadata = "none")

EnsureRoot ==
  \/ /\ root = "none"
     /\ root' = "bare"
     /\ Step("root", "owner")
     /\ UNCHANGED <<status, partial, metadata, place, outVars>>
  \/ /\ root # "none" /\ Owns
     /\ Step("root", IF root = "owned" THEN "recover" ELSE "owner")
     /\ UNCHANGED <<status, stagingVars, place, outVars>>
  \/ /\ root # "none" /\ ~Owns
     /\ At("root") /\ Ends("exists")
     /\ UNCHANGED <<status, stagingVars, place, outVars, fixedVars, boundVars>>

WriteOwner ==
  /\ root' = "owned"
  /\ Step("owner", "recover")
  /\ UNCHANGED <<status, partial, metadata, place, outVars>>

(* Mutant: the partial file is not compared with the published one. *)
IsPublishedBySize ==
  metadata \in {"intent", "published"} /\ place \in {"own", "lookalike"}

(* `recover_publication`: the destination is the payload. *)
IsPublished ==
  /\ metadata \in {"intent", "published"}
  /\ place \in {"own", "lookalike"}
  /\ metadata = "published" \/ partial = "none" \/ (partial = "whole" /\ place = "own")

RecoverPublication ==
  \/ IsPublished /\ Step("recover", "discard") /\ UNCHANGED <<status, stagingVars, place, outVars>>
  \/ /\ ~IsPublished /\ place = "none"
     /\ Step("recover", "fetch")
     /\ UNCHANGED <<status, stagingVars, place, outVars>>
  \/ /\ ~IsPublished /\ place # "none"
     /\ At("recover") /\ Ends("exists")
     /\ UNCHANGED <<status, stagingVars, place, outVars, fixedVars, boundVars>>

DiscardPartial ==
  /\ partial' = "none"
  /\ Step("discard", IF metadata = "published" THEN "ready" ELSE "record")
  /\ UNCHANGED <<status, root, metadata, place, outVars>>

(* After recovery, and as the last step of `publish`. *)
RecordPublished ==
  /\ metadata' = "published"
  /\ \E pc \in {"record", "published"} : Step(pc, "ready")
  /\ UNCHANGED <<status, root, partial, place, outVars>>

-----------------------------------------------------------------------------
(* `download_payload` *)

(* A complete partial file is resumed or begun again. *)
PreparePayload ==
  /\ partial' \in {"part"} \cup (IF partial = "whole" THEN {"whole"} ELSE {})
  /\ metadata' = "fresh"
  /\ Step("fetch", "download")
  /\ UNCHANGED <<status, root, place, outVars>>

Download ==
  /\ partial' = "whole"
  /\ Step("download", "intent")
  /\ UNCHANGED <<status, root, metadata, place, outVars>>

(* `publish`: the intent, the rename, and then that it is done. *)
WriteIntent ==
  /\ metadata' = "intent"
  /\ Step("intent", "rename")
  /\ UNCHANGED <<status, root, partial, place, outVars>>

(* `rename_no_clobber` *)
Renames == place = "none"

(* Where renaming without replacing is a link and an unlink, the link may    *)
(* be all there is.                                                          *)
Rename ==
  \/ /\ Renames
     /\ place' = "own"
     /\ partial' \in {"none", "whole"}
     /\ Step("rename", "published")
     /\ UNCHANGED <<status, root, metadata, outVars>>
  \/ ~Renames /\ Step("rename", "withdraw") /\ UNCHANGED <<status, stagingVars, place, outVars>>

WithdrawIntent ==
  /\ At("withdraw")
  /\ metadata' = "fresh"
  /\ Ends("exists")
  /\ UNCHANGED <<status, root, partial, place, outVars, fixedVars, boundVars>>

-----------------------------------------------------------------------------
(* `auto_extract`, and the job of `retry_extract`. *)

Extracting == status' = IF status = "Downloading" THEN "Extracting" ELSE status

CheckReadiness ==
  \/ /\ archive
     /\ Extracting
     /\ Step("ready", "extract")
     /\ UNCHANGED <<stagingVars, place, outVars>>
  \/ /\ At("ready")
     /\ Ends(IF archive THEN "extract" ELSE "ok")
     /\ UNCHANGED <<status, stagingVars, place, outVars, fixedVars, boundVars>>

(* `extract` fills a directory of its own (Extraction has its steps). *)
BeginExtract ==
  /\ place # "none" /\ ~worker.cancelled
  /\ scratch' = scratch + 1
  /\ Step("extract", "name")
  /\ UNCHANGED <<status, stagingVars, place, folders>>

(* Mutant: the directory of an extraction that fails stays. *)
DropNothing == scratch

(* It goes when it is dropped without having been renamed. *)
DropTemp == IF At("name") THEN scratch - 1 ELSE scratch

FailExtract ==
  /\ worker.pc \in {"extract", "name"}
  /\ \/ worker.cancelled /\ Ends("cancelled") /\ UNCHANGED failures
     \/ At("extract") /\ place = "none" /\ Ends("extract") /\ UNCHANGED failures
     \/ failures < MaxFailures /\ failures' = failures + 1 /\ Ends("extract")
  /\ scratch' = DropTemp
  /\ UNCHANGED <<status, stagingVars, place, folders, fixedVars, foreign, restarts>>

(* It is then renamed to a name that is free. *)
NameFolder ==
  /\ scratch' = scratch - 1
  /\ folders' = folders + 1
  /\ Step("name", "tidy")
  /\ UNCHANGED <<status, stagingVars, place>>

(* The archive is deleted when its folder is there. *)
Tidy ==
  /\ At("tidy")
  /\ Ends("ok")
  /\ place' \in {place} \cup (IF deletes THEN {"none"} ELSE {})
  /\ UNCHANGED <<status, stagingVars, outVars, fixedVars, boundVars>>

-----------------------------------------------------------------------------
(* Failures and cancellation.  Publishing and the steps before the download  *)
(* are not cancelled.                                                        *)

Fail ==
  /\ worker.pc \in {"root", "owner", "recover", "discard", "record", "fetch", "download",
                    "intent", "withdraw", "published"}
  /\ Fails("error")

(* The rename fails, and the intent is withdrawn. *)
FailRename ==
  /\ At("rename")
  /\ metadata' = "fresh"
  /\ failures < MaxFailures /\ failures' = failures + 1
  /\ Ends("error")
  /\ UNCHANGED <<status, root, partial, place, outVars, fixedVars, foreign, restarts>>

Interrupted ==
  /\ worker.cancelled /\ At("download")
  /\ Ends("cancelled")
  /\ UNCHANGED <<status, stagingVars, place, outVars, fixedVars, boundVars>>

-----------------------------------------------------------------------------
(* The engine, the user of the folder, and crashes. *)

Command == UNCHANGED <<stagingVars, place, outVars, fixedVars, boundVars>>

Start ==
  /\ status = "Queued" /\ At("idle")
  /\ status' = "Downloading"
  /\ worker' = [NoWorker EXCEPT !.pc = "root"]
  /\ Command

Pause ==
  /\ status \in {"Queued", "Downloading"}
  /\ status' = "Paused"
  /\ worker' = IF At("idle") THEN worker ELSE [worker EXCEPT !.cancelled = TRUE]
  /\ Command

CancelExtract ==
  /\ status = "Extracting"
  /\ worker' = [worker EXCEPT !.cancelled = TRUE]
  /\ UNCHANGED status
  /\ Command

Resume ==
  /\ status \in {"Paused", "Error"}
  /\ status' = "Queued"
  /\ UNCHANGED worker
  /\ Command

RetryExtract ==
  /\ status = "ExtractError" /\ At("idle")
  /\ status' = "Extracting"
  /\ worker' = [NoWorker EXCEPT !.job = "extract", !.pc = "extract"]
  /\ Command

(* `finish` *)
ExitStatus ==
  CASE worker.result = "ok" -> "Completed"
    [] worker.result # "ok" /\ worker.cancelled ->
         IF status = "Extracting" THEN "ExtractError" ELSE status
    [] worker.result = "extract" /\ ~worker.cancelled -> "ExtractError"
    [] worker.result \in {"error", "exists"} /\ ~worker.cancelled -> "Error"

Finish ==
  /\ At("exited")
  /\ status' = ExitStatus
  /\ worker' = NoWorker
  /\ Command

(* A user puts a file at the destination.  Where the program had its own     *)
(* file, a file of that size is taken for it.                                *)
Intrude ==
  /\ foreign < MaxForeign
  /\ foreign' = foreign + 1
  /\ place = "none" /\ metadata # "published"
  /\ place' \in Foreign
  /\ UNCHANGED <<status, worker, stagingVars, outVars, fixedVars, failures, restarts>>

(* The database learns an active status from the command that starts a task  *)
(* only: it takes a row for Extracting that `retry_extract` started, and a   *)
(* download that unpacks for one that has just started.                      *)
RecordedExtracting == status = "Extracting" /\ worker.job = "extract"

(* A crash and the next start (`restore`), which removes what unfinished     *)
(* extractions left beside a row that is recorded as Extracting.  In the     *)
(* middle of a rename there may be two links.                                *)
Restart ==
  /\ restarts < MaxRestarts
  /\ restarts' = restarts + 1
  /\ status' = IF RecordedExtracting THEN "ExtractError"
               ELSE IF status \in {"Downloading", "Extracting"} THEN "Queued" ELSE status
  /\ scratch' = IF RecordedExtracting THEN 0 ELSE scratch
  /\ place' \in {place} \cup (IF At("rename") /\ place = "none" THEN {"own"} ELSE {})
  /\ worker' = NoWorker
  /\ UNCHANGED <<stagingVars, folders, fixedVars, failures, foreign>>

Init ==
  /\ status = "Queued"
  /\ worker = NoWorker
  /\ root = "none" /\ partial = "none" /\ metadata = "none"
  /\ place = "none"
  /\ folders = 0 /\ scratch = 0
  /\ archive \in BOOLEAN /\ deletes \in BOOLEAN
  /\ failures = 0 /\ foreign = 0 /\ restarts = 0

WorkerStep ==
  \/ EnsureRoot \/ WriteOwner \/ RecoverPublication \/ DiscardPartial \/ RecordPublished
  \/ PreparePayload \/ Download \/ WriteIntent \/ Rename \/ WithdrawIntent
  \/ CheckReadiness \/ BeginExtract \/ FailExtract \/ NameFolder \/ Tidy
  \/ Fail \/ FailRename \/ Interrupted

Next ==
  \/ WorkerStep
  \/ Start \/ Pause \/ CancelExtract \/ Resume \/ RetryExtract \/ Finish
  \/ Intrude \/ Restart

Spec == Init /\ [][Next]_vars

-----------------------------------------------------------------------------
(* Properties. *)

TypeOK ==
  /\ status \in Statuses
  /\ worker \in [job : {"download", "extract"}, pc : Steps, cancelled : BOOLEAN,
                 result : {"none", "ok", "cancelled", "error", "exists", "extract"}]
  /\ root \in {"none", "bare", "owned"}
  /\ partial \in {"none", "part", "whole"}
  /\ metadata \in {"none", "fresh", "intent", "published"}
  /\ place \in {"none", "own"} \cup Foreign
  /\ folders \in Nat /\ scratch \in Nat
  /\ archive \in BOOLEAN /\ deletes \in BOOLEAN
  /\ failures \in 0..MaxFailures
  /\ foreign \in 0..MaxForeign
  /\ restarts \in 0..MaxRestarts

(***************************************************************************)
(* No crash or failure makes a row refuse its own work: "destination       *)
(* already exists" is only said when a file of the user's is there.        *)
(***************************************************************************)
RefusesOnlyForeign == worker.result = "exists" => place \in Foreign

(***************************************************************************)
(* A completed row has its own payload at the destination, never a file of *)
(* the user's that looks like it, or its contents, unpacked.               *)
(***************************************************************************)
CompletedIsOwn == status = "Completed" => place = "own" \/ folders > 0

(***************************************************************************)
(* A file of the user's at the destination stays.                          *)
(***************************************************************************)
ForeignFilesStay == [][(place \in Foreign) => UNCHANGED place]_vars

(***************************************************************************)
(* Whatever fails, is cancelled or tried again: an unfinished extraction   *)
(* is left beside the files of a row that rests only where a kill cut one  *)
(* off, one for each kill at most.                                         *)
(***************************************************************************)
ScratchOnlyOfKills == At("idle") => scratch <= restarts
=============================================================================
