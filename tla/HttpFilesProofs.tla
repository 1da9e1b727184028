--------------------------- MODULE HttpFilesProofs ---------------------------
(***************************************************************************)
(* What an HTTP row makes of its destination, for any number of failures,  *)
(* crashes and files users put there: a row refuses only files of the      *)
(* user, completes only with its own, never replaces or removes another,   *)
(* and leaves no unfinished extraction behind but where it was killed.     *)
(***************************************************************************)
EXTENDS HttpFiles, TLAPS

Workers ==
  [job : {"download", "extract"}, pc : Steps, cancelled : BOOLEAN,
   result : {"none", "ok", "cancelled", "error", "exists", "extract"}]
Typed ==
  /\ status \in Statuses
  /\ worker \in Workers
  /\ root \in {"none", "bare", "owned"}
  /\ partial \in {"none", "part", "whole"}
  /\ metadata \in {"none", "fresh", "intent", "published"}
  /\ place \in {"none", "own"} \cup Foreign
  /\ folders \in Nat /\ scratch \in Nat /\ restarts \in Nat

-----------------------------------------------------------------------------
(* The inductive invariant.                                                *)

Publishing ==
  {"recover", "discard", "record", "fetch", "download", "intent", "rename", "withdraw",
   "published"}
Preparing == {"root", "owner"}
Unpacking == {"extract", "name", "tidy"}

(* What lies in a directory says whose it is. *)
RootOwned ==
  /\ root # "owned" => partial = "none" /\ metadata = "none"
  /\ worker.pc \in Publishing => root = "owned"

(* The metadata tell the own file from others, whatever happens next. *)
OwnIsRecorded ==
  place = "own" => metadata = "published" \/ (metadata = "intent" /\ partial \in {"none", "whole"})
MovedIsThere == metadata = "intent" /\ partial = "none" => place = "own"
PublishedIsOwn == metadata = "published" => place \in {"own", "none"}

(* Where publication stands. *)
BeforeRename ==
  /\ worker.pc \in {"fetch", "download", "intent", "rename"} => place # "own"
  /\ worker.pc \in {"intent", "rename"} => partial = "whole"
  /\ worker.pc = "rename" => metadata = "intent"
  /\ worker.pc = "withdraw" => place \in Foreign
AfterRename == worker.pc \in {"discard", "record", "published", "ready"} => place = "own"

(* What is unpacked was published. *)
UnpackingPublished ==
  /\ worker.pc \in Unpacking \cup {"ready"} => metadata = "published"
  /\ worker.result = "extract" => metadata = "published"
  /\ status \in {"Extracting", "ExtractError"} => metadata = "published"

StatusFits ==
  /\ worker.pc \in Preparing \cup Publishing \cup {"ready"} =>
       status \in {"Queued", "Downloading", "Paused"} /\ (worker.cancelled \/ status = "Downloading")
  /\ worker.pc = "extract" => worker.cancelled \/ status = "Extracting"
  /\ worker.pc = "name" => status = "Extracting"

Results ==
  /\ worker.result # "none" <=> worker.pc = "exited"
  /\ worker.result = "cancelled" => worker.cancelled = TRUE
  /\ worker.pc = "tidy" => folders > 0
  /\ worker.result = "ok" => place = "own" \/ folders > 0

(* The worker's own unfinished extraction, and those of kills. *)
ScratchIsNamed ==
  /\ worker.pc = "name" => scratch > 0
  /\ scratch <= restarts + (IF worker.pc = "name" THEN 1 ELSE 0)

IInv ==
  /\ Typed /\ RootOwned /\ OwnIsRecorded /\ MovedIsThere /\ PublishedIsOwn
  /\ BeforeRename /\ AfterRename /\ UnpackingPublished /\ StatusFits /\ Results
  /\ ScratchIsNamed /\ RefusesOnlyForeign /\ CompletedIsOwn

-----------------------------------------------------------------------------
(* How a worker goes on, and ends. *)

LEMMA GotoLooks ==
  ASSUME worker \in Workers, NEW pc \in Steps, Goto(pc)
  PROVE  /\ worker' \in Workers /\ worker'.pc = pc
         /\ worker'.cancelled = worker.cancelled /\ worker'.result = worker.result
BY DEF Goto, Workers

LEMMA EndsLooks ==
  ASSUME worker \in Workers,
         NEW result \in {"none", "ok", "cancelled", "error", "exists", "extract"}, Ends(result)
  PROVE  /\ worker' \in Workers /\ worker'.pc = "exited"
         /\ worker'.cancelled = worker.cancelled /\ worker'.result = result
BY DEF Ends, Workers, Steps

LEMMA NoWorkerLooks ==
  /\ NoWorker \in Workers /\ NoWorker.pc = "idle" /\ NoWorker.result = "none"
  /\ NoWorker.cancelled = FALSE
BY DEF NoWorker, Workers, Steps

-----------------------------------------------------------------------------
(* The steps of a worker that goes on. *)

USE DEF IInv, Typed, RootOwned, OwnIsRecorded, MovedIsThere, PublishedIsOwn, BeforeRename,
        AfterRename, UnpackingPublished, StatusFits, Results, ScratchIsNamed,
        RefusesOnlyForeign, CompletedIsOwn, Publishing, Preparing, Unpacking, Foreign,
        stagingVars, outVars, boundVars

LEMMA WriteOwnerKeeps == ASSUME IInv, WriteOwner PROVE IInv'
<1>1. /\ worker.pc = "owner" /\ worker' \in Workers /\ worker'.pc = "recover"
      /\ worker'.cancelled = worker.cancelled /\ worker'.result = worker.result
      /\ restarts' = restarts
  BY GotoLooks DEF WriteOwner, Step, At, Steps
<1>. QED
  BY <1>1 DEF WriteOwner

LEMMA DiscardPartialKeeps == ASSUME IInv, DiscardPartial PROVE IInv'
<1>1. /\ worker.pc = "discard" /\ worker' \in Workers /\ worker'.pc = (IF metadata = "published" THEN "ready" ELSE "record")
      /\ worker'.cancelled = worker.cancelled /\ worker'.result = worker.result
      /\ restarts' = restarts
  BY GotoLooks DEF DiscardPartial, Step, At, Steps
<1>. QED
  BY <1>1 DEF DiscardPartial

LEMMA RecordPublishedKeeps == ASSUME IInv, RecordPublished PROVE IInv'
<1>1. /\ worker.pc \in {"record", "published"} /\ worker' \in Workers /\ worker'.pc = "ready"
      /\ worker'.cancelled = worker.cancelled /\ worker'.result = worker.result
      /\ restarts' = restarts
  BY GotoLooks DEF RecordPublished, Step, At, Steps
<1>. QED
  BY <1>1 DEF RecordPublished

LEMMA PreparePayloadKeeps == ASSUME IInv, PreparePayload PROVE IInv'
<1>1. /\ worker.pc = "fetch" /\ worker' \in Workers /\ worker'.pc = "download"
      /\ worker'.cancelled = worker.cancelled /\ worker'.result = worker.result
      /\ restarts' = restarts
  BY GotoLooks DEF PreparePayload, Step, At, Steps
<1>. QED
  BY <1>1 DEF PreparePayload

LEMMA DownloadKeeps == ASSUME IInv, Download PROVE IInv'
<1>1. /\ worker.pc = "download" /\ worker' \in Workers /\ worker'.pc = "intent"
      /\ worker'.cancelled = worker.cancelled /\ worker'.result = worker.result
      /\ restarts' = restarts
  BY GotoLooks DEF Download, Step, At, Steps
<1>. QED
  BY <1>1 DEF Download

LEMMA WriteIntentKeeps == ASSUME IInv, WriteIntent PROVE IInv'
<1>1. /\ worker.pc = "intent" /\ worker' \in Workers /\ worker'.pc = "rename"
      /\ worker'.cancelled = worker.cancelled /\ worker'.result = worker.result
      /\ restarts' = restarts
  BY GotoLooks DEF WriteIntent, Step, At, Steps
<1>. QED
  BY <1>1 DEF WriteIntent

LEMMA RenameKeeps == ASSUME IInv, Rename PROVE IInv'
<1>1. /\ worker.pc = "rename" /\ worker' \in Workers /\ worker'.pc = (IF place = "none" THEN "published" ELSE "withdraw")
      /\ worker'.cancelled = worker.cancelled /\ worker'.result = worker.result
      /\ restarts' = restarts
  BY GotoLooks DEF Rename, Step, At, Steps, Renames
<1>. QED
  BY <1>1 DEF Rename, Renames

LEMMA BeginExtractKeeps == ASSUME IInv, BeginExtract PROVE IInv'
<1>1. /\ worker.pc = "extract" /\ worker' \in Workers /\ worker'.pc = "name"
      /\ worker'.cancelled = worker.cancelled /\ worker'.result = worker.result
      /\ restarts' = restarts
  BY GotoLooks DEF BeginExtract, Step, At, Steps
<1>. QED
  BY <1>1 DEF BeginExtract

LEMMA NameFolderKeeps == ASSUME IInv, NameFolder PROVE IInv'
<1>1. /\ worker.pc = "name" /\ worker' \in Workers /\ worker'.pc = "tidy"
      /\ worker'.cancelled = worker.cancelled /\ worker'.result = worker.result
      /\ restarts' = restarts
  BY GotoLooks DEF NameFolder, Step, At, Steps
<1>2. folders' \in Nat /\ folders' > 0 /\ UNCHANGED <<status, stagingVars, place>>
      /\ scratch' = scratch - 1
  BY DEF NameFolder
<1>. QED
  BY <1>1, <1>2

-----------------------------------------------------------------------------
(* The steps with which a worker ends, or may. *)

LEMMA WithdrawIntentKeeps == ASSUME IInv, WithdrawIntent PROVE IInv'
<1>1. /\ worker.pc = "withdraw" /\ worker' \in Workers /\ worker'.pc = "exited"
      /\ worker'.cancelled = worker.cancelled /\ worker'.result = "exists"
  BY EndsLooks DEF WithdrawIntent, Fails, At
<1>. QED
  BY <1>1 DEF WithdrawIntent, Fails

LEMMA TidyKeeps == ASSUME IInv, Tidy PROVE IInv'
<1>1. /\ worker.pc = "tidy" /\ worker' \in Workers /\ worker'.pc = "exited"
      /\ worker'.cancelled = worker.cancelled /\ worker'.result = "ok"
  BY EndsLooks DEF Tidy, Fails, At
<1>. QED
  BY <1>1 DEF Tidy, Fails

LEMMA FailKeeps == ASSUME IInv, Fail PROVE IInv'
<1>1. /\ worker.pc \in Preparing \cup (Publishing \ {"rename"})
      /\ worker' \in Workers /\ worker'.pc = "exited"
      /\ worker'.cancelled = worker.cancelled /\ worker'.result = "error"
  BY EndsLooks DEF Fail, Fails, At
<1>. QED
  BY <1>1 DEF Fail, Fails

LEMMA FailRenameKeeps == ASSUME IInv, FailRename PROVE IInv'
<1>1. /\ worker.pc = "rename" /\ worker' \in Workers /\ worker'.pc = "exited"
      /\ worker'.cancelled = worker.cancelled /\ worker'.result = "error"
  BY EndsLooks DEF FailRename, Fails, At
<1>. QED
  BY <1>1 DEF FailRename, Fails

LEMMA InterruptedKeeps == ASSUME IInv, Interrupted PROVE IInv'
<1>1. /\ worker.pc = "download" /\ worker' \in Workers /\ worker'.pc = "exited"
      /\ worker'.cancelled = worker.cancelled /\ worker'.result = "cancelled"
  BY EndsLooks DEF Interrupted, Fails, At
<1>. QED
  BY <1>1 DEF Interrupted, Fails

LEMMA FailExtractKeeps == ASSUME IInv, FailExtract PROVE IInv'
<1>1. /\ worker.pc \in {"extract", "name"} /\ worker' \in Workers /\ worker'.pc = "exited"
      /\ worker'.cancelled = worker.cancelled /\ worker'.result \in {"cancelled", "extract"}
      /\ worker'.result = "cancelled" => worker.cancelled = TRUE
      /\ restarts' = restarts /\ scratch' = (IF worker.pc = "name" THEN scratch - 1 ELSE scratch)
  BY EndsLooks DEF FailExtract, DropTemp, At
<1>. QED
  BY <1>1 DEF FailExtract, Fails

LEMMA EnsureRootKeeps == ASSUME IInv, EnsureRoot PROVE IInv'
<1>1. CASE /\ root = "none" /\ root' = "bare" /\ Step("root", "owner")
           /\ UNCHANGED <<status, partial, metadata, place, outVars>>
  <2>1. /\ worker.pc = "root" /\ worker' \in Workers /\ worker'.pc = "owner"
        /\ worker'.cancelled = worker.cancelled /\ worker'.result = worker.result
        /\ restarts' = restarts
    BY <1>1, GotoLooks DEF Step, At, Steps
  <2>. QED
    BY <1>1, <2>1
<1>2. CASE /\ root # "none" /\ Owns /\ Step("root", IF root = "owned" THEN "recover" ELSE "owner")
           /\ UNCHANGED <<status, stagingVars, place, outVars>>
  <2>1. /\ worker.pc = "root" /\ worker' \in Workers
        /\ worker'.pc = IF root = "owned" THEN "recover" ELSE "owner"
        /\ worker'.cancelled = worker.cancelled /\ worker'.result = worker.result
        /\ restarts' = restarts
    BY <1>2, GotoLooks DEF Step, At, Steps
  <2>. QED
    BY <1>2, <2>1
<1>3. CASE root # "none" /\ ~Owns
  BY <1>3 DEF Owns
<1>. QED
  BY <1>1, <1>2, <1>3 DEF EnsureRoot

LEMMA RecoverPublicationKeeps == ASSUME IInv, RecoverPublication PROVE IInv'
<1>1. worker.pc = "recover" /\ UNCHANGED <<status, stagingVars, place, outVars, boundVars>>
  BY DEF RecoverPublication, Step, At
<1>2. CASE IsPublished /\ Step("recover", "discard")
  <2>1. /\ worker' \in Workers /\ worker'.pc = "discard"
        /\ worker'.cancelled = worker.cancelled /\ worker'.result = worker.result
    BY <1>2, GotoLooks DEF Step, Steps
  <2>2. place = "own"
    BY <1>2 DEF IsPublished
  <2>. QED
    BY <1>1, <2>1, <2>2
<1>3. CASE place = "none" /\ Step("recover", "fetch")
  <2>1. /\ worker' \in Workers /\ worker'.pc = "fetch"
        /\ worker'.cancelled = worker.cancelled /\ worker'.result = worker.result
    BY <1>3, GotoLooks DEF Step, Steps
  <2>. QED
    BY <1>1, <1>3, <2>1
<1>4. CASE ~IsPublished /\ place # "none" /\ Ends("exists")
  <2>1. /\ worker' \in Workers /\ worker'.pc = "exited"
        /\ worker'.cancelled = worker.cancelled /\ worker'.result = "exists"
    BY <1>4, EndsLooks
  <2>2. place \in Foreign
    BY <1>1, <1>4 DEF IsPublished
  <2>. QED
    BY <1>1, <2>1, <2>2
<1>. QED
  BY <1>2, <1>3, <1>4 DEF RecoverPublication

LEMMA CheckReadinessKeeps == ASSUME IInv, CheckReadiness PROVE IInv'
<1>1. worker.pc = "ready" /\ UNCHANGED <<stagingVars, place, outVars, boundVars>>
  BY DEF CheckReadiness, Step, At
<1>2. CASE Extracting /\ Step("ready", "extract")
  <2>1. /\ worker' \in Workers /\ worker'.pc = "extract"
        /\ worker'.cancelled = worker.cancelled /\ worker'.result = worker.result
    BY <1>2, GotoLooks DEF Step, Steps
  <2>2. status' = IF status = "Downloading" THEN "Extracting" ELSE status
    BY <1>2 DEF Extracting
  <2>3. status' \in Statuses
    BY <2>2 DEF Statuses
  <2>. QED
    BY <1>1, <2>1, <2>2, <2>3
<1>3. CASE Ends(IF archive THEN "extract" ELSE "ok") /\ UNCHANGED status
  <2>1. /\ worker' \in Workers /\ worker'.pc = "exited"
        /\ worker'.cancelled = worker.cancelled /\ worker'.result \in {"extract", "ok"}
    <3>1. PICK result \in {"extract", "ok"} : Ends(result)
      BY <1>3
    <3>. QED
      BY <3>1, EndsLooks
  <2>. QED
    BY <1>1, <1>3, <2>1
<1>. QED
  BY <1>2, <1>3 DEF CheckReadiness

-----------------------------------------------------------------------------
(* Commands, exits, users and crashes. *)

(* A worker that is told to stop, or not. *)
LEMMA CancelledLooks ==
  ASSUME worker \in Workers, worker' = [worker EXCEPT !.cancelled = TRUE]
  PROVE  /\ worker' \in Workers /\ worker'.pc = worker.pc
         /\ worker'.cancelled = TRUE /\ worker'.result = worker.result
BY DEF Workers

LEMMA NewWorkerLooks ==
  ASSUME NEW pc \in Steps,
         \/ worker' = [NoWorker EXCEPT !.pc = pc]
         \/ worker' = [NoWorker EXCEPT !.job = "extract", !.pc = pc]
  PROVE  /\ worker' \in Workers /\ worker'.pc = pc
         /\ worker'.cancelled = FALSE /\ worker'.result = "none"
BY NoWorkerLooks DEF Workers

LEMMA StartKeeps == ASSUME IInv, Start PROVE IInv'
<1>1. worker' \in Workers /\ worker'.pc = "root" /\ worker'.result = "none" /\ worker'.cancelled = FALSE
  BY NewWorkerLooks DEF Start, Steps
<1>. QED
  BY <1>1 DEF Start, Command, Statuses

LEMMA PauseKeeps == ASSUME IInv, Pause PROVE IInv'
<1>1. /\ worker' \in Workers /\ worker'.pc = worker.pc /\ worker'.result = worker.result
      /\ worker.pc = "idle" \/ worker'.cancelled = TRUE
  BY CancelledLooks DEF Pause, At
<1>. QED
  BY <1>1 DEF Pause, Command, Statuses

LEMMA CancelExtractKeeps == ASSUME IInv, CancelExtract PROVE IInv'
<1>1. /\ worker' \in Workers /\ worker'.pc = worker.pc /\ worker'.result = worker.result
      /\ worker'.cancelled = TRUE
  BY CancelledLooks DEF CancelExtract
<1>. QED
  BY <1>1 DEF CancelExtract, Command

LEMMA ResumeKeeps == ASSUME IInv, Resume PROVE IInv'
BY DEF Resume, Command, Statuses

LEMMA RetryExtractKeeps == ASSUME IInv, RetryExtract PROVE IInv'
<1>1. /\ worker' \in Workers /\ worker'.pc = "extract" /\ worker'.result = "none"
      /\ worker'.cancelled = FALSE
  BY NewWorkerLooks DEF RetryExtract, Steps
<1>. QED
  BY <1>1 DEF RetryExtract, Command, Statuses

LEMMA FinishKeeps == ASSUME IInv, Finish PROVE IInv'
<1>1. /\ worker.pc = "exited" /\ worker' \in Workers /\ worker'.pc = "idle"
      /\ worker'.result = "none" /\ worker'.cancelled = FALSE
  BY NoWorkerLooks DEF Finish, At
<1>2. /\ status' \in Statuses
      /\ status' \in {"Extracting", "ExtractError"} => metadata = "published"
      /\ status' = "Completed" => status = "Completed" \/ worker.result = "ok"
  <2>1. worker.result \in {"ok", "cancelled", "error", "exists", "extract"}
    BY <1>1 DEF Workers
  <2>2. CASE worker.result = "ok"
    BY <2>2 DEF Finish, ExitStatus, Statuses
  <2>3. CASE worker.result # "ok" /\ worker.cancelled = TRUE
    BY <2>3 DEF Finish, ExitStatus, Statuses
  <2>4. CASE worker.result = "extract" /\ worker.cancelled = FALSE
    BY <2>4 DEF Finish, ExitStatus, Statuses
  <2>5. CASE worker.result \in {"error", "exists"} /\ worker.cancelled = FALSE
    BY <2>5 DEF Finish, ExitStatus, Statuses
  <2>6. worker.cancelled \in BOOLEAN
    BY DEF Workers
  <2>. QED
    BY <2>1, <2>2, <2>3, <2>4, <2>5, <2>6
<1>. QED
  BY <1>1, <1>2 DEF Finish, Command

LEMMA IntrudeKeeps == ASSUME IInv, Intrude PROVE IInv'
BY DEF Intrude

LEMMA RestartKeeps == ASSUME IInv, Restart PROVE IInv'
<1>1. /\ worker' \in Workers /\ worker'.pc = "idle"
      /\ worker'.result = "none" /\ worker'.cancelled = FALSE
  BY NoWorkerLooks DEF Restart
<1>2. /\ status' \in Statuses
      /\ status' \in {"Extracting", "ExtractError"} => metadata = "published"
      /\ status' = "Completed" => status = "Completed"
  <2>1. /\ status = "Extracting" => status' \in {"ExtractError", "Queued"}
        /\ status = "Downloading" => status' = "Queued"
        /\ status \notin {"Extracting", "Downloading"} => status' = status
    BY DEF Restart, RecordedExtracting
  <2>. QED
    BY <2>1 DEF Statuses
<1>3. scratch' \in {0, scratch} /\ restarts' = restarts + 1
  BY DEF Restart
<1>4. /\ UNCHANGED <<stagingVars, folders>>
      /\ \/ place' = place
         \/ worker.pc = "rename" /\ place' = "own"
  BY DEF Restart, At
<1>. QED
  BY <1>1, <1>2, <1>3, <1>4

LEMMA NextKeeps == ASSUME IInv, [Next]_vars PROVE IInv'
<1>1. CASE UNCHANGED vars
  BY <1>1 DEF vars
<1>2. CASE WorkerStep
  BY <1>2, EnsureRootKeeps, WriteOwnerKeeps, RecoverPublicationKeeps, DiscardPartialKeeps,
     RecordPublishedKeeps, PreparePayloadKeeps, DownloadKeeps, WriteIntentKeeps, RenameKeeps,
     WithdrawIntentKeeps, CheckReadinessKeeps, BeginExtractKeeps, FailExtractKeeps,
     NameFolderKeeps, TidyKeeps, FailKeeps, FailRenameKeeps, InterruptedKeeps DEF WorkerStep
<1>. HIDE DEF IInv
<1>. QED
  BY <1>1, <1>2, StartKeeps, PauseKeeps, CancelExtractKeeps, ResumeKeeps, RetryExtractKeeps,
     FinishKeeps, IntrudeKeeps, RestartKeeps DEF Next

LEMMA InitIInv == ASSUME Init PROVE IInv
<1>1. worker \in Workers /\ worker.pc = "idle" /\ worker.result = "none"
  BY NoWorkerLooks DEF Init
<1>. QED
  BY <1>1 DEF Init, Statuses

LEMMA StepsSpareFiles ==
  ASSUME IInv, [Next]_vars, place \in Foreign PROVE UNCHANGED place
<1>1. CASE Tidy
  BY <1>1 DEF Tidy, At
<1>2. CASE EnsureRoot \/ RecoverPublication \/ WriteOwner \/ DiscardPartial \/ RecordPublished
  BY <1>2 DEF EnsureRoot, RecoverPublication, WriteOwner, DiscardPartial, RecordPublished
<1>3. CASE PreparePayload \/ Download \/ WriteIntent \/ Rename \/ WithdrawIntent
  BY <1>3 DEF PreparePayload, Download, WriteIntent, Rename, Renames, WithdrawIntent
<1>4. CASE CheckReadiness \/ BeginExtract \/ FailExtract \/ NameFolder
  BY <1>4 DEF CheckReadiness, BeginExtract, FailExtract, NameFolder
<1>5. CASE Fail \/ FailRename \/ Interrupted
  BY <1>5 DEF Fail, Fails, FailRename, Interrupted
<1>6. CASE Start \/ Pause \/ CancelExtract \/ Resume \/ RetryExtract \/ Finish
  BY <1>6 DEF Start, Pause, CancelExtract, Resume, RetryExtract, Finish, Command
<1>7. CASE Intrude \/ Restart \/ UNCHANGED vars
  BY <1>7 DEF Intrude, Restart, vars
<1>. QED
  BY <1>1, <1>2, <1>3, <1>4, <1>5, <1>6, <1>7 DEF Next, WorkerStep

HIDE DEF IInv, Typed, RootOwned, OwnIsRecorded, MovedIsThere, PublishedIsOwn, BeforeRename,
         AfterRename, UnpackingPublished, StatusFits, Results, ScratchIsNamed,
         RefusesOnlyForeign, CompletedIsOwn, Publishing, Preparing, Unpacking, Foreign,
         stagingVars, outVars, boundVars

(***************************************************************************)
(* "Destination already exists" is only said when a file of the user's is  *)
(* there, however often the row failed, was killed or was paused.          *)
(***************************************************************************)
THEOREM NeverRefusesItsOwn == Spec => []RefusesOnlyForeign
<1>1. Init => IInv
  BY InitIInv
<1>2. IInv /\ [Next]_vars => IInv'
  BY NextKeeps
<1>3. IInv => RefusesOnlyForeign
  BY DEF IInv
<1>. QED
  BY <1>1, <1>2, <1>3, PTL DEF Spec

(***************************************************************************)
(* A completed row has its own payload at the destination, or its contents *)
(* unpacked; it never takes a file of the user's for its own.              *)
(***************************************************************************)
THEOREM CompletesWithItsOwn == Spec => []CompletedIsOwn
<1>1. Init => IInv
  BY InitIInv
<1>2. IInv /\ [Next]_vars => IInv'
  BY NextKeeps
<1>3. IInv => CompletedIsOwn
  BY DEF IInv
<1>. QED
  BY <1>1, <1>2, <1>3, PTL DEF Spec

(***************************************************************************)
(* A row that rests has left no more unfinished extractions than kills     *)
(* explain, whatever failed, was cancelled or was tried again.             *)
(***************************************************************************)
THEOREM LeavesNoScratch == Spec => []ScratchOnlyOfKills
<1>1. Init => IInv
  BY InitIInv
<1>2. IInv /\ [Next]_vars => IInv'
  BY NextKeeps
<1>3. IInv => ScratchOnlyOfKills
  BY DEF ScratchOnlyOfKills, At, IInv, Typed, ScratchIsNamed
<1>. QED
  BY <1>1, <1>2, <1>3, PTL DEF Spec

(***************************************************************************)
(* A file the user put at the destination is neither replaced nor removed. *)
(***************************************************************************)
THEOREM SparesForeignFiles == Spec => ForeignFilesStay
<1>1. Init => IInv
  BY InitIInv
<1>2. IInv /\ [Next]_vars => IInv'
  BY NextKeeps
<1>3. IInv /\ [Next]_vars => [(place \in Foreign => UNCHANGED place)]_vars
  BY StepsSpareFiles
<1>. QED
  BY <1>1, <1>2, <1>3, PTL DEF Spec, ForeignFilesStay
=============================================================================
