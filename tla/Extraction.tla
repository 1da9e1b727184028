----------------------------- MODULE Extraction -----------------------------
(***************************************************************************)
(* Unpacking an archive set (shio-core/src/extract.rs, `run_extract` in    *)
(* worker.rs).  The set is what lies beside a volume of it under the same  *)
(* name, volumes of the user included.  Its entries are written to a       *)
(* temporary folder, which is synced and renamed to the first free name;   *)
(* the volumes that were downloaded are deleted then.                      *)
(*                                                                         *)
(* The row or package asks for it when it completes, once the set is       *)
(* found complete, or the user does, with or without a password; a package *)
(* that completes does not look.  The readers of the formats are external: *)
(* they fail on a missing volume unless the one before it ends with an     *)
(* entry ("seamless"), and may or may not notice one of another set.       *)
(* Left out: modes, names beyond being equal, header limits.  "Mutant"     *)
(* marks a bug that the run must notice.                                   *)
(***************************************************************************)
EXTENDS Naturals, FiniteSets, SequencesExt

CONSTANTS
  Archives,       (* The archives: format, volumes, seamless, encrypted,    *)
                  (* and entries in order.                                  *)
  Lookalikes,     (* Indices of volumes that users put beside it.           *)
  MaxFiles, MaxFileBytes, MaxTotalBytes,  (* MAX_EXTRACTED_*                *)
  MaxAttempts,    (* MAX_DESTINATION_ATTEMPTS                               *)
  MaxUserFolders, MaxIoFailures, MaxCrashes  (* Bounds.                     *)

VARIABLES
  archive,        (* The archive, one of Archives.                          *)
  volumes,        (* The volumes beside each other.                         *)
  step,           (* Where `extract` stands.                                *)
  checked,        (* The set was found complete before.                     *)
  password,       (* A password is known.                                   *)
  members,        (* The volumes of the plan.                               *)
  entry,          (* The entry that comes next.                             *)
  scratch,        (* What the temporary folder holds, by name; <<>> if none.*)
  synced,         (* It is durable.                                         *)
  attempt,        (* The name that comes next.                              *)
  folders,        (* What each of the names holds.                          *)
  cancel,         (* The token is cancelled.                                *)
  userFolders, ioFailures, crashes

jobVars == <<checked, password, members, entry, attempt>>
diskVars == <<volumes, scratch, synced, folders>>
limitVars == <<userFolders, ioFailures, crashes>>
vars == <<archive, step, cancel, jobVars, diskVars, limitVars>>

NoFolder == [owner |-> "none", files |-> <<>>, checked |-> FALSE]
UserFolder == [NoFolder EXCEPT !.owner = "user"]
None == [there |-> FALSE, files |-> <<>>, count |-> 0]

Own == {[index |-> n, own |-> TRUE] : n \in 1..archive.volumes}
Foreign == {[index |-> n, own |-> FALSE] : n \in Lookalikes}

Finished == {"done", "failed", "incomplete", "password"}
Goes(s) == step' = s
Cleaned == scratch' = None

-----------------------------------------------------------------------------
(* `plan`, `readiness` *)

Split == archive.format \in {"rar", "7z"}
Planned == IF Split THEN volumes ELSE volumes \cap Own

(* No gap, and no volume twice under another spelling. *)
SequenceComplete(S) == {v.index : v \in S} = 1..Cardinality(S)

(* The reader finds the end of the set. *)
Unbroken(S) == Own \subseteq S

(* Mutant: the end header of the last volume is not read. *)
ReadinessOfMembers(S) == Unbroken(S) \/ archive.seamless

Readiness(S) == Unbroken(S)

(* `extraction_readiness` *)
Ready ==
  /\ step = "idle" /\ volumes \cap Own # {}
  /\ \E read \in IF Planned \subseteq Own THEN {TRUE} ELSE BOOLEAN :
       LET readable == SequenceComplete(Planned) /\ read
           ends == Readiness(Planned)
       IN  step' = IF readable /\ archive.encrypted /\ (archive.format = "rar" \/ ends)
                   THEN "password"
                   ELSE IF readable /\ ends THEN "plan" ELSE "incomplete"
  /\ checked' = TRUE /\ password' = FALSE
  /\ UNCHANGED <<archive, cancel, members, entry, attempt, diskVars, limitVars>>

(* `retry_extract`; `start_package_extract` does the same without a        *)
(* password. *)
Retry ==
  /\ step \in {"idle"} \cup (Finished \ {"done"})
  /\ volumes \cap Own # {}
  /\ Goes("plan")
  /\ checked' = FALSE /\ password' \in BOOLEAN
  /\ cancel' = FALSE
  /\ UNCHANGED <<archive, members, entry, attempt, diskVars, limitVars>>

Cancel ==
  /\ step \notin Finished \cup {"idle", "crashed"}
  /\ cancel' = TRUE
  /\ UNCHANGED <<archive, step, jobVars, diskVars, limitVars>>

-----------------------------------------------------------------------------
(* `extract` *)

(* Everything that fails drops the temporary folder. *)
Fails(result) == Goes(result) /\ Cleaned /\ UNCHANGED <<entry, synced>>

(* The plan may have changed since; what is staged is new. *)
Open ==
  /\ step = "plan"
  /\ members' = Planned
  /\ entry' = 1 /\ attempt' = 1 /\ synced' = FALSE
  /\ IF cancel \/ (~Unbroken(Planned) /\ ~archive.seamless)
     THEN Goes("failed") /\ UNCHANGED scratch
     ELSE IF archive.encrypted /\ ~password THEN Goes("password") /\ UNCHANGED scratch
     ELSE \E read \in IF Planned \subseteq Own THEN {TRUE} ELSE BOOLEAN :
            IF read THEN Goes("unpack") /\ scratch' = [None EXCEPT !.there = TRUE]
            ELSE Goes("failed") /\ UNCHANGED scratch
  /\ UNCHANGED <<archive, cancel, checked, password, volumes, folders, limitVars>>

(* The entries that the volumes hold; the others are in the missing ones. *)
Held(S) == IF Unbroken(S) THEN archive.entries ELSE Front(archive.entries)

Sum(files) == FoldFunction(LAMBDA a, b : a + b, 0, files)

(* `Output::file`, `write`: rar does not declare sizes. *)
Fits(e, size) ==
  /\ archive.format = "rar" \/ e.declared <= MaxFileBytes
  /\ e.size <= MaxFileBytes
  /\ size + e.size <= MaxTotalBytes

(* An entry is taken unless it escapes, is damaged, too large or too many, *)
(* or has the name of another.  Links are refused, by rar skipped. *)
Skipped(e) == e.kind = "link" /\ archive.format = "rar"
Taken(e) ==
  /\ e.kind = "file" \/ e.kind = "dir" \/ Skipped(e)
  /\ ~Skipped(e) => scratch.count < MaxFiles
  /\ e.kind = "file" => e.name \notin DOMAIN scratch.files /\ Fits(e, Sum(scratch.files))
  /\ e.kind = "dir" /\ e.name \in DOMAIN scratch.files => scratch.files[e.name] = 0

(* One more file or folder; a folder may be there already. *)
Filed(files, name, size) ==
  [n \in DOMAIN files \cup {name} |-> IF n = name THEN size ELSE files[n]]

Stage(e) ==
  scratch' =
    IF Skipped(e) THEN scratch
    ELSE [scratch EXCEPT !.count = @ + 1,
                         !.files = Filed(@, e.name, IF e.kind = "file" THEN e.size ELSE 0)]

Unpack ==
  /\ step = "unpack" /\ entry <= Len(Held(members))
  /\ IF ~cancel /\ Taken(archive.entries[entry])
     THEN Stage(archive.entries[entry]) /\ entry' = entry + 1 /\ UNCHANGED <<step, synced>>
     ELSE Fails("failed")
  /\ UNCHANGED <<archive, cancel, checked, password, members, attempt, volumes, folders,
                 limitVars>>

IoFails == ioFailures < MaxIoFailures /\ ioFailures' = ioFailures + 1

(* `sync_tree` looks for a cancellation at every entry. *)
Sync ==
  /\ step = "unpack" /\ entry > Len(Held(members))
  /\ IF cancel /\ scratch.files # <<>>
     THEN Fails("failed") /\ UNCHANGED ioFailures
     ELSE \/ synced' = TRUE /\ Goes("publish") /\ UNCHANGED <<scratch, entry, ioFailures>>
          \/ IoFails /\ Fails("failed")
  /\ UNCHANGED <<archive, cancel, checked, password, members, attempt, volumes, folders,
                 userFolders, crashes>>

Free(n) == folders[n] = NoFolder

(* `rename_no_clobber` *)
Publish ==
  /\ step = "publish"
  /\ IF attempt > MaxAttempts THEN Fails("failed") /\ UNCHANGED <<folders, attempt, ioFailures>>
     ELSE IF ~Free(attempt)
     THEN /\ attempt' = attempt + 1
          /\ UNCHANGED <<step, scratch, entry, synced, folders, ioFailures>>
     ELSE \/ /\ folders' = [folders EXCEPT ![attempt] =
                              [owner |-> "shio", files |-> scratch.files, checked |-> checked]]
             /\ Goes("parent") /\ Cleaned
             /\ UNCHANGED <<entry, synced, attempt, ioFailures>>
          \/ IoFails /\ Fails("failed") /\ UNCHANGED <<folders, attempt>>
  /\ UNCHANGED <<archive, cancel, checked, password, members, volumes, userFolders, crashes>>

(* `sync_parent`: the folder stays although the row fails. *)
SyncParent ==
  /\ step = "parent"
  /\ \/ Goes("delete") /\ UNCHANGED ioFailures
     \/ IoFails /\ Goes("failed")
  /\ UNCHANGED <<archive, cancel, jobVars, diskVars, userFolders, crashes>>

(* Mutant: all volumes of the plan are deleted. *)
DeletesMembers == members

Deletes == members \cap Own

(* With `delete_archive_after_extract`; a volume that cannot be stays.      *)
Delete ==
  /\ step = "delete"
  /\ \/ \E v \in Deletes \cap volumes : volumes' = volumes \ {v} /\ UNCHANGED step
     \/ Goes("done") /\ UNCHANGED volumes
  /\ UNCHANGED <<archive, cancel, jobVars, scratch, synced, folders, limitVars>>

-----------------------------------------------------------------------------
(* The user, and the machine. *)

(* A folder under one of the names, or a volume of another set. *)
PutFolder(n) ==
  /\ userFolders < MaxUserFolders
  /\ Free(n)
  /\ folders' = [folders EXCEPT ![n] = UserFolder]
  /\ userFolders' = userFolders + 1
  /\ UNCHANGED <<archive, step, cancel, jobVars, volumes, scratch, synced, ioFailures, crashes>>

PutVolume(v) ==
  /\ v \in Foreign \ volumes
  /\ step \in {"idle", "plan"}
  /\ volumes' = volumes \cup {v}
  /\ UNCHANGED <<archive, step, cancel, jobVars, scratch, synced, folders, limitVars>>

Crash ==
  /\ crashes < MaxCrashes /\ crashes' = crashes + 1
  /\ step \notin Finished \cup {"idle", "crashed"}
  /\ Goes("crashed")
  /\ UNCHANGED <<archive, cancel, jobVars, diskVars, userFolders, ioFailures>>

(* `remove_stale_staging`, which `restore` calls for the sets and rows that *)
(* are recorded as Extracting (HttpFiles has the rows that are not).        *)
Restart ==
  /\ step = "crashed"
  /\ Goes("idle") /\ Cleaned
  /\ cancel' = FALSE
  /\ UNCHANGED <<archive, jobVars, volumes, synced, folders, limitVars>>

-----------------------------------------------------------------------------
Init ==
  /\ archive \in Archives
  /\ \E n \in 1..archive.volumes :
       volumes = IF archive.volumes = 1 THEN Own ELSE {v \in Own : v.index <= n}
  /\ step = "idle" /\ checked = FALSE /\ password = FALSE /\ cancel = FALSE
  /\ members = {} /\ entry = 1 /\ scratch = None /\ synced = FALSE
  /\ attempt = 1 /\ folders = [n \in 1..MaxAttempts |-> NoFolder]
  /\ userFolders = 0 /\ ioFailures = 0 /\ crashes = 0

Next ==
  \/ Ready \/ Retry \/ Cancel
  \/ Open \/ Unpack \/ Sync \/ Publish \/ SyncParent \/ Delete
  \/ \E n \in 1..MaxAttempts : PutFolder(n)
  \/ \E v \in Foreign : PutVolume(v)
  \/ Crash \/ Restart

Spec == Init /\ [][Next]_vars

-----------------------------------------------------------------------------
(* Properties. *)

EntryNames(es) == {es[n].name : n \in {k \in DOMAIN es : es[k].kind \in {"file", "dir"}}}

(***************************************************************************)
(* A folder appears only with all of the archive in it, within the limits  *)
(* on expanded sizes, however its entries lie, however often it was tried  *)
(* and whatever failed or crashed.  A set that was found complete is;      *)
(* without that look only the reader knows.                                *)
(***************************************************************************)
FoldersAreWhole ==
  \A n \in DOMAIN folders : folders[n].owner = "shio" =>
    /\ DOMAIN folders[n].files \subseteq EntryNames(archive.entries)
    /\ folders[n].checked \/ ~archive.seamless => DOMAIN folders[n].files = EntryNames(archive.entries)
    /\ \A f \in DOMAIN folders[n].files : folders[n].files[f] <= MaxFileBytes
    /\ Sum(folders[n].files) <= MaxTotalBytes
    /\ Cardinality(DOMAIN folders[n].files) <= MaxFiles

(***************************************************************************)
(* "Deletes only volumes those parts wrote, never a user's look-alike      *)
(* files", and those only once a durable folder holds what was in them.    *)
(***************************************************************************)
OnlyUnpackedVolumesGo ==
  [][\A v \in volumes \ volumes' :
       /\ v \in Own
       /\ synced /\ \E n \in DOMAIN folders : folders[n].owner = "shio"]_vars

(***************************************************************************)
(* "Existing destinations are never merged or replaced."                   *)
(***************************************************************************)
UserFoldersStay ==
  [][\A n \in DOMAIN folders : folders[n] # NoFolder => folders'[n] = folders[n]]_vars
=============================================================================
