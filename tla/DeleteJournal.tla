--------------------------- MODULE DeleteJournal ---------------------------
(***************************************************************************)
(* The removal of a download, or of the rows of an archive set             *)
(* (`DownloadEngine::remove`, engine/delete.rs).  The files of each row    *)
(* are renamed into a quarantine directory that a journal in the database  *)
(* names, then the rows are deleted in one transaction, then staging and   *)
(* quarantines.  A failure before the transaction is rolled back, and so   *)
(* is a crash, by `recover` at the next start; after it, `recover` purges  *)
(* what the crash left.  AtomicDelete is what all this is for.             *)
(*                                                                         *)
(* The files of a row are renamed in any order, and removing a file whose  *)
(* path leads through a symbolic link is a failure like the others.        *)
(* "Mutant" marks a bug that the run must notice.                          *)
(***************************************************************************)
EXTENDS Naturals, FiniteSets

CONSTANTS
  Rows,           (* Number of rows removed together, in the set's order.   *)
  OwnerOf,        (* The row of each file.                                  *)
  RetryWhileStuck,(* Users remove a row again whose rollback failed, without*)
                  (* restarting the program in between.                     *)
  MaxFailures,    (* Bound: file system and database operations that fail.  *)
  MaxForeign,     (* Bound: files put where a quarantined one came from.    *)
  MaxRestarts     (* Bound: times the process is killed.                    *)

Files == DOMAIN OwnerOf
Owners == 1..Rows
FilesOf(o) == {f \in Files : OwnerOf[f] = o}

VARIABLES
  rows,           (* The rows are in the database.                          *)
  place,          (* At the path of each file: "own", "foreign" or "none".  *)
  quarantine,     (* In the quarantine, the same.                           *)
  dirs,           (* Owners whose quarantine directory exists.              *)
  journal,        (* The files their journals name; no journal names none.  *)
  staging,        (* Something staged is left in the download folder.       *)
  folder,         (* The download folder exists.                            *)
  engine,         (* Where the engine stands.                               *)
  failures, foreign, restarts

diskVars == <<place, quarantine, dirs, staging, folder>>
boundVars == <<failures, foreign, restarts>>
vars == <<rows, diskVars, journal, engine, boundVars>>

Steps ==
  {"down", "recover", "idle", "create", "journal", "move", "undo", "undoDir",
   "undoJournal", "delete", "staging", "purge", "folder", "commit"}
Idle ==
  [pc |-> "idle", owner |-> 1, todo |-> {}, moved |-> {}, made |-> {},
   withFiles |-> FALSE, restored |-> TRUE]
Down == [Idle EXCEPT !.pc = "down"]

-----------------------------------------------------------------------------
(* Helpers *)

At(pc) == engine.pc = pc
Goto(pc) == engine' = [engine EXCEPT !.pc = pc]

(* An operation that fails leaves everything but the engine as it was. *)
Fails ==
  /\ failures < MaxFailures
  /\ failures' = failures + 1
  /\ UNCHANGED <<rows, diskVars, journal, foreign, restarts>>
Works == UNCHANGED boundVars

Existing(o) == {f \in FilesOf(o) : place[f] # "none"}
Quarantined(o) == {f \in FilesOf(o) : quarantine[f] # "none"}
Journaled == {o \in Owners : journal[o] # {}}

Rename(f) ==
  /\ place' = [place EXCEPT ![f] = "none"]
  /\ quarantine' = [quarantine EXCEPT ![f] = place[f]]
Restore(f) ==
  /\ place' = [place EXCEPT ![f] = quarantine[f]]
  /\ quarantine' = [quarantine EXCEPT ![f] = "none"]

(* `rollback`, from owner o back to the first. *)
RollbackFrom(o) ==
  engine' = IF o = 0 THEN Idle
            ELSE [engine EXCEPT !.pc = "undo", !.owner = o, !.todo = {}, !.restored = TRUE]

(* The quarantine of the next row, or the end of them all. *)
NextQuarantine(e) ==
  IF e.owner = Rows THEN [e EXCEPT !.pc = "delete", !.owner = 1]
  ELSE [e EXCEPT !.pc = "create", !.owner = @ + 1]

-----------------------------------------------------------------------------
(* `quarantine` *)

(* Only with its files: `targets` and `preflight`, which refuses some. *)
Remove(files) ==
  /\ At("idle") /\ rows
  /\ RetryWhileStuck \/ Journaled = {}
  /\ \/ /\ engine' = [Idle EXCEPT !.pc = IF files THEN "create" ELSE "delete", !.withFiles = files]
        /\ Works
        /\ UNCHANGED <<rows, diskVars, journal>>
     \/ files /\ Fails /\ UNCHANGED engine

(* A row of which no file exists needs no directory.  One that is there      *)
(* already is "an earlier delete quarantine".                                *)
CreateDir ==
  /\ At("create")
  /\ LET o == engine.owner IN
     \/ /\ Existing(o) = {}
        /\ engine' = NextQuarantine(engine)
        /\ Works
        /\ UNCHANGED <<rows, diskVars, journal>>
     \/ /\ Existing(o) # {} /\ o \notin dirs
        /\ dirs' = dirs \cup {o}
        /\ engine' = [engine EXCEPT !.pc = "journal", !.todo = Existing(o), !.made = @ \cup {o}]
        /\ Works
        /\ UNCHANGED <<rows, place, quarantine, staging, folder, journal>>
     \/ /\ Existing(o) # {} /\ o \in dirs
        /\ RollbackFrom(o - 1)
        /\ Works
        /\ UNCHANGED <<rows, diskVars, journal>>
     \/ Existing(o) # {} /\ Fails /\ RollbackFrom(o - 1)

(* An owner has one journal; without it the new directory is removed. *)
WriteJournal ==
  /\ At("journal")
  /\ LET o == engine.owner IN
     \/ /\ journal[o] = {}
        /\ journal' = [journal EXCEPT ![o] = engine.todo]
        /\ Goto("move")
        /\ Works
        /\ UNCHANGED <<rows, diskVars>>
     \/ \E refused, stuck \in {0, 1} :
          /\ journal[o] # {} \/ refused = 1
          /\ failures + refused + stuck <= MaxFailures
          /\ failures' = failures + refused + stuck
          /\ dirs' = IF stuck = 1 THEN dirs ELSE dirs \ {o}
          /\ RollbackFrom(o - 1)
          /\ UNCHANGED <<rows, place, quarantine, staging, folder, journal, foreign, restarts>>

MoveFile ==
  /\ At("move")
  /\ \/ /\ engine.todo = {}
        /\ engine' = NextQuarantine(engine)
        /\ Works
        /\ UNCHANGED <<rows, diskVars, journal>>
     \/ \E f \in engine.todo :
          /\ Rename(f)
          /\ engine' = [engine EXCEPT !.todo = @ \ {f}, !.moved = @ \cup {f}]
          /\ Works
          /\ UNCHANGED <<rows, dirs, staging, folder, journal>>
     \/ engine.todo # {} /\ Fails /\ RollbackFrom(engine.owner)

-----------------------------------------------------------------------------
(* `rollback`.  What it cannot move back stays quarantined, with the journal. *)

UndoMove ==
  /\ At("undo")
  /\ LET left == engine.moved \cap FilesOf(engine.owner) IN
     \/ /\ left = {}
        /\ Goto(IF engine.owner \in engine.made THEN "undoDir" ELSE "undoJournal")
        /\ Works
        /\ UNCHANGED <<rows, diskVars, journal>>
     \/ \E f \in left :
          /\ engine' = [engine EXCEPT !.moved = @ \ {f}]
          /\ Restore(f)
          /\ Works
          /\ UNCHANGED <<rows, dirs, staging, folder, journal>>
     \/ \E f \in left :
          /\ Fails
          /\ engine' = [engine EXCEPT !.moved = @ \ {f}, !.restored = FALSE]

UndoDir ==
  /\ At("undoDir")
  /\ \/ /\ Quarantined(engine.owner) = {}
        /\ dirs' = dirs \ {engine.owner}
        /\ Goto("undoJournal")
        /\ Works
        /\ UNCHANGED <<rows, place, quarantine, staging, folder, journal>>
     \/ /\ Quarantined(engine.owner) # {}
        /\ engine' = [engine EXCEPT !.pc = "undoJournal", !.restored = FALSE]
        /\ Works
        /\ UNCHANGED <<rows, diskVars, journal>>
     \/ Fails /\ engine' = [engine EXCEPT !.pc = "undoJournal", !.restored = FALSE]

(* Mutant: the journal goes whatever the rollback left. *)
ClearsAnyway == TRUE

(* The journal goes with the last file that was moved back. *)
Clears == engine.restored

UndoJournal ==
  /\ At("undoJournal")
  /\ RollbackFrom(engine.owner - 1)
  /\ \/ /\ journal' = IF Clears THEN [journal EXCEPT ![engine.owner] = {}] ELSE journal
        /\ Works
        /\ UNCHANGED <<rows, diskVars>>
     \/ engine.restored /\ Fails

-----------------------------------------------------------------------------
(* The transaction, and `commit`. *)

DeleteRows ==
  /\ At("delete")
  /\ \/ /\ rows' = FALSE
        /\ Goto("staging")
        /\ Works
        /\ UNCHANGED <<diskVars, journal>>
     \/ Fails /\ RollbackFrom(IF engine.withFiles THEN Rows ELSE 0)

(* Mutant: the folders are looked at before the staging goes. *)
StagingStays == UNCHANGED staging

(* "Staging goes first so the directories it lived in can be removed." *)
StagingGoes == staging' = FALSE

RemoveStaging ==
  /\ At("staging")
  /\ engine' = IF engine.withFiles THEN [engine EXCEPT !.pc = "purge"] ELSE Idle
  /\ \/ /\ StagingGoes
        /\ Works
        /\ UNCHANGED <<rows, place, quarantine, dirs, folder, journal>>
     \/ Fails

(* `remove_dir_all`, a file at a time. *)
Purge(o) ==
  \/ \E f \in Quarantined(o) :
       /\ quarantine' = [quarantine EXCEPT ![f] = "none"]
       /\ UNCHANGED dirs
  \/ /\ Quarantined(o) = {}
     /\ dirs' = dirs \ {o}
     /\ UNCHANGED quarantine

PurgeQuarantine ==
  /\ At("purge")
  /\ \/ /\ engine.owner \in engine.made \cap dirs
        /\ Purge(engine.owner)
        /\ Works
        /\ UNCHANGED <<rows, place, staging, folder, journal, engine>>
     \/ /\ engine.owner \notin engine.made \cap dirs
        /\ Goto("folder")
        /\ Works
        /\ UNCHANGED <<rows, diskVars, journal>>
     \/ /\ engine.owner \in engine.made /\ Fails
        /\ engine' = [engine EXCEPT !.pc = "folder", !.restored = FALSE]

(* The download folder goes when it is empty. *)
RemoveFolder ==
  /\ At("folder")
  /\ Goto("commit")
  /\ \/ /\ folder' = (folder /\ (staging \/ \E f \in Files : place[f] # "none"))
        /\ Works
        /\ UNCHANGED <<rows, place, quarantine, dirs, staging, journal>>
     \/ Fails

CommitJournal ==
  /\ At("commit")
  /\ engine' = IF engine.owner = Rows THEN [Idle EXCEPT !.withFiles = TRUE]
               ELSE [engine EXCEPT !.pc = "purge", !.owner = @ + 1, !.restored = TRUE]
  /\ \/ /\ journal' = IF engine.restored THEN [journal EXCEPT ![engine.owner] = {}] ELSE journal
        /\ Works
        /\ UNCHANGED <<rows, diskVars>>
     \/ engine.restored /\ Fails

-----------------------------------------------------------------------------
(* Crashes, starts and the users of the folder. *)

Crash ==
  /\ restarts < MaxRestarts
  /\ restarts' = restarts + 1
  /\ ~At("down")
  /\ engine' = Down
  /\ UNCHANGED <<rows, diskVars, journal, failures, foreign>>

Start ==
  /\ At("down")
  /\ engine' = [Idle EXCEPT !.pc = "recover"]
  /\ Works
  /\ UNCHANGED <<rows, diskVars, journal>>

Recovering(o) == At("recover") /\ o \in Journaled /\ \A p \in Journaled : o <= p

(* Nothing is at the path a file came from. *)
IsFree(f) == place[f] = "none"

(* Mutant: files are moved back even when their rows are gone. *)
MovesBackAnyway == TRUE

(* The rows survived. *)
MovesBack == rows

(* A file in the way is DestinationExists: the program does not start. *)
RecoverMove(o) ==
  /\ Recovering(o) /\ MovesBack
  /\ \E f \in journal[o] :
       /\ quarantine[f] # "none"
       /\ \/ /\ IsFree(f)
             /\ Restore(f)
             /\ Works
             /\ UNCHANGED <<rows, dirs, staging, folder, journal, engine>>
          \/ /\ ~IsFree(f)
             /\ engine' = Down
             /\ Works
             /\ UNCHANGED <<rows, diskVars, journal>>
          \/ Fails /\ engine' = Down

RecoverDir(o) ==
  /\ Recovering(o) /\ o \in dirs
  /\ \/ /\ MovesBack
        /\ Quarantined(o) = {}
        /\ dirs' = dirs \ {o}
        /\ UNCHANGED quarantine
     \/ ~MovesBack /\ Purge(o)
  /\ Works
  /\ UNCHANGED <<rows, place, staging, folder, journal, engine>>

RecoverJournal(o) ==
  /\ Recovering(o) /\ o \notin dirs
  /\ journal' = [journal EXCEPT ![o] = {}]
  /\ Works
  /\ UNCHANGED <<rows, diskVars, engine>>

RecoverFails(o) ==
  /\ Recovering(o)
  /\ Fails
  /\ engine' = Down

Recovered ==
  /\ At("recover") /\ Journaled = {}
  /\ engine' = Idle
  /\ Works
  /\ UNCHANGED <<rows, diskVars, journal>>

(* A user puts a file where a quarantined one came from, not within the      *)
(* moments of a rollback (its rename replaces what it finds).                *)
Intrude(f) ==
  /\ foreign < MaxForeign
  /\ foreign' = foreign + 1
  /\ engine.pc \in {"idle", "down"}
  /\ rows /\ quarantine[f] # "none" /\ place[f] = "none"
  /\ place' = [place EXCEPT ![f] = "foreign"]
  /\ UNCHANGED <<rows, quarantine, dirs, staging, folder, journal, engine, failures, restarts>>

(* And takes it away again, as nothing starts with it. *)
TakeAway(f) ==
  /\ At("down")
  /\ place[f] = "foreign"
  /\ place' = [place EXCEPT ![f] = "none"]
  /\ Works
  /\ UNCHANGED <<rows, quarantine, dirs, staging, folder, journal, engine>>

Init ==
  /\ rows = TRUE
  /\ place \in [Files -> {"own", "none"}]
  /\ quarantine = [f \in Files |-> "none"]
  /\ dirs = {}
  /\ journal = [o \in Owners |-> {}]
  /\ staging = TRUE /\ folder = TRUE
  /\ engine = Idle
  /\ failures = 0 /\ foreign = 0 /\ restarts = 0

Next ==
  \/ \E files \in BOOLEAN : Remove(files)
  \/ CreateDir \/ WriteJournal \/ MoveFile
  \/ UndoMove \/ UndoDir \/ UndoJournal
  \/ DeleteRows \/ RemoveStaging \/ PurgeQuarantine \/ RemoveFolder \/ CommitJournal
  \/ Crash \/ Start \/ Recovered
  \/ \E o \in Owners : RecoverMove(o) \/ RecoverDir(o) \/ RecoverJournal(o) \/ RecoverFails(o)
  \/ \E f \in Files : Intrude(f) \/ TakeAway(f)

Spec == Init /\ [][Next]_vars

-----------------------------------------------------------------------------
(* Properties. *)

TypeOK ==
  /\ rows \in BOOLEAN
  /\ place \in [Files -> {"own", "foreign", "none"}]
  /\ quarantine \in [Files -> {"own", "foreign", "none"}]
  /\ dirs \in SUBSET Owners
  /\ journal \in [Owners -> SUBSET Files]
  /\ staging \in BOOLEAN /\ folder \in BOOLEAN
  /\ engine \in [pc : Steps, owner : Owners, todo : SUBSET Files, moved : SUBSET Files,
                 made : SUBSET Owners, withFiles : BOOLEAN, restored : BOOLEAN]
  /\ failures \in 0..MaxFailures
  /\ foreign \in 0..MaxForeign
  /\ restarts \in 0..MaxRestarts

(***************************************************************************)
(* Whatever is in a quarantine is named by a journal, and so found again   *)
(* by the next start: no failure and no crash leaves files where neither   *)
(* the user nor the program looks for them.                                *)
(***************************************************************************)
QuarantineIsJournaled ==
  \A f \in Files : quarantine[f] # "none" => f \in journal[OwnerOf[f]]

(***************************************************************************)
(* A removal with its files that nothing disturbed leaves no quarantine,   *)
(* no journal, no staging and no empty folder.                             *)
(***************************************************************************)
RemovedWithoutTrace ==
  /\ ~rows /\ At("idle") /\ engine.withFiles
  /\ failures = 0 /\ restarts = 0
  /\ \A f \in Files : place[f] = "none"
  => ~folder /\ ~staging /\ dirs = {} /\ Journaled = {}

(***************************************************************************)
(* A file of the user's is neither overwritten nor moved by what undoes an *)
(* interrupted removal.                                                    *)
(***************************************************************************)
ForeignFilesStay ==
  [][\A f \in Files : place[f] = "foreign" => place'[f] = "foreign" \/ At("down")]_vars

(***************************************************************************)
(* The removal is atomic: a quarantined file counts as long as its row     *)
(* does, for it will be moved back.                                        *)
(***************************************************************************)
Kept ==
  {f \in Files : place[f] = "own" \/ (rows /\ quarantine[f] = "own")}

Atomic == INSTANCE AtomicDelete WITH files <- Kept
RemovesAtomically == Atomic!Spec
=============================================================================
