----------------------------- MODULE FilesProofs -----------------------------
(***************************************************************************)
(* What becomes of the files, proved for any values of the constants.      *)
(*                                                                         *)
(* A removal: atomic, nothing in a quarantine that no journal names, no    *)
(* file of the user moved, and nothing left behind when nothing disturbs   *)
(* it.  A torrent runs in the session for its row only.  A volume is       *)
(* deleted once it is unpacked, no folder is replaced, and each holds its  *)
(* archive within the limits.  A sanitized name needs no second pass.  At  *)
(* the end these, and what HttpFilesProofs, TorrentFilesProofs and         *)
(* DestinationsProofs prove, are put together: MCSpec is a behaviour of    *)
(* every part, for no step moves two of them.                              *)
(*                                                                         *)
(* Assumed of a removal is that nobody removes a row again whose rollback  *)
(* failed (the run DeleteStuck shows what happens then).                   *)
(***************************************************************************)
EXTENDS MCFiles, TLAPS, FiniteSetTheorems, WellFoundedInduction


RemovalAssumptions ==
  /\ Rows \in Nat \ {0}
  /\ OwnerOf \in [Files -> Owners]
  /\ RetryWhileStuck = FALSE

Places == {"own", "foreign", "none"}
Engines ==
  [pc : Steps, owner : Owners, todo : SUBSET Files, moved : SUBSET Files,
   made : SUBSET Owners, withFiles : BOOLEAN, restored : BOOLEAN]
Typed ==
  /\ rows \in BOOLEAN
  /\ place \in [Files -> Places]
  /\ quarantine \in [Files -> Places]
  /\ journal \in [Owners -> SUBSET Files]
  /\ engine \in Engines

-----------------------------------------------------------------------------
(* The inductive invariant, by what the engine is doing.                    *)

Quarantining == {"create", "journal", "move", "delete"}
Undoing == {"undo", "undoDir", "undoJournal"}
Purging == {"staging", "purge", "folder", "commit"}

(* A file of an owner before o, or of o itself, is where it was. *)
AllMovedBefore(o) == \A f \in Files : OwnerOf[f] < o => place[f] = "none"
NoneMovedFrom(o) == \A f \in engine.moved : OwnerOf[f] < o

(* A quarantined file is in a directory, which nothing removes under it. *)
InDirectory == \A f \in Files : quarantine[f] # "none" => OwnerOf[f] \in dirs

RowsStay == engine.pc \in Quarantining \cup Undoing => rows = TRUE
RowsGo == engine.pc \in Purging => rows = FALSE
MovedAreAway ==
  engine.pc \in Quarantining \cup Undoing => \A f \in engine.moved : place[f] = "none"

(* The quarantine holds what this removal moved, in directories it made. *)
MovedByThis ==
  engine.pc \in Quarantining => \A f \in Files : quarantine[f] # "none" => f \in engine.moved
MadeByThis ==
  engine.pc \in Quarantining \cup Purging =>
    \A f \in Files : quarantine[f] # "none" => OwnerOf[f] \in engine.made

WithFiles == engine.pc \in {"create", "journal", "move"} => engine.withFiles = TRUE
OwnersInOrder == engine.pc \in {"create", "journal", "move"} => AllMovedBefore(engine.owner)
NextIsUntouched == engine.pc \in {"create", "journal"} => NoneMovedFrom(engine.owner)
OwnDirectory ==
  engine.pc \in {"journal", "move"} =>
    /\ engine.owner \in dirs
    /\ engine.owner \in engine.made
    /\ engine.todo = Existing(engine.owner)
MovesInOrder ==
  engine.pc = "move" =>
    /\ engine.todo \subseteq journal[engine.owner]
    /\ \A f \in engine.moved : OwnerOf[f] <= engine.owner

AllOrNothing ==
  engine.pc = "delete" =>
    IF engine.withFiles = TRUE THEN \A f \in Files : place[f] = "none"
    ELSE \A f \in Files : quarantine[f] = "none"

(* What is still to be moved back, and what can no longer be. *)
UndoneLater ==
  engine.pc \in Undoing =>
    \A f \in Files : OwnerOf[f] < engine.owner /\ quarantine[f] # "none" => f \in engine.moved
UndoneNow ==
  engine.pc = "undo" /\ engine.restored = TRUE =>
    \A f \in FilesOf(engine.owner) : quarantine[f] # "none" => f \in engine.moved
Emptied ==
  engine.pc \in {"undoDir", "undoJournal", "folder", "commit"} /\ engine.restored = TRUE =>
    Quarantined(engine.owner) = {}

Stage ==
  /\ RowsStay /\ RowsGo /\ MovedAreAway /\ MovedByThis /\ MadeByThis /\ WithFiles
  /\ OwnersInOrder /\ NextIsUntouched /\ OwnDirectory /\ MovesInOrder /\ AllOrNothing
  /\ UndoneLater /\ UndoneNow /\ Emptied

IInv == Typed /\ QuarantineIsJournaled /\ InDirectory /\ Stage

(* A step of the engine in which nothing is under way says nothing more. *)
LEMMA NothingUnderWay ==
  ASSUME engine'.pc \in {"idle", "down", "recover"} PROVE Stage'
BY DEF Stage, RowsStay, RowsGo, MovedAreAway, MovedByThis, MadeByThis, WithFiles,
     OwnersInOrder, NextIsUntouched, OwnDirectory, MovesInOrder, AllOrNothing, UndoneLater,
     UndoneNow, Emptied, Quarantining, Undoing, Purging

LEMMA InitIInv == ASSUME RemovalAssumptions, Init PROVE IInv
<1>1. /\ engine.pc = "idle"
      /\ engine \in Engines
      /\ journal \in [Owners -> SUBSET Files]
  BY DEF Init, Idle, RemovalAssumptions, Owners, Engines, Steps
<1>2. Typed
  BY <1>1 DEF Init, Typed, Places
<1>3. QuarantineIsJournaled /\ InDirectory
  BY DEF Init, QuarantineIsJournaled, InDirectory
<1>4. Stage
  BY <1>1 DEF Stage, RowsStay, RowsGo, MovedAreAway, MovedByThis, MadeByThis, WithFiles,
     OwnersInOrder, NextIsUntouched, OwnDirectory, MovesInOrder, AllOrNothing, UndoneLater,
     UndoneNow, Emptied, Quarantining, Undoing, Purging
<1>. QED
  BY <1>1, <1>2, <1>3, <1>4 DEF IInv

-----------------------------------------------------------------------------
(* How the engine goes on. *)

LEMMA GotoLooks ==
  ASSUME engine \in Engines, NEW pc \in Steps, Goto(pc)
  PROVE  /\ engine' \in Engines
         /\ engine'.pc = pc
         /\ engine'.owner = engine.owner
         /\ engine'.todo = engine.todo
         /\ engine'.moved = engine.moved
         /\ engine'.made = engine.made
         /\ engine'.withFiles = engine.withFiles
         /\ engine'.restored = engine.restored
BY DEF Goto, Engines

LEMMA IdleLooks ==
  ASSUME RemovalAssumptions PROVE Idle \in Engines /\ Down \in Engines /\ Down.pc = "down"
<1>1. 1 \in Owners
  BY DEF RemovalAssumptions, Owners
<1>2. Idle \in Engines
  BY <1>1 DEF Idle, Engines, Steps
<1>3. Down \in Engines /\ Down.pc = "down"
  BY <1>2 DEF Down, Engines, Steps
<1>. QED
  BY <1>2, <1>3

LEMMA RollbackLooks ==
  ASSUME RemovalAssumptions, engine \in Engines, NEW o \in 0..Rows, RollbackFrom(o)
  PROVE  /\ engine' \in Engines
         /\ \/ engine'.pc = "idle"
            \/ /\ engine'.pc = "undo"
               /\ engine'.owner = o
               /\ engine'.moved = engine.moved
<1>1. CASE o = 0
  BY <1>1, IdleLooks DEF RollbackFrom, Idle
<1>2. CASE o # 0
  <2>1. o \in Owners
    BY <1>2 DEF Owners, RemovalAssumptions
  <2>2. engine' = [engine EXCEPT !.pc = "undo", !.owner = o, !.todo = {}, !.restored = TRUE]
    BY <1>2 DEF RollbackFrom
  <2>. QED
    BY <2>1, <2>2 DEF Engines, Steps
<1>. QED
  BY <1>1, <1>2

(***************************************************************************)
(* The rollback may begin at an owner when what the quarantine holds of    *)
(* it and of those before it was moved by this removal.                    *)
(***************************************************************************)
LEMMA RollbackBegins ==
  ASSUME RemovalAssumptions, Typed, NEW o \in 0..Rows, RollbackFrom(o),
         UNCHANGED <<rows, place, quarantine>>,
         rows = TRUE,
         \A f \in engine.moved : place[f] = "none",
         \A f \in Files : OwnerOf[f] <= o /\ quarantine[f] # "none" => f \in engine.moved
  PROVE  engine' \in Engines /\ Stage'
<1>1. engine \in Engines
  BY DEF Typed
<1>2. engine' \in Engines
  BY <1>1, RollbackLooks
<1>3. CASE engine'.pc = "idle"
  BY <1>2, <1>3, NothingUnderWay
<1>4. CASE engine'.pc = "undo" /\ engine'.owner = o /\ engine'.moved = engine.moved
  <2>1. o \in Nat /\ OwnerOf \in [Files -> Nat]
    BY DEF RemovalAssumptions, Owners
  <2>2. RowsStay' /\ RowsGo'
    BY <1>4 DEF RowsStay, RowsGo, Purging
  <2>3. MovedAreAway'
    BY <1>4 DEF MovedAreAway
  <2>4. /\ MovedByThis' /\ MadeByThis' /\ WithFiles' /\ OwnersInOrder' /\ NextIsUntouched'
        /\ OwnDirectory' /\ MovesInOrder' /\ AllOrNothing' /\ Emptied'
    BY <1>4 DEF MovedByThis, MadeByThis, WithFiles, OwnersInOrder, NextIsUntouched,
         OwnDirectory, MovesInOrder, AllOrNothing, Emptied, Quarantining, Purging
  <2>5. UndoneLater' /\ UndoneNow'
    BY <1>4, <2>1 DEF UndoneLater, UndoneNow, FilesOf
  <2>. QED
    BY <1>2, <2>2, <2>3, <2>4, <2>5 DEF Stage
<1>. QED
  BY <1>1, <1>3, <1>4, RollbackLooks

-----------------------------------------------------------------------------
(* Quarantining. *)

LEMMA RemoveKeeps ==
  ASSUME RemovalAssumptions, IInv, NEW files \in BOOLEAN, Remove(files) PROVE IInv'
<1>. USE DEF IInv
<1>1. UNCHANGED <<rows, place, quarantine, dirs, journal>>
  BY DEF Remove, Fails, diskVars
<1>2. CASE UNCHANGED engine
  BY <1>1, <1>2 DEF Typed, QuarantineIsJournaled, InDirectory, Existing, Quarantined, Stage,
     RowsStay, RowsGo, MovedAreAway, MovedByThis, MadeByThis, WithFiles, OwnersInOrder,
     NextIsUntouched, OwnDirectory, MovesInOrder, AllOrNothing, UndoneLater, UndoneNow, Emptied,
     AllMovedBefore, NoneMovedFrom
<1>3. CASE engine' = [Idle EXCEPT !.pc = IF files THEN "create" ELSE "delete", !.withFiles = files]
  <2>1. rows = TRUE /\ Journaled = {}
    BY DEF Remove, RemovalAssumptions
  <2>2. \A f \in Files : quarantine[f] = "none"
    BY <2>1 DEF QuarantineIsJournaled, Journaled, RemovalAssumptions
  <2>3. /\ engine' \in Engines
        /\ engine'.pc = IF files THEN "create" ELSE "delete"
        /\ engine'.withFiles = files
        /\ engine'.moved = {} /\ engine'.owner = 1
    <3>1. Idle \in Engines
      BY IdleLooks
    <3>2. Idle.moved = {} /\ Idle.owner = 1
      BY DEF Idle
    <3>3. (IF files THEN "create" ELSE "delete") \in Steps
      BY DEF Steps
    <3>. QED
      BY <1>3, <3>1, <3>2, <3>3 DEF Engines
  <2>4. RowsStay' /\ RowsGo'
    BY <1>1, <2>1, <2>3 DEF RowsStay, RowsGo, Purging
  <2>5. MovedAreAway' /\ MovedByThis' /\ MadeByThis'
    BY <1>1, <2>2, <2>3 DEF MovedAreAway, MovedByThis, MadeByThis
  <2>6. WithFiles'
    BY <2>3 DEF WithFiles
  <2>7. OwnersInOrder' /\ NextIsUntouched'
    BY <2>3 DEF OwnersInOrder, NextIsUntouched, AllMovedBefore, NoneMovedFrom, RemovalAssumptions, Owners
  <2>8. OwnDirectory' /\ MovesInOrder' /\ UndoneLater' /\ UndoneNow' /\ Emptied'
    BY <2>3 DEF OwnDirectory, MovesInOrder, UndoneLater, UndoneNow, Emptied, Undoing
  <2>9. AllOrNothing'
    BY <1>1, <2>2, <2>3 DEF AllOrNothing
  <2>10. Stage'
    BY <2>4, <2>5, <2>6, <2>7, <2>8, <2>9 DEF Stage
  <2>. QED
    BY <1>1, <2>3, <2>10 DEF Typed, QuarantineIsJournaled, InDirectory
<1>. QED
  BY <1>2, <1>3 DEF Remove

LEMMA NextQuarantineKeeps ==
  ASSUME RemovalAssumptions, IInv, engine.pc \in {"create", "move"}, Existing(engine.owner) = {},
         engine' = NextQuarantine(engine),
         UNCHANGED <<rows, place, quarantine, dirs, journal>>
  PROVE  IInv'
<1>. USE DEF IInv
<1>1. /\ engine \in Engines /\ engine.owner \in Owners
      /\ OwnerOf \in [Files -> Nat] /\ engine.owner \in Nat /\ Rows \in Nat
      /\ engine.moved \subseteq Files
  BY DEF Typed, Engines, RemovalAssumptions, Owners
<1>2. rows = TRUE /\ \A f \in engine.moved : place[f] = "none"
  BY DEF Stage, RowsStay, MovedAreAway, Quarantining
<1>3. \A f \in Files : quarantine[f] # "none" => f \in engine.moved /\ OwnerOf[f] \in engine.made
  BY DEF Stage, MovedByThis, MadeByThis, Quarantining
<1>4. engine.withFiles = TRUE
  BY DEF Stage, WithFiles
<1>5. \A f \in Files : OwnerOf[f] <= engine.owner => place[f] = "none"
  BY <1>1 DEF Stage, OwnersInOrder, AllMovedBefore, Existing, FilesOf
<1>6. \A f \in engine.moved : OwnerOf[f] <= engine.owner
  <2>1. CASE engine.pc = "create"
    BY <1>1, <2>1 DEF Stage, NextIsUntouched, NoneMovedFrom
  <2>2. CASE engine.pc = "move"
    BY <2>2 DEF Stage, MovesInOrder
  <2>. QED
    BY <2>1, <2>2
<1>7. CASE engine.owner = Rows
  <2>1. engine' = [engine EXCEPT !.pc = "delete", !.owner = 1]
    BY <1>7 DEF NextQuarantine
  <2>2. /\ engine' \in Engines /\ engine'.pc = "delete"
        /\ engine'.moved = engine.moved /\ engine'.made = engine.made
        /\ engine'.withFiles = engine.withFiles
    <3>1. 1 \in Owners
      BY DEF Owners, RemovalAssumptions
    <3>. QED
      BY <1>1, <2>1, <3>1 DEF Engines, Steps
  <2>3. RowsStay' /\ RowsGo' /\ MovedAreAway' /\ MovedByThis' /\ MadeByThis'
    BY <1>2, <1>3, <2>2 DEF RowsStay, RowsGo, MovedAreAway, MovedByThis, MadeByThis, Purging
  <2>4. AllOrNothing'
    BY <1>1, <1>4, <1>5, <1>7, <2>2 DEF AllOrNothing, RemovalAssumptions, Owners
  <2>5. /\ WithFiles' /\ OwnersInOrder' /\ NextIsUntouched' /\ OwnDirectory' /\ MovesInOrder'
        /\ UndoneLater' /\ UndoneNow' /\ Emptied'
    BY <2>2 DEF WithFiles, OwnersInOrder, NextIsUntouched, OwnDirectory, MovesInOrder,
       UndoneLater, UndoneNow, Emptied, Undoing
  <2>6. Stage'
    BY <2>3, <2>4, <2>5 DEF Stage
  <2>. QED
    BY <2>2, <2>6 DEF Typed, QuarantineIsJournaled, InDirectory
<1>8. CASE engine.owner # Rows
  <2>1. engine' = [engine EXCEPT !.pc = "create", !.owner = @ + 1]
    BY <1>8 DEF NextQuarantine
  <2>2. /\ engine' \in Engines /\ engine'.pc = "create" /\ engine'.owner = engine.owner + 1
        /\ engine'.moved = engine.moved /\ engine'.made = engine.made
        /\ engine'.withFiles = engine.withFiles
    <3>1. engine.owner + 1 \in Owners
      BY <1>1, <1>8 DEF Owners
    <3>. QED
      BY <1>1, <2>1, <3>1 DEF Engines, Steps
  <2>3. RowsStay' /\ RowsGo' /\ MovedAreAway' /\ MovedByThis' /\ MadeByThis' /\ WithFiles'
    BY <1>2, <1>3, <1>4, <2>2
       DEF RowsStay, RowsGo, MovedAreAway, MovedByThis, MadeByThis, WithFiles, Purging
  <2>4. OwnersInOrder' /\ NextIsUntouched'
    BY <1>1, <1>5, <1>6, <2>2 DEF OwnersInOrder, NextIsUntouched, AllMovedBefore, NoneMovedFrom
  <2>5. OwnDirectory' /\ MovesInOrder' /\ AllOrNothing' /\ UndoneLater' /\ UndoneNow' /\ Emptied'
    BY <2>2 DEF OwnDirectory, MovesInOrder, AllOrNothing, UndoneLater, UndoneNow, Emptied, Undoing
  <2>6. Stage'
    BY <2>3, <2>4, <2>5 DEF Stage
  <2>. QED
    BY <2>2, <2>6 DEF Typed, QuarantineIsJournaled, InDirectory
<1>. QED
  BY <1>7, <1>8

(* The quarantine is given up, for the owners up to o. *)
LEMMA GivingUpKeeps ==
  ASSUME RemovalAssumptions, IInv, NEW o \in 0..Rows, RollbackFrom(o),
         engine.pc \in Quarantining,
         UNCHANGED <<rows, place, quarantine, journal>>,
         InDirectory'
  PROVE  IInv'
<1>. USE DEF IInv
<1>1. rows = TRUE /\ \A f \in engine.moved : place[f] = "none"
  BY DEF Stage, RowsStay, MovedAreAway
<1>2. \A f \in Files : OwnerOf[f] <= o /\ quarantine[f] # "none" => f \in engine.moved
  BY DEF Stage, MovedByThis
<1>3. engine' \in Engines /\ Stage'
  BY <1>1, <1>2, RollbackBegins
<1>. QED
  BY <1>3 DEF Typed, QuarantineIsJournaled

LEMMA CreateDirKeeps ==
  ASSUME RemovalAssumptions, IInv, CreateDir PROVE IInv'
<1>. USE DEF IInv
<1>1. /\ engine.pc = "create"
      /\ engine \in Engines /\ engine.owner \in Owners
      /\ engine.owner - 1 \in 0..Rows
      /\ UNCHANGED <<rows, place, quarantine, journal>>
  BY DEF CreateDir, At, Typed, Engines, Owners, RemovalAssumptions, Fails, diskVars
<1>2. CASE Existing(engine.owner) = {} /\ engine' = NextQuarantine(engine) /\ UNCHANGED dirs
  BY <1>1, <1>2, NextQuarantineKeeps
<1>3. CASE RollbackFrom(engine.owner - 1) /\ UNCHANGED dirs
  BY <1>1, <1>3, GivingUpKeeps DEF InDirectory, Quarantining
<1>4. CASE /\ dirs' = dirs \cup {engine.owner}
           /\ engine' = [engine EXCEPT !.pc = "journal", !.todo = Existing(engine.owner),
                                       !.made = @ \cup {engine.owner}]
  <2>1. /\ engine' \in Engines /\ engine'.pc = "journal"
        /\ engine'.owner = engine.owner /\ engine'.todo = Existing(engine.owner)
        /\ engine'.moved = engine.moved /\ engine'.made = engine.made \cup {engine.owner}
        /\ engine'.withFiles = engine.withFiles
    <3>1. Existing(engine.owner) \in SUBSET Files
      BY DEF Existing, FilesOf
    <3>. QED
      BY <1>1, <1>4, <3>1 DEF Engines, Steps
  <2>2. RowsStay' /\ RowsGo' /\ MovedAreAway' /\ MovedByThis' /\ MadeByThis' /\ WithFiles'
    BY <1>1, <2>1 DEF Stage, RowsStay, RowsGo, MovedAreAway, MovedByThis, MadeByThis, WithFiles,
       Quarantining, Purging
  <2>3. OwnersInOrder' /\ NextIsUntouched'
    BY <1>1, <2>1 DEF Stage, OwnersInOrder, NextIsUntouched, AllMovedBefore, NoneMovedFrom
  <2>4. OwnDirectory'
    BY <1>1, <1>4, <2>1 DEF OwnDirectory, Existing
  <2>5. MovesInOrder' /\ AllOrNothing' /\ UndoneLater' /\ UndoneNow' /\ Emptied'
    BY <2>1 DEF MovesInOrder, AllOrNothing, UndoneLater, UndoneNow, Emptied, Undoing
  <2>6. Stage'
    BY <2>2, <2>3, <2>4, <2>5 DEF Stage
  <2>. QED
    BY <1>1, <1>4, <2>1, <2>6 DEF Typed, QuarantineIsJournaled, InDirectory
<1>. QED
  BY <1>2, <1>3, <1>4 DEF CreateDir, Fails, diskVars

LEMMA WriteJournalKeeps ==
  ASSUME RemovalAssumptions, IInv, WriteJournal PROVE IInv'
<1>. USE DEF IInv
<1>1. /\ engine.pc = "journal"
      /\ engine \in Engines /\ engine.owner \in Owners
      /\ engine.owner - 1 \in 0..Rows
      /\ UNCHANGED <<rows, place, quarantine>>
  BY DEF WriteJournal, At, Typed, Engines, Owners, RemovalAssumptions, diskVars
<1>2. CASE /\ journal[engine.owner] = {}
           /\ journal' = [journal EXCEPT ![engine.owner] = engine.todo]
           /\ Goto("move")
           /\ UNCHANGED dirs
  <2>1. /\ engine' \in Engines /\ engine'.pc = "move"
        /\ engine'.owner = engine.owner /\ engine'.todo = engine.todo
        /\ engine'.moved = engine.moved /\ engine'.made = engine.made
        /\ engine'.withFiles = engine.withFiles
    BY <1>1, <1>2, GotoLooks DEF Steps
  <2>2. /\ journal' \in [Owners -> SUBSET Files]
        /\ journal'[engine.owner] = engine.todo
        /\ \A o \in Owners : journal[o] \subseteq journal'[o]
    BY <1>1, <1>2 DEF Typed, Engines
  <2>3. Typed' /\ QuarantineIsJournaled' /\ InDirectory'
    BY <1>1, <1>2, <2>1, <2>2 DEF Typed, QuarantineIsJournaled, InDirectory, RemovalAssumptions
  <2>4. RowsStay' /\ RowsGo' /\ MovedAreAway' /\ MovedByThis' /\ MadeByThis' /\ WithFiles'
    BY <1>1, <2>1 DEF Stage, RowsStay, RowsGo, MovedAreAway, MovedByThis, MadeByThis, WithFiles,
       Quarantining, Purging
  <2>5. OwnersInOrder'
    BY <1>1, <2>1 DEF Stage, OwnersInOrder, AllMovedBefore
  <2>6. OwnDirectory'
    BY <1>1, <1>2, <2>1 DEF Stage, OwnDirectory, Existing
  <2>7. MovesInOrder'
    <3>1. engine.owner \in Nat /\ OwnerOf \in [Files -> Nat] /\ engine.moved \subseteq Files
      BY <1>1 DEF Owners, RemovalAssumptions, Engines
    <3>. QED
      BY <1>1, <2>1, <2>2, <3>1 DEF Stage, MovesInOrder, NextIsUntouched, NoneMovedFrom
  <2>8. NextIsUntouched' /\ AllOrNothing' /\ UndoneLater' /\ UndoneNow' /\ Emptied'
    BY <2>1 DEF NextIsUntouched, AllOrNothing, UndoneLater, UndoneNow, Emptied, Undoing
  <2>. QED
    BY <2>3, <2>4, <2>5, <2>6, <2>7, <2>8 DEF Stage
<1>3. CASE /\ dirs' \in {dirs, dirs \ {engine.owner}}
           /\ RollbackFrom(engine.owner - 1)
           /\ UNCHANGED journal
  <2>1. \A f \in Files : quarantine[f] # "none" => OwnerOf[f] # engine.owner
    <3>1. engine.owner \in Nat /\ OwnerOf \in [Files -> Nat]
      BY <1>1 DEF Owners, RemovalAssumptions
    <3>. QED
      BY <1>1, <3>1 DEF Stage, MovedByThis, NextIsUntouched, NoneMovedFrom, Quarantining
  <2>2. InDirectory'
    BY <1>1, <1>3, <2>1 DEF InDirectory
  <2>. QED
    BY <1>1, <1>3, <2>2, GivingUpKeeps DEF Quarantining
<1>. QED
  BY <1>2, <1>3 DEF WriteJournal, diskVars

LEMMA MoveFileKeeps ==
  ASSUME RemovalAssumptions, IInv, MoveFile PROVE IInv'
<1>. USE DEF IInv
<1>1. /\ engine.pc = "move"
      /\ engine \in Engines /\ engine.owner \in Owners
      /\ engine.owner \in 0..Rows
      /\ UNCHANGED <<rows, dirs, journal>>
  <2>1. engine.pc = "move" /\ UNCHANGED <<rows, dirs, journal>>
    BY DEF MoveFile, At, Fails, diskVars
  <2>2. engine \in Engines /\ engine.owner \in Owners /\ engine.owner \in 0..Rows
    BY DEF Typed, Engines, Owners, RemovalAssumptions
  <2>. QED
    BY <2>1, <2>2
<1>2. engine.todo = Existing(engine.owner)
  BY <1>1 DEF Stage, OwnDirectory
<1>3. CASE /\ engine.todo = {} /\ engine' = NextQuarantine(engine)
           /\ UNCHANGED <<place, quarantine>>
  BY <1>1, <1>2, <1>3, NextQuarantineKeeps
<1>4. CASE RollbackFrom(engine.owner) /\ UNCHANGED <<place, quarantine>>
  BY <1>1, <1>4, GivingUpKeeps DEF InDirectory, Quarantining
<1>5. ASSUME NEW f \in engine.todo, Rename(f),
             engine' = [engine EXCEPT !.todo = @ \ {f}, !.moved = @ \cup {f}]
      PROVE  IInv'
  <2>1. f \in Files /\ OwnerOf[f] = engine.owner /\ f \in journal[engine.owner]
    BY <1>1, <1>2, <1>5 DEF Stage, MovesInOrder, Existing, FilesOf
  <2>2. /\ engine' \in Engines /\ engine'.pc = "move"
        /\ engine'.owner = engine.owner /\ engine'.todo = engine.todo \ {f}
        /\ engine'.moved = engine.moved \cup {f} /\ engine'.made = engine.made
        /\ engine'.withFiles = engine.withFiles
    BY <1>1, <1>5, <2>1 DEF Engines
  <2>3. /\ place' \in [Files -> Places] /\ quarantine' \in [Files -> Places]
        /\ place'[f] = "none"
        /\ \A g \in Files \ {f} : place'[g] = place[g] /\ quarantine'[g] = quarantine[g]
    BY <1>5, <2>1 DEF Rename, Typed, Places
  <2>4. Typed' /\ QuarantineIsJournaled'
    BY <1>1, <2>1, <2>2, <2>3 DEF Typed, QuarantineIsJournaled
  <2>5. InDirectory'
    BY <1>1, <2>1, <2>3 DEF InDirectory, Stage, OwnDirectory
  <2>6. RowsStay' /\ RowsGo' /\ WithFiles'
    BY <1>1, <2>2 DEF Stage, RowsStay, RowsGo, WithFiles, Quarantining, Purging
  <2>7. MovedAreAway' /\ MovedByThis'
    <3>1. engine.moved \subseteq Files
      BY <1>1 DEF Engines
    <3>. QED
      BY <1>1, <2>2, <2>3, <3>1 DEF Stage, MovedAreAway, MovedByThis, Quarantining
  <2>8. MadeByThis'
    BY <1>1, <2>1, <2>2, <2>3 DEF Stage, MadeByThis, OwnDirectory, Quarantining
  <2>9. OwnersInOrder'
    BY <1>1, <2>2, <2>3 DEF Stage, OwnersInOrder, AllMovedBefore
  <2>10. OwnDirectory'
    BY <1>1, <1>2, <2>1, <2>2, <2>3 DEF Stage, OwnDirectory, Existing, FilesOf
  <2>11. MovesInOrder'
    <3>1. engine.owner \in Nat
      BY <1>1 DEF Owners, RemovalAssumptions
    <3>. QED
      BY <1>1, <2>1, <2>2, <3>1 DEF Stage, MovesInOrder
  <2>12. NextIsUntouched' /\ AllOrNothing' /\ UndoneLater' /\ UndoneNow' /\ Emptied'
    BY <2>2 DEF NextIsUntouched, AllOrNothing, UndoneLater, UndoneNow, Emptied, Undoing
  <2>. QED
    BY <2>4, <2>5, <2>6, <2>7, <2>8, <2>9, <2>10, <2>11, <2>12 DEF Stage
<1>. QED
  BY <1>3, <1>4, <1>5 DEF MoveFile, Fails, diskVars

-----------------------------------------------------------------------------
(* Undoing. *)

LEMMA RestoreLooks ==
  ASSUME Typed, NEW f \in Files, Restore(f)
  PROVE  /\ place' \in [Files -> Places] /\ quarantine' \in [Files -> Places]
         /\ place'[f] = quarantine[f] /\ quarantine'[f] = "none"
         /\ \A g \in Files \ {f} : place'[g] = place[g] /\ quarantine'[g] = quarantine[g]
BY DEF Restore, Typed, Places

LEMMA UndoMoveKeeps ==
  ASSUME RemovalAssumptions, IInv, UndoMove PROVE IInv'
<1>. USE DEF IInv
<1>. DEFINE left == engine.moved \cap FilesOf(engine.owner)
<1>1. engine.pc = "undo" /\ UNCHANGED <<rows, dirs, journal>>
  BY DEF UndoMove, At, Fails, diskVars
<1>2. /\ engine \in Engines /\ engine.owner \in Owners /\ engine.moved \subseteq Files
      /\ engine.owner \in Nat
  BY DEF Typed, Engines, Owners, RemovalAssumptions
<1>3. CASE /\ left = {} /\ UNCHANGED <<place, quarantine>>
           /\ Goto(IF engine.owner \in engine.made THEN "undoDir" ELSE "undoJournal")
  <2>1. PICK pc \in {"undoDir", "undoJournal"} : Goto(pc)
    BY <1>3
  <2>2. /\ engine' \in Engines /\ engine'.pc \in {"undoDir", "undoJournal"}
        /\ engine'.owner = engine.owner /\ engine'.moved = engine.moved
        /\ engine'.restored = engine.restored
    BY <1>2, <2>1, GotoLooks DEF Steps
  <2>3. RowsStay' /\ RowsGo' /\ MovedAreAway' /\ UndoneLater'
    BY <1>1, <1>3, <2>2 DEF Stage, RowsStay, RowsGo, MovedAreAway, UndoneLater, Undoing, Purging
  <2>4. Emptied'
    BY <1>1, <1>3, <2>2 DEF Stage, Emptied, UndoneNow, Quarantined, FilesOf
  <2>5. /\ MovedByThis' /\ MadeByThis' /\ WithFiles' /\ OwnersInOrder' /\ NextIsUntouched'
        /\ OwnDirectory' /\ MovesInOrder' /\ AllOrNothing' /\ UndoneNow'
    BY <2>2 DEF MovedByThis, MadeByThis, WithFiles, OwnersInOrder, NextIsUntouched, OwnDirectory,
       MovesInOrder, AllOrNothing, UndoneNow, Quarantining, Purging
  <2>6. Stage'
    BY <2>3, <2>4, <2>5 DEF Stage
  <2>. QED
    BY <1>1, <1>3, <2>2, <2>6 DEF Typed, QuarantineIsJournaled, InDirectory
<1>4. ASSUME NEW f \in left, engine' = [engine EXCEPT !.moved = @ \ {f}], Restore(f)
      PROVE  IInv'
  <2>1. f \in Files /\ OwnerOf[f] = engine.owner
    BY DEF FilesOf
  <2>2. /\ engine' \in Engines /\ engine'.pc = "undo"
        /\ engine'.owner = engine.owner /\ engine'.moved = engine.moved \ {f}
        /\ engine'.restored = engine.restored
    BY <1>1, <1>2, <1>4 DEF Engines
  <2>3. /\ place' \in [Files -> Places] /\ quarantine' \in [Files -> Places]
        /\ quarantine'[f] = "none"
        /\ \A g \in Files \ {f} : place'[g] = place[g] /\ quarantine'[g] = quarantine[g]
    BY <1>4, <2>1, RestoreLooks
  <2>4. Typed' /\ QuarantineIsJournaled' /\ InDirectory'
    BY <1>1, <2>2, <2>3 DEF Typed, QuarantineIsJournaled, InDirectory
  <2>5. RowsStay' /\ RowsGo'
    BY <1>1, <2>2 DEF Stage, RowsStay, RowsGo, Undoing, Purging
  <2>6. MovedAreAway'
    BY <1>1, <1>2, <2>2, <2>3 DEF Stage, MovedAreAway, Undoing
  <2>7. UndoneLater'
    BY <1>1, <2>2, <2>3 DEF Stage, UndoneLater, Undoing
  <2>8. UndoneNow'
    BY <1>1, <2>2, <2>3 DEF Stage, UndoneNow, FilesOf
  <2>9. /\ MovedByThis' /\ MadeByThis' /\ WithFiles' /\ OwnersInOrder' /\ NextIsUntouched'
        /\ OwnDirectory' /\ MovesInOrder' /\ AllOrNothing' /\ Emptied'
    BY <2>2 DEF MovedByThis, MadeByThis, WithFiles, OwnersInOrder, NextIsUntouched, OwnDirectory,
       MovesInOrder, AllOrNothing, Emptied, Quarantining, Purging
  <2>. QED
    BY <2>4, <2>5, <2>6, <2>7, <2>8, <2>9 DEF Stage
<1>5. ASSUME NEW f \in left, engine' = [engine EXCEPT !.moved = @ \ {f}, !.restored = FALSE],
             UNCHANGED <<place, quarantine>>
      PROVE  IInv'
  <2>1. f \in Files /\ OwnerOf[f] = engine.owner
    BY DEF FilesOf
  <2>2. /\ engine' \in Engines /\ engine'.pc = "undo"
        /\ engine'.owner = engine.owner /\ engine'.moved = engine.moved \ {f}
        /\ engine'.restored = FALSE
    BY <1>1, <1>2, <1>5 DEF Engines
  <2>3. RowsStay' /\ RowsGo' /\ MovedAreAway'
    BY <1>1, <1>5, <2>2 DEF Stage, RowsStay, RowsGo, MovedAreAway, Undoing, Purging
  <2>4. UndoneLater'
    BY <1>1, <1>2, <1>5, <2>1, <2>2 DEF Stage, UndoneLater, Undoing
  <2>5. /\ MovedByThis' /\ MadeByThis' /\ WithFiles' /\ OwnersInOrder' /\ NextIsUntouched'
        /\ OwnDirectory' /\ MovesInOrder' /\ AllOrNothing' /\ UndoneNow' /\ Emptied'
    BY <2>2 DEF MovedByThis, MadeByThis, WithFiles, OwnersInOrder, NextIsUntouched, OwnDirectory,
       MovesInOrder, AllOrNothing, UndoneNow, Emptied, Quarantining, Purging
  <2>6. Stage'
    BY <2>3, <2>4, <2>5 DEF Stage
  <2>. QED
    BY <1>1, <1>5, <2>2, <2>6 DEF Typed, QuarantineIsJournaled, InDirectory
<1>. QED
  BY <1>3, <1>4, <1>5 DEF UndoMove, Fails, diskVars

LEMMA UndoDirKeeps ==
  ASSUME RemovalAssumptions, IInv, UndoDir PROVE IInv'
<1>. USE DEF IInv
<1>1. engine.pc = "undoDir" /\ UNCHANGED <<rows, place, quarantine, journal>>
  BY DEF UndoDir, At, Fails, diskVars
<1>2. engine \in Engines
  BY DEF Typed
<1>3. \/ Quarantined(engine.owner) = {} /\ dirs' = dirs \ {engine.owner} /\ Goto("undoJournal")
      \/ /\ engine' = [engine EXCEPT !.pc = "undoJournal", !.restored = FALSE]
         /\ UNCHANGED dirs
  BY DEF UndoDir, Fails, diskVars
<1>4. /\ engine' \in Engines /\ engine'.pc = "undoJournal"
      /\ engine'.owner = engine.owner /\ engine'.moved = engine.moved
      /\ engine'.restored = TRUE => engine.restored = TRUE
  BY <1>2, <1>3, GotoLooks DEF Engines, Steps
<1>5. InDirectory'
  BY <1>1, <1>3 DEF InDirectory, Quarantined, FilesOf
<1>6. RowsStay' /\ RowsGo' /\ MovedAreAway' /\ UndoneLater'
  BY <1>1, <1>4 DEF Stage, RowsStay, RowsGo, MovedAreAway, UndoneLater, Undoing, Purging
<1>7. Emptied'
  BY <1>1, <1>4 DEF Stage, Emptied, Quarantined
<1>8. /\ MovedByThis' /\ MadeByThis' /\ WithFiles' /\ OwnersInOrder' /\ NextIsUntouched'
      /\ OwnDirectory' /\ MovesInOrder' /\ AllOrNothing' /\ UndoneNow'
  BY <1>4 DEF MovedByThis, MadeByThis, WithFiles, OwnersInOrder, NextIsUntouched, OwnDirectory,
     MovesInOrder, AllOrNothing, UndoneNow, Quarantining, Purging
<1>9. Stage'
  BY <1>6, <1>7, <1>8 DEF Stage
<1>. QED
  BY <1>1, <1>4, <1>5, <1>9 DEF Typed, QuarantineIsJournaled

(* A journal that goes names nothing that is still in the quarantine. *)
LEMMA ForgettingKeeps ==
  ASSUME Typed, QuarantineIsJournaled, NEW o \in Owners, Quarantined(o) = {},
         journal' = [journal EXCEPT ![o] = {}], UNCHANGED quarantine
  PROVE  journal' \in [Owners -> SUBSET Files] /\ QuarantineIsJournaled'
BY DEF Typed, QuarantineIsJournaled, Quarantined, FilesOf

LEMMA UndoJournalKeeps ==
  ASSUME RemovalAssumptions, IInv, UndoJournal PROVE IInv'
<1>. USE DEF IInv
<1>1. /\ engine.pc = "undoJournal" /\ UNCHANGED <<rows, place, quarantine, dirs>>
      /\ RollbackFrom(engine.owner - 1)
      /\ \/ UNCHANGED journal
         \/ engine.restored = TRUE /\ journal' = [journal EXCEPT ![engine.owner] = {}]
  BY DEF UndoJournal, Clears, At, Fails, diskVars
<1>2. /\ engine.owner \in Owners /\ engine.owner - 1 \in 0..Rows /\ engine.owner \in Nat
      /\ OwnerOf \in [Files -> Nat]
  BY DEF Typed, Engines, Owners, RemovalAssumptions
<1>3. journal' \in [Owners -> SUBSET Files] /\ QuarantineIsJournaled'
  <2>1. CASE UNCHANGED journal
    BY <1>1, <2>1 DEF Typed, QuarantineIsJournaled
  <2>2. CASE engine.restored = TRUE /\ journal' = [journal EXCEPT ![engine.owner] = {}]
    <3>1. Quarantined(engine.owner) = {}
      BY <1>1, <2>2 DEF Stage, Emptied
    <3>. QED
      BY <1>1, <1>2, <2>2, <3>1, ForgettingKeeps
  <2>. QED
    BY <1>1, <2>1, <2>2
<1>4. rows = TRUE /\ \A f \in engine.moved : place[f] = "none"
  BY <1>1 DEF Stage, RowsStay, MovedAreAway, Undoing
<1>5. \A f \in Files : OwnerOf[f] <= engine.owner - 1 /\ quarantine[f] # "none" => f \in engine.moved
  BY <1>1, <1>2 DEF Stage, UndoneLater, Undoing
<1>6. engine' \in Engines /\ Stage'
  BY <1>1, <1>2, <1>4, <1>5, RollbackBegins
<1>. QED
  BY <1>1, <1>3, <1>6 DEF Typed, InDirectory

-----------------------------------------------------------------------------
(* The transaction, and the purge. *)

(* Stage, of an engine that is purging. *)
LEMMA PurgingStage ==
  ASSUME engine'.pc \in Purging, (RowsGo /\ MadeByThis /\ Emptied)' PROVE Stage'
BY DEF Stage, RowsStay, MovedAreAway, MovedByThis, WithFiles, OwnersInOrder, NextIsUntouched,
     OwnDirectory, MovesInOrder, AllOrNothing, UndoneLater, UndoneNow, Quarantining, Undoing, Purging

LEMMA DeleteRowsKeeps ==
  ASSUME RemovalAssumptions, IInv, DeleteRows PROVE IInv'
<1>. USE DEF IInv
<1>1. engine.pc = "delete" /\ engine \in Engines /\ UNCHANGED <<place, quarantine, dirs, journal>>
  BY DEF DeleteRows, At, Typed, Fails, diskVars
<1>2. CASE rows' = FALSE /\ Goto("staging")
  <2>1. /\ engine' \in Engines /\ engine'.pc = "staging" /\ engine'.made = engine.made
    BY <1>1, <1>2, GotoLooks DEF Steps
  <2>2. MadeByThis'
    BY <1>1, <2>1 DEF Stage, MadeByThis, Quarantining
  <2>3. RowsGo' /\ Emptied'
    BY <1>2, <2>1 DEF RowsGo, Emptied
  <2>4. Stage'
    BY <2>1, <2>2, <2>3, PurgingStage DEF Purging
  <2>. QED
    BY <1>1, <1>2, <2>1, <2>4 DEF Typed, QuarantineIsJournaled, InDirectory
<1>3. ASSUME NEW o \in {0, Rows}, RollbackFrom(o), UNCHANGED rows PROVE IInv'
  <2>1. o \in 0..Rows
    BY DEF RemovalAssumptions
  <2>2. InDirectory'
    BY <1>1 DEF InDirectory
  <2>. QED
    BY <1>1, <1>3, <2>1, <2>2, GivingUpKeeps DEF Quarantining
<1>. QED
  BY <1>2, <1>3 DEF DeleteRows, Fails

LEMMA RemoveStagingKeeps ==
  ASSUME RemovalAssumptions, IInv, RemoveStaging PROVE IInv'
<1>. USE DEF IInv
<1>1. /\ engine.pc = "staging" /\ engine \in Engines
      /\ UNCHANGED <<rows, place, quarantine, dirs, journal>>
  BY DEF RemoveStaging, At, Typed, Fails, diskVars
<1>2. CASE engine' = Idle
  <2>1. engine' \in Engines /\ engine'.pc = "idle"
    BY <1>2, IdleLooks DEF Idle
  <2>. QED
    BY <1>1, <2>1, NothingUnderWay DEF Typed, QuarantineIsJournaled, InDirectory
<1>3. CASE engine' = [engine EXCEPT !.pc = "purge"]
  <2>1. engine' \in Engines /\ engine'.pc = "purge" /\ engine'.made = engine.made
    BY <1>1, <1>3 DEF Engines, Steps
  <2>2. RowsGo' /\ MadeByThis' /\ Emptied'
    BY <1>1, <2>1 DEF Stage, RowsGo, MadeByThis, Emptied, Purging
  <2>3. Stage'
    BY <2>1, <2>2, PurgingStage DEF Purging
  <2>. QED
    BY <1>1, <2>1, <2>3 DEF Typed, QuarantineIsJournaled, InDirectory
<1>. QED
  BY <1>2, <1>3 DEF RemoveStaging

(* Purging takes files out of a quarantine, and then the quarantine. *)
LEMMA PurgeKeeps ==
  ASSUME Typed, QuarantineIsJournaled, InDirectory, NEW o, Purge(o),
         UNCHANGED <<journal, engine>>
  PROVE  /\ quarantine' \in [Files -> Places]
         /\ \A f \in Files : quarantine'[f] # "none" => quarantine[f] # "none"
         /\ QuarantineIsJournaled' /\ InDirectory'
<1>1. CASE \E f \in Quarantined(o) : /\ quarantine' = [quarantine EXCEPT ![f] = "none"]
                                     /\ UNCHANGED dirs
  BY <1>1 DEF Typed, Places, QuarantineIsJournaled, InDirectory, Quarantined, FilesOf
<1>2. CASE Quarantined(o) = {} /\ dirs' = dirs \ {o} /\ UNCHANGED quarantine
  BY <1>2 DEF Typed, QuarantineIsJournaled, InDirectory, Quarantined, FilesOf
<1>. QED
  BY <1>1, <1>2 DEF Purge

LEMMA PurgeQuarantineKeeps ==
  ASSUME RemovalAssumptions, IInv, PurgeQuarantine PROVE IInv'
<1>. USE DEF IInv
<1>1. engine.pc = "purge" /\ engine \in Engines /\ UNCHANGED <<rows, place, journal>>
  BY DEF PurgeQuarantine, At, Typed, Fails, diskVars
<1>2. rows = FALSE /\ \A f \in Files : quarantine[f] # "none" => OwnerOf[f] \in engine.made
  BY <1>1 DEF Stage, RowsGo, MadeByThis, Purging
<1>3. CASE Purge(engine.owner) /\ UNCHANGED engine
  <2>1. /\ quarantine' \in [Files -> Places] /\ QuarantineIsJournaled' /\ InDirectory'
        /\ \A f \in Files : quarantine'[f] # "none" => quarantine[f] # "none"
    BY <1>1, <1>3, PurgeKeeps
  <2>2. RowsGo' /\ MadeByThis' /\ Emptied'
    BY <1>1, <1>2, <1>3, <2>1 DEF RowsGo, MadeByThis, Emptied
  <2>3. Stage'
    BY <1>1, <1>3, <2>2, PurgingStage DEF Purging
  <2>. QED
    BY <1>1, <1>3, <2>1, <2>3 DEF Typed
<1>4. CASE engine.owner \notin engine.made \cap dirs /\ Goto("folder") /\ UNCHANGED <<quarantine, dirs>>
  <2>1. /\ engine' \in Engines /\ engine'.pc = "folder"
        /\ engine'.made = engine.made /\ engine'.owner = engine.owner
    BY <1>1, <1>4, GotoLooks DEF Steps
  <2>2. Quarantined(engine.owner) = {}
    BY <1>2, <1>4 DEF InDirectory, Quarantined, FilesOf
  <2>3. RowsGo' /\ MadeByThis' /\ Emptied'
    BY <1>1, <1>2, <1>4, <2>1, <2>2 DEF RowsGo, MadeByThis, Emptied, Quarantined
  <2>4. Stage'
    BY <2>1, <2>3, PurgingStage DEF Purging
  <2>. QED
    BY <1>1, <1>4, <2>1, <2>4 DEF Typed, QuarantineIsJournaled, InDirectory
<1>5. CASE /\ engine' = [engine EXCEPT !.pc = "folder", !.restored = FALSE]
           /\ UNCHANGED <<quarantine, dirs>>
  <2>1. /\ engine' \in Engines /\ engine'.pc = "folder"
        /\ engine'.made = engine.made /\ engine'.restored = FALSE
    BY <1>1, <1>5 DEF Engines, Steps
  <2>2. RowsGo' /\ MadeByThis' /\ Emptied'
    BY <1>1, <1>2, <1>5, <2>1 DEF RowsGo, MadeByThis, Emptied
  <2>3. Stage'
    BY <2>1, <2>2, PurgingStage DEF Purging
  <2>. QED
    BY <1>1, <1>5, <2>1, <2>3 DEF Typed, QuarantineIsJournaled, InDirectory
<1>. QED
  BY <1>3, <1>4, <1>5 DEF PurgeQuarantine, Fails, diskVars

LEMMA RemoveFolderKeeps ==
  ASSUME RemovalAssumptions, IInv, RemoveFolder PROVE IInv'
<1>. USE DEF IInv
<1>1. /\ engine.pc = "folder" /\ engine \in Engines
      /\ UNCHANGED <<rows, place, quarantine, dirs, journal>>
  BY DEF RemoveFolder, At, Typed, Fails, diskVars
<1>2. /\ engine' \in Engines /\ engine'.pc = "commit" /\ engine'.owner = engine.owner
      /\ engine'.made = engine.made /\ engine'.restored = engine.restored
  BY <1>1, GotoLooks DEF RemoveFolder, Steps
<1>3. RowsGo' /\ MadeByThis' /\ Emptied'
  BY <1>1, <1>2 DEF Stage, RowsGo, MadeByThis, Emptied, Quarantined, Purging
<1>4. Stage'
  BY <1>2, <1>3, PurgingStage DEF Purging
<1>. QED
  BY <1>1, <1>2, <1>4 DEF Typed, QuarantineIsJournaled, InDirectory

LEMMA CommitJournalKeeps ==
  ASSUME RemovalAssumptions, IInv, CommitJournal PROVE IInv'
<1>. USE DEF IInv
<1>1. /\ engine.pc = "commit" /\ engine \in Engines /\ engine.owner \in Owners
      /\ UNCHANGED <<rows, place, quarantine, dirs>>
  BY DEF CommitJournal, At, Typed, Engines, Fails, diskVars
<1>2. /\ rows = FALSE
      /\ \A f \in Files : quarantine[f] # "none" => OwnerOf[f] \in engine.made
      /\ engine.restored = TRUE => Quarantined(engine.owner) = {}
  BY <1>1 DEF Stage, RowsGo, MadeByThis, Emptied, Purging
<1>3. journal' \in [Owners -> SUBSET Files] /\ QuarantineIsJournaled'
  <2>1. CASE UNCHANGED journal
    BY <1>1, <2>1 DEF Typed, QuarantineIsJournaled
  <2>2. CASE engine.restored = TRUE /\ journal' = [journal EXCEPT ![engine.owner] = {}]
    BY <1>1, <1>2, <2>2, ForgettingKeeps
  <2>. QED
    BY <2>1, <2>2 DEF CommitJournal, Fails
<1>4. CASE engine.owner = Rows
  <2>1. engine' = [Idle EXCEPT !.withFiles = TRUE]
    BY <1>4 DEF CommitJournal
  <2>2. engine' \in Engines /\ engine'.pc = "idle"
    <3>1. Idle \in Engines /\ Idle.pc = "idle"
      BY IdleLooks DEF Idle
    <3>. QED
      BY <2>1, <3>1 DEF Engines
  <2>. QED
    BY <1>1, <1>3, <2>2, NothingUnderWay DEF Typed, InDirectory
<1>5. CASE engine.owner # Rows
  <2>1. engine' = [engine EXCEPT !.pc = "purge", !.owner = @ + 1, !.restored = TRUE]
    BY <1>5 DEF CommitJournal
  <2>2. engine' \in Engines /\ engine'.pc = "purge" /\ engine'.made = engine.made
    <3>1. engine.owner + 1 \in Owners
      BY <1>1, <1>5 DEF Owners, RemovalAssumptions
    <3>. QED
      BY <1>1, <2>1, <3>1 DEF Engines, Steps
  <2>3. RowsGo' /\ MadeByThis' /\ Emptied'
    BY <1>1, <1>2, <2>2 DEF RowsGo, MadeByThis, Emptied
  <2>4. Stage'
    BY <2>2, <2>3, PurgingStage DEF Purging
  <2>. QED
    BY <1>1, <1>3, <2>2, <2>4 DEF Typed, InDirectory
<1>. QED
  BY <1>4, <1>5

-----------------------------------------------------------------------------
(* Crashes, starts and the users of the folder. *)

LEMMA CrashKeeps ==
  ASSUME RemovalAssumptions, IInv, Crash \/ Start \/ Recovered PROVE IInv'
<1>1. UNCHANGED <<rows, place, quarantine, dirs, journal>>
  BY DEF Crash, Start, Recovered, diskVars
<1>2. engine' \in Engines /\ engine'.pc \in {"down", "recover", "idle"}
  <2>1. Down \in Engines /\ Idle \in Engines /\ Down.pc = "down" /\ Idle.pc = "idle"
    BY IdleLooks DEF Idle
  <2>2. engine' = [Idle EXCEPT !.pc = "recover"] => engine' \in Engines /\ engine'.pc = "recover"
    BY <2>1 DEF Engines, Steps
  <2>. QED
    BY <2>1, <2>2 DEF Crash, Start, Recovered
<1>. QED
  BY <1>1, <1>2, NothingUnderWay DEF IInv, Typed, QuarantineIsJournaled, InDirectory

LEMMA RecoverKeeps ==
  ASSUME RemovalAssumptions, IInv, NEW o \in Owners,
         RecoverMove(o) \/ RecoverDir(o) \/ RecoverJournal(o) \/ RecoverFails(o)
  PROVE  IInv'
<1>. USE DEF IInv
<1>1. engine.pc = "recover" /\ engine \in Engines /\ UNCHANGED rows
  BY DEF RecoverMove, RecoverDir, RecoverJournal, RecoverFails, Recovering, At, Typed, Fails
<1>2. engine' \in Engines /\ engine'.pc \in {"recover", "down"}
  BY <1>1, IdleLooks DEF RecoverMove, RecoverDir, RecoverJournal, RecoverFails
<1>3. Stage'
  BY <1>2, NothingUnderWay
<1>4. CASE UNCHANGED <<place, quarantine, dirs, journal>>
  BY <1>1, <1>2, <1>3, <1>4 DEF Typed, QuarantineIsJournaled, InDirectory
<1>5. ASSUME NEW f \in journal[o], Restore(f), UNCHANGED <<dirs, journal>> PROVE IInv'
  <2>1. f \in Files
    BY <1>5 DEF Typed
  <2>2. /\ place' \in [Files -> Places] /\ quarantine' \in [Files -> Places]
        /\ quarantine'[f] = "none"
        /\ \A g \in Files \ {f} : quarantine'[g] = quarantine[g]
    BY <1>5, <2>1, RestoreLooks
  <2>. QED
    BY <1>1, <1>2, <1>3, <1>5, <2>2 DEF Typed, QuarantineIsJournaled, InDirectory
<1>6. CASE RecoverDir(o)
  <2>1. UNCHANGED <<place, journal, engine>>
    BY <1>6 DEF RecoverDir
  <2>2. CASE Purge(o)
    BY <1>1, <1>2, <1>3, <2>1, <2>2, PurgeKeeps DEF Typed
  <2>3. CASE Quarantined(o) = {} /\ dirs' = dirs \ {o} /\ UNCHANGED quarantine
    BY <1>1, <1>2, <1>3, <2>1, <2>3
       DEF Typed, QuarantineIsJournaled, InDirectory, Quarantined, FilesOf
  <2>. QED
    BY <1>6, <2>2, <2>3 DEF RecoverDir
<1>7. CASE RecoverJournal(o)
  <2>1. /\ Quarantined(o) = {} /\ journal' = [journal EXCEPT ![o] = {}]
        /\ UNCHANGED <<place, quarantine, dirs>>
    BY <1>7 DEF RecoverJournal, InDirectory, Quarantined, FilesOf, diskVars
  <2>2. journal' \in [Owners -> SUBSET Files] /\ QuarantineIsJournaled'
    BY <2>1, ForgettingKeeps
  <2>. QED
    BY <1>1, <1>2, <1>3, <2>1, <2>2 DEF Typed, InDirectory
<1>8. CASE RecoverMove(o) \/ RecoverFails(o)
  BY <1>4, <1>5, <1>8 DEF RecoverMove, RecoverFails, Fails, diskVars
<1>. QED
  BY <1>6, <1>7, <1>8

LEMMA UserKeeps ==
  ASSUME RemovalAssumptions, IInv, NEW f \in Files, Intrude(f) \/ TakeAway(f) PROVE IInv'
<1>. USE DEF IInv
<1>1. /\ engine.pc \in {"idle", "down"} /\ engine' = engine
      /\ UNCHANGED <<rows, quarantine, dirs, journal>>
  BY DEF Intrude, TakeAway, At
<1>2. place' \in [Files -> Places]
  BY DEF Intrude, TakeAway, Typed, Places
<1>. QED
  BY <1>1, <1>2, NothingUnderWay DEF Typed, QuarantineIsJournaled, InDirectory

LEMMA StutterKeeps == ASSUME IInv, UNCHANGED vars PROVE IInv'
BY DEF IInv, Typed, QuarantineIsJournaled, InDirectory, Existing, Quarantined, Stage, RowsStay,
   RowsGo, MovedAreAway, MovedByThis, MadeByThis, WithFiles, OwnersInOrder, NextIsUntouched,
   OwnDirectory, MovesInOrder, AllOrNothing, UndoneLater, UndoneNow, Emptied, AllMovedBefore,
   NoneMovedFrom, vars, diskVars

LEMMA NextKeeps == ASSUME RemovalAssumptions, IInv, [Next]_vars PROVE IInv'
BY RemoveKeeps, CreateDirKeeps, WriteJournalKeeps, MoveFileKeeps, UndoMoveKeeps, UndoDirKeeps,
   UndoJournalKeeps, DeleteRowsKeeps, RemoveStagingKeeps, PurgeQuarantineKeeps,
   RemoveFolderKeeps, CommitJournalKeeps, CrashKeeps, RecoverKeeps, UserKeeps, StutterKeeps
   DEF Next

(***************************************************************************)
(* Whatever fails and whenever the process is killed, a file in a          *)
(* quarantine is named by a journal, which the next start goes by.         *)
(***************************************************************************)
LEMMA QuarantinesAreJournaled == ASSUME RemovalAssumptions PROVE Spec => []QuarantineIsJournaled
<1>1. Init => IInv
  BY InitIInv
<1>2. IInv /\ [Next]_vars => IInv'
  BY NextKeeps
<1>3. IInv => QuarantineIsJournaled
  BY DEF IInv
<1>. QED
  BY <1>1, <1>2, <1>3, PTL DEF Spec

-----------------------------------------------------------------------------
(***************************************************************************)
(* The refinement.  What counts as kept changes only in the transaction:   *)
(* a file that is moved away or back is in one place of the two.           *)
(***************************************************************************)
KeptStays == Kept' = Kept /\ rows' = rows

LEMMA MovesKeep ==
  ASSUME IInv, rows = TRUE, rows' = TRUE, NEW f \in Files, place' \in [Files -> Places],
         quarantine' \in [Files -> Places],
         \A g \in Files \ {f} : place'[g] = place[g] /\ quarantine'[g] = quarantine[g],
         \/ place'[f] = quarantine[f] /\ quarantine'[f] = "none" /\ place[f] = "none"
         \/ quarantine'[f] = place[f] /\ place'[f] = "none" /\ quarantine[f] = "none"
         \/ {place[f], place'[f]} = {"foreign", "none"} /\ quarantine'[f] = quarantine[f]
  PROVE  KeptStays
BY DEF KeptStays, Kept

(* Nothing moves, or what is left of a removal that is final is purged. *)
Unmoved ==
  \/ UNCHANGED <<rows, place, quarantine>>
  \/ /\ rows = FALSE /\ UNCHANGED <<rows, place>>
     /\ \A f \in Files : quarantine'[f] \in {quarantine[f], "none"}

LEMMA UnmovedKept == ASSUME Unmoved PROVE KeptStays
BY DEF Unmoved, KeptStays, Kept

LEMMA PurgedIsUnmoved ==
  ASSUME Typed, NEW o, Purge(o), rows = FALSE, UNCHANGED <<rows, place>> PROVE Unmoved
<1>1. CASE UNCHANGED quarantine
  BY <1>1 DEF Unmoved
<1>2. ASSUME NEW f, quarantine' = [quarantine EXCEPT ![f] = "none"] PROVE Unmoved
  BY <1>2 DEF Unmoved, Typed
<1>. QED
  BY <1>1, <1>2 DEF Purge

LEMMA OthersKeep ==
  ASSUME IInv,
         \/ \E files \in BOOLEAN : Remove(files)
         \/ CreateDir \/ WriteJournal \/ UndoDir \/ UndoJournal
         \/ RemoveStaging \/ PurgeQuarantine \/ RemoveFolder \/ CommitJournal
         \/ Crash \/ Start \/ Recovered
         \/ \E o \in Owners : RecoverDir(o) \/ RecoverJournal(o) \/ RecoverFails(o)
         \/ UNCHANGED vars
  PROVE  Unmoved
<1>. USE DEF Fails, diskVars
<1>1. ASSUME PurgeQuarantine PROVE Unmoved
  <2>1. rows = FALSE
    BY <1>1 DEF IInv, Stage, RowsGo, PurgeQuarantine, At, Purging
  <2>2. UNCHANGED <<rows, place>>
    BY <1>1 DEF PurgeQuarantine
  <2>3. UNCHANGED quarantine \/ Purge(engine.owner)
    BY <1>1 DEF PurgeQuarantine
  <2>. QED
    BY <2>1, <2>2, <2>3, PurgedIsUnmoved DEF Unmoved, IInv
<1>2. ASSUME NEW o \in Owners, RecoverDir(o) PROVE Unmoved
  <2>1. UNCHANGED <<rows, place>>
    BY <1>2 DEF RecoverDir
  <2>2. UNCHANGED quarantine \/ (rows = FALSE /\ Purge(o))
    BY <1>2 DEF RecoverDir, MovesBack, IInv, Typed
  <2>. QED
    BY <2>1, <2>2, PurgedIsUnmoved DEF Unmoved, IInv
<1>3. ASSUME NEW files \in BOOLEAN, Remove(files) PROVE Unmoved
  BY <1>3 DEF Unmoved, Remove
<1>4. ASSUME CreateDir \/ WriteJournal \/ UndoDir \/ UndoJournal PROVE Unmoved
  BY <1>4 DEF Unmoved, CreateDir, WriteJournal, UndoDir, UndoJournal
<1>5. ASSUME RemoveStaging \/ RemoveFolder \/ CommitJournal PROVE Unmoved
  BY <1>5 DEF Unmoved, RemoveStaging, RemoveFolder, CommitJournal
<1>6. ASSUME Crash \/ Start \/ Recovered \/ UNCHANGED vars PROVE Unmoved
  BY <1>6 DEF Unmoved, Crash, Start, Recovered, vars
<1>7. ASSUME NEW o \in Owners, RecoverJournal(o) \/ RecoverFails(o) PROVE Unmoved
  BY <1>7 DEF Unmoved, RecoverJournal, RecoverFails
<1>. QED
  BY <1>1, <1>2, <1>3, <1>4, <1>5, <1>6, <1>7

LEMMA MoveFileKept == ASSUME RemovalAssumptions, IInv, MoveFile PROVE KeptStays
<1>1. engine.pc = "move" /\ rows = TRUE /\ UNCHANGED rows
  BY DEF MoveFile, At, IInv, Stage, RowsStay, Quarantining, Fails, diskVars
<1>2. CASE UNCHANGED <<place, quarantine>>
  BY <1>1, <1>2, UnmovedKept DEF Unmoved
<1>3. ASSUME NEW f \in engine.todo, Rename(f) PROVE KeptStays
  <2>1. f \in Files /\ place[f] # "none"
    BY <1>1 DEF IInv, Stage, OwnDirectory, Existing, FilesOf
  <2>2. quarantine[f] = "none"
    BY <1>1, <2>1 DEF IInv, Stage, MovedByThis, MovedAreAway, Quarantining
  <2>3. /\ place' \in [Files -> Places] /\ quarantine' \in [Files -> Places]
        /\ place'[f] = "none" /\ quarantine'[f] = place[f]
        /\ \A g \in Files \ {f} : place'[g] = place[g] /\ quarantine'[g] = quarantine[g]
    BY <1>3, <2>1 DEF Rename, IInv, Typed, Places
  <2>. QED
    BY <1>1, <2>1, <2>2, <2>3, MovesKeep
<1>. QED
  BY <1>2, <1>3 DEF MoveFile, Fails, diskVars

(* A file is moved back to where nothing is. *)
LEMMA RestoreKept ==
  ASSUME IInv, NEW f \in Files, Restore(f), place[f] = "none", rows = TRUE, UNCHANGED rows
  PROVE  KeptStays
BY RestoreLooks, MovesKeep DEF IInv

LEMMA UndoMoveKept == ASSUME RemovalAssumptions, IInv, UndoMove PROVE KeptStays
<1>1. /\ engine.pc = "undo" /\ rows = TRUE /\ UNCHANGED rows
      /\ \A f \in engine.moved : f \in Files /\ place[f] = "none"
  BY DEF UndoMove, At, IInv, Typed, Engines, Stage, RowsStay, MovedAreAway, Undoing, Fails, diskVars
<1>2. CASE UNCHANGED <<place, quarantine>>
  BY <1>1, <1>2, UnmovedKept DEF Unmoved
<1>3. ASSUME NEW f \in engine.moved, Restore(f) PROVE KeptStays
  BY <1>1, <1>3, RestoreKept
<1>. QED
  BY <1>2, <1>3 DEF UndoMove, Fails, diskVars

LEMMA RecoverMoveKept ==
  ASSUME IInv, NEW o \in Owners, RecoverMove(o) PROVE KeptStays
<1>1. rows = TRUE /\ UNCHANGED rows
  BY DEF RecoverMove, MovesBack, Fails, IInv, Typed
<1>2. CASE UNCHANGED <<place, quarantine>>
  BY <1>1, <1>2, UnmovedKept DEF Unmoved
<1>3. ASSUME NEW f \in journal[o], IsFree(f), Restore(f) PROVE KeptStays
  <2>1. f \in Files
    BY <1>3 DEF IInv, Typed
  <2>. QED
    BY <1>1, <1>3, <2>1, RestoreKept DEF IsFree
<1>. QED
  BY <1>2, <1>3 DEF RecoverMove, Fails, diskVars

LEMMA UserKept ==
  ASSUME IInv, NEW f \in Files, Intrude(f) \/ TakeAway(f) PROVE KeptStays
<1>1. /\ place' \in [Files -> Places] /\ UNCHANGED <<rows, quarantine>>
      /\ {place[f], place'[f]} = {"foreign", "none"}
      /\ \A g \in Files \ {f} : place'[g] = place[g]
  BY DEF Intrude, TakeAway, IInv, Typed, Places
<1>. QED
  BY <1>1 DEF KeptStays, Kept

LEMMA DeleteRowsKept ==
  ASSUME IInv, DeleteRows, ~KeptStays PROVE Atomic!Remove
<1>1. engine.pc = "delete" /\ UNCHANGED <<place, quarantine>>
  BY DEF DeleteRows, At, Fails, diskVars
<1>2. rows = TRUE
  BY <1>1 DEF IInv, Stage, RowsStay, Quarantining
<1>3. rows' = FALSE
  BY <1>1, UnmovedKept DEF DeleteRows, Fails, Unmoved
<1>4. Kept' \in {{}, Kept}
  BY <1>1, <1>2, <1>3 DEF IInv, Stage, AllOrNothing, Kept
<1>. QED
  BY <1>2, <1>3, <1>4 DEF Atomic!Remove

LEMMA StepsAreAtomic ==
  ASSUME RemovalAssumptions, IInv, [Next]_vars PROVE [Atomic!Remove]_(Atomic!vars)
<1>1. KeptStays => UNCHANGED Atomic!vars
  BY DEF KeptStays, Atomic!vars
<1>2. CASE DeleteRows
  BY <1>1, <1>2, DeleteRowsKept
<1>3. CASE ~DeleteRows
  <2>1. KeptStays
    BY <1>3, OthersKeep, UnmovedKept, MoveFileKept, UndoMoveKept, RecoverMoveKept, UserKept DEF Next
  <2>. QED
    BY <1>1, <2>1
<1>. QED
  BY <1>2, <1>3

(***************************************************************************)
(* The rows and their files go together or not at all: every behaviour of  *)
(* the removal, with its failures and crashes, is one of AtomicDelete.     *)
(***************************************************************************)
LEMMA RemovalRefines == ASSUME RemovalAssumptions PROVE Spec => RemovesAtomically
<1>1. Init => IInv
  BY InitIInv
<1>2. IInv /\ [Next]_vars => IInv'
  BY NextKeeps
<1>3. Init => Atomic!Init
  BY DEF Init, Atomic!Init, Kept
<1>4. IInv /\ [Next]_vars => [Atomic!Remove]_(Atomic!vars)
  BY StepsAreAtomic
<1>. QED
  BY <1>1, <1>2, <1>3, <1>4, PTL DEF Spec, RemovesAtomically, Atomic!Spec
-----------------------------------------------------------------------------
(***************************************************************************)
(* A file of the user at a quarantined one's place: no removal begins, and *)
(* nothing is moved back, until it is gone.                                *)
(***************************************************************************)
ForeignApart ==
  \A f \in Files :
    /\ quarantine[f] # "foreign"
    /\ place[f] = "foreign" => quarantine[f] # "none" \/ rows = FALSE

ForeignStays == \A f \in Files : place[f] = "foreign" => place'[f] = "foreign" \/ At("down")

LEMMA UnmovedApart ==
  ASSUME Typed, ForeignApart, Unmoved \/ (UNCHANGED <<place, quarantine>> /\ rows' = FALSE)
  PROVE  ForeignApart' /\ ForeignStays
BY DEF Unmoved, ForeignApart, ForeignStays

LEMMA MoveFileApart ==
  ASSUME RemovalAssumptions, IInv, ForeignApart, MoveFile PROVE ForeignApart' /\ ForeignStays
<1>1. engine.pc = "move" /\ rows = TRUE /\ UNCHANGED rows
  BY DEF MoveFile, At, IInv, Stage, RowsStay, Quarantining, Fails, diskVars
<1>2. CASE UNCHANGED <<place, quarantine>>
  BY <1>1, <1>2, UnmovedApart DEF Unmoved, IInv
<1>3. ASSUME NEW f \in engine.todo, Rename(f) PROVE ForeignApart' /\ ForeignStays
  <2>1. f \in Files /\ place[f] # "none"
    BY <1>1 DEF IInv, Stage, OwnDirectory, Existing, FilesOf
  <2>2. place[f] # "foreign"
    BY <1>1, <2>1 DEF IInv, Stage, MovedByThis, MovedAreAway, Quarantining, ForeignApart
  <2>3. /\ place'[f] = "none" /\ quarantine'[f] = place[f]
        /\ \A g \in Files \ {f} : place'[g] = place[g] /\ quarantine'[g] = quarantine[g]
    BY <1>3, <2>1 DEF Rename, IInv, Typed
  <2>. QED
    BY <1>1, <2>1, <2>2, <2>3 DEF ForeignApart, ForeignStays
<1>. QED
  BY <1>2, <1>3 DEF MoveFile, Fails, diskVars

LEMMA RestoreApart ==
  ASSUME IInv, ForeignApart, NEW f \in Files, Restore(f), place[f] = "none", UNCHANGED rows
  PROVE  ForeignApart' /\ ForeignStays
<1>1. /\ place'[f] = quarantine[f] /\ quarantine'[f] = "none"
      /\ \A g \in Files \ {f} : place'[g] = place[g] /\ quarantine'[g] = quarantine[g]
  BY DEF Restore, IInv, Typed
<1>. QED
  BY <1>1 DEF ForeignApart, ForeignStays

LEMMA UndoMoveApart ==
  ASSUME RemovalAssumptions, IInv, ForeignApart, UndoMove PROVE ForeignApart' /\ ForeignStays
<1>1. /\ engine.pc = "undo" /\ rows = TRUE /\ UNCHANGED rows
      /\ \A f \in engine.moved : f \in Files /\ place[f] = "none"
  BY DEF UndoMove, At, IInv, Typed, Engines, Stage, RowsStay, MovedAreAway, Undoing, Fails, diskVars
<1>2. CASE UNCHANGED <<place, quarantine>>
  BY <1>1, <1>2, UnmovedApart DEF Unmoved, IInv
<1>3. ASSUME NEW f \in engine.moved, Restore(f) PROVE ForeignApart' /\ ForeignStays
  BY <1>1, <1>3, RestoreApart
<1>. QED
  BY <1>2, <1>3 DEF UndoMove, Fails, diskVars

LEMMA RecoverMoveApart ==
  ASSUME IInv, ForeignApart, NEW o \in Owners, RecoverMove(o) PROVE ForeignApart' /\ ForeignStays
<1>1. UNCHANGED rows
  BY DEF RecoverMove, Fails
<1>2. CASE UNCHANGED <<place, quarantine>>
  BY <1>1, <1>2, UnmovedApart DEF Unmoved, IInv
<1>3. ASSUME NEW f \in journal[o], IsFree(f), Restore(f) PROVE ForeignApart' /\ ForeignStays
  <2>1. f \in Files
    BY <1>3 DEF IInv, Typed
  <2>. QED
    BY <1>1, <1>3, <2>1, RestoreApart DEF IsFree
<1>. QED
  BY <1>2, <1>3 DEF RecoverMove, Fails, diskVars

LEMMA UserApart ==
  ASSUME IInv, ForeignApart, NEW f \in Files, Intrude(f) \/ TakeAway(f)
  PROVE  ForeignApart' /\ ForeignStays
<1>1. CASE Intrude(f)
  <2>1. /\ quarantine[f] # "none" /\ place'[f] = "foreign" /\ UNCHANGED <<rows, quarantine>>
        /\ \A g \in Files \ {f} : place'[g] = place[g]
    BY <1>1 DEF Intrude, IInv, Typed
  <2>. QED
    BY <2>1 DEF ForeignApart, ForeignStays
<1>2. CASE TakeAway(f)
  <2>1. /\ At("down") /\ place'[f] = "none" /\ UNCHANGED <<rows, quarantine>>
        /\ \A g \in Files \ {f} : place'[g] = place[g]
    BY <1>2 DEF TakeAway, IInv, Typed
  <2>. QED
    BY <2>1 DEF ForeignApart, ForeignStays
<1>. QED
  BY <1>1, <1>2

LEMMA StepsSpareForeign ==
  ASSUME RemovalAssumptions, IInv, ForeignApart, [Next]_vars PROVE ForeignApart' /\ ForeignStays
<1>1. CASE DeleteRows
  BY <1>1, UnmovedApart DEF DeleteRows, Fails, diskVars, Unmoved, IInv
<1>2. CASE ~DeleteRows
  BY <1>2, OthersKeep, UnmovedApart, MoveFileApart, UndoMoveApart, RecoverMoveApart, UserApart
     DEF Next, IInv
<1>. QED
  BY <1>1, <1>2

LEMMA RemovalsSpareForeign == ASSUME RemovalAssumptions PROVE Spec => ForeignFilesStay
<1>1. Init => IInv /\ ForeignApart
  BY InitIInv DEF Init, ForeignApart
<1>2. IInv /\ ForeignApart /\ [Next]_vars => IInv' /\ ForeignApart'
  BY NextKeeps, StepsSpareForeign
<1>3. IInv /\ ForeignApart /\ [Next]_vars =>
        [\A f \in Files : place[f] = "foreign" => place'[f] = "foreign" \/ At("down")]_vars
  BY StepsSpareForeign DEF ForeignStays
<1>. QED
  BY <1>1, <1>2, <1>3, PTL DEF Spec, ForeignFilesStay

-----------------------------------------------------------------------------
(***************************************************************************)
(* A removal that nothing disturbs.  What it leaves behind is of the       *)
(* owners whose quarantine it made, and of those it has not come to yet    *)
(* when it purges; the folder is looked at after the staging went.         *)
(***************************************************************************)
Undisturbed == failures = 0 /\ restarts = 0

FolderIsDone == folder = FALSE \/ \E f \in Files : place[f] # "none"

OnWay == engine.pc \in {"idle"} \cup Quarantining \cup Purging /\ engine.restored = TRUE
OfMade == dirs \subseteq engine.made /\ \A o \in Owners : journal[o] # {} => o \in engine.made
MadeInOrder ==
  /\ engine.pc = "create" => \A o \in engine.made : o < engine.owner
  /\ engine.pc = "journal" => journal[engine.owner] = {} /\ \A o \in engine.made : o <= engine.owner
  /\ engine.pc = "move" => \A o \in engine.made : o <= engine.owner
  /\ engine.pc = "idle" \/ engine.withFiles = FALSE => engine.made = {}
FromTheFirst == engine.pc \in {"delete", "staging"} => engine.owner = 1
PurgedInOrder ==
  engine.pc \in {"purge", "folder", "commit"} =>
    /\ staging = FALSE
    /\ \A o \in Owners : o < engine.owner => o \notin dirs /\ journal[o] = {}
    /\ engine.owner # 1 \/ engine.pc = "commit" => FolderIsDone
    /\ engine.pc # "purge" => engine.owner \notin dirs
Purged ==
  engine.pc = "idle" /\ rows = FALSE /\ engine.withFiles = TRUE => staging = FALSE /\ FolderIsDone

Tidy == OnWay /\ OfMade /\ MadeInOrder /\ FromTheFirst /\ PurgedInOrder /\ Purged
TidyInv == failures \in Nat /\ restarts \in Nat /\ (Undisturbed => Tidy)

LEMMA TidyStart == ASSUME RemovalAssumptions, Init PROVE TidyInv
<1>1. engine.pc = "idle" /\ engine.made = {} /\ engine.withFiles = FALSE /\ engine.restored = TRUE
  BY DEF Init, Idle
<1>. QED
  BY <1>1 DEF Init, TidyInv, Tidy, OnWay, OfMade, MadeInOrder, FromTheFirst, PurgedInOrder, Purged,
       Quarantining, Purging

(* An operation that fails is a disturbance, and so is a crash. *)
LEMMA Counts ==
  ASSUME failures \in Nat, restarts \in Nat, [Next]_vars
  PROVE  /\ failures' \in Nat /\ restarts' \in Nat
         /\ Undisturbed' => Undisturbed /\ ~Fails /\ ~Crash
         /\ failures' = 0 => failures = 0
<1>. USE DEF Undisturbed
<1>1. CASE UNCHANGED <<failures, restarts>> /\ ~Crash
  BY <1>1 DEF Fails
<1>2. CASE Fails
  BY <1>2 DEF Fails
<1>3. CASE Crash
  BY <1>3 DEF Crash
<1>4. ASSUME NEW files \in BOOLEAN, Remove(files) PROVE Fails \/ UNCHANGED <<failures, restarts>>
  BY <1>4 DEF Remove, Works, boundVars
<1>5. ASSUME CreateDir \/ MoveFile \/ UndoMove \/ UndoDir \/ UndoJournal \/ DeleteRows
      PROVE  Fails \/ UNCHANGED <<failures, restarts>>
  BY <1>5 DEF CreateDir, MoveFile, UndoMove, UndoDir, UndoJournal, DeleteRows, Works, boundVars
<1>6. ASSUME RemoveStaging \/ PurgeQuarantine \/ RemoveFolder \/ CommitJournal \/ Start \/ Recovered
      PROVE  Fails \/ UNCHANGED <<failures, restarts>>
  BY <1>6 DEF RemoveStaging, PurgeQuarantine, RemoveFolder, CommitJournal, Start, Recovered,
              Works, boundVars
<1>7. ASSUME NEW o \in Owners, RecoverMove(o) \/ RecoverDir(o) \/ RecoverJournal(o) \/ RecoverFails(o)
      PROVE  Fails \/ UNCHANGED <<failures, restarts>>
  BY <1>7 DEF RecoverMove, RecoverDir, RecoverJournal, RecoverFails, Works, boundVars
<1>8. ASSUME NEW f \in Files, Intrude(f) \/ TakeAway(f) PROVE UNCHANGED <<failures, restarts>>
  BY <1>8 DEF Intrude, TakeAway, Works, boundVars
<1>9. ASSUME UNCHANGED vars PROVE UNCHANGED <<failures, restarts>>
  BY <1>9 DEF vars, boundVars
<1>10. CASE WriteJournal
  <2>1. CASE UNCHANGED <<failures, restarts>>
    BY <1>1, <2>1 DEF Crash, Fails
  <2>2. ASSUME NEW refused \in {0, 1}, NEW stuck \in {0, 1},
               failures' = failures + refused + stuck, restarts' = restarts
        PROVE  /\ failures' \in Nat /\ restarts' \in Nat
               /\ Undisturbed' => Undisturbed /\ ~Fails /\ ~Crash
               /\ failures' = 0 => failures = 0
    BY <2>2 DEF Fails, Crash
  <2>. QED
    BY <1>10, <2>1, <2>2 DEF WriteJournal, Works, boundVars
<1>11. ASSUME UNCHANGED <<failures, restarts>> PROVE ~Crash
  BY <1>11 DEF Crash
<1>. QED
  BY <1>1, <1>2, <1>3, <1>4, <1>5, <1>6, <1>7, <1>8, <1>9, <1>10, <1>11 DEF Next

LEMMA EngineLooks ==
  ASSUME RemovalAssumptions, IInv
  PROVE  /\ engine \in Engines /\ engine.owner \in Owners /\ engine.owner \in Nat
         /\ Rows \in Nat /\ 1 \in Owners /\ \A o \in Owners : o \in 1..Rows
BY DEF IInv, Typed, Engines, RemovalAssumptions, Owners

LEMMA RemoveTidies ==
  ASSUME RemovalAssumptions, IInv, Tidy, NEW files \in BOOLEAN, Remove(files), ~Fails PROVE Tidy'
<1>1. /\ engine' = [Idle EXCEPT !.pc = IF files THEN "create" ELSE "delete", !.withFiles = files]
      /\ engine.pc = "idle" /\ UNCHANGED <<dirs, journal>>
  BY DEF Remove, At, diskVars
<1>2. /\ engine'.pc = (IF files THEN "create" ELSE "delete") /\ engine'.owner = 1
      /\ engine'.made = {} /\ engine'.restored = TRUE
  BY <1>1 DEF Idle
<1>3. engine.made = {}
  BY <1>1 DEF Tidy, MadeInOrder
<1>. QED
  BY <1>1, <1>2, <1>3 DEF Tidy, OnWay, OfMade, MadeInOrder, FromTheFirst, PurgedInOrder, Purged,
       Quarantining, Purging

LEMMA NextQuarantineTidies ==
  ASSUME RemovalAssumptions, IInv, Tidy, engine.pc \in {"create", "move"},
         engine' = NextQuarantine(engine), UNCHANGED <<dirs, journal>>
  PROVE  Tidy'
<1>1. /\ engine.owner \in Nat /\ \A o \in engine.made : o \in Nat /\ o <= engine.owner
      /\ engine.withFiles = TRUE /\ engine.restored = TRUE
  <2>1. engine.withFiles = TRUE /\ engine.restored = TRUE
    BY EngineLooks DEF Tidy, MadeInOrder, IInv, Stage, WithFiles, OnWay, Engines, Owners
  <2>2. \A o \in engine.made : o \in Nat
    BY EngineLooks DEF Engines, Owners
  <2>3. CASE engine.pc = "create"
    BY <2>1, <2>2, <2>3, EngineLooks DEF Tidy, MadeInOrder
  <2>4. CASE engine.pc = "move"
    BY <2>1, <2>2, <2>4, EngineLooks DEF Tidy, MadeInOrder
  <2>. QED
    BY <2>3, <2>4
<1>2. CASE engine.owner = Rows
  <2>1. engine' = [engine EXCEPT !.pc = "delete", !.owner = 1]
    BY <1>2 DEF NextQuarantine
  <2>2. /\ engine'.pc = "delete" /\ engine'.owner = 1 /\ engine'.made = engine.made
        /\ engine'.restored = engine.restored /\ engine'.withFiles = engine.withFiles
    BY <2>1, EngineLooks DEF Engines
  <2>. QED
    BY <1>1, <2>2 DEF Tidy, OnWay, OfMade, MadeInOrder, FromTheFirst, PurgedInOrder, Purged,
       Quarantining, Purging
<1>3. CASE engine.owner # Rows
  <2>1. engine' = [engine EXCEPT !.pc = "create", !.owner = @ + 1]
    BY <1>3 DEF NextQuarantine
  <2>2. /\ engine'.pc = "create" /\ engine'.owner = engine.owner + 1
        /\ engine'.made = engine.made
        /\ engine'.restored = engine.restored /\ engine'.withFiles = engine.withFiles
    BY <2>1, EngineLooks DEF Engines
  <2>. QED
    BY <1>1, <2>2 DEF Tidy, OnWay, OfMade, MadeInOrder, FromTheFirst, PurgedInOrder, Purged,
       Quarantining, Purging
<1>. QED
  BY <1>2, <1>3

LEMMA CreateDirTidies ==
  ASSUME RemovalAssumptions, IInv, Tidy, CreateDir, ~Fails PROVE Tidy'
<1> DEFINE o == engine.owner
<1>1. /\ engine.pc = "create" /\ engine.withFiles = TRUE /\ engine.restored = TRUE
      /\ o \in Nat /\ \A p \in engine.made : p < o
      /\ dirs \subseteq engine.made /\ \A p \in Owners : journal[p] # {} => p \in engine.made
  BY EngineLooks DEF CreateDir, At, Tidy, OnWay, MadeInOrder, OfMade, IInv, Stage, WithFiles
<1>2. o \notin engine.made
  BY <1>1
<1>3. CASE engine' = NextQuarantine(engine) /\ UNCHANGED <<dirs, journal>>
  BY <1>1, <1>3, NextQuarantineTidies
<1>4. CASE /\ dirs' = dirs \cup {o} /\ UNCHANGED journal
           /\ engine' = [engine EXCEPT !.pc = "journal", !.todo = Existing(o), !.made = @ \cup {o}]
  <2>1. /\ engine'.pc = "journal" /\ engine'.owner = o /\ engine'.made = engine.made \cup {o}
        /\ engine'.restored = engine.restored /\ engine'.withFiles = engine.withFiles
    BY <1>4, EngineLooks DEF Engines
  <2>2. journal'[o] = {}
    BY <1>1, <1>2, <1>4, EngineLooks
  <2>3. \A p \in engine'.made : p <= o
    <3>1. \A p \in engine.made : p \in Nat
      BY EngineLooks DEF Engines, Owners
    <3>. QED
      BY <1>1, <2>1, <3>1
  <2>4. OfMade'
    BY <1>1, <1>4, <2>1 DEF OfMade
  <2>5. MadeInOrder'
    BY <1>1, <2>1, <2>2, <2>3 DEF MadeInOrder
  <2>. QED
    BY <1>1, <2>1, <2>4, <2>5 DEF Tidy, OnWay, FromTheFirst, PurgedInOrder, Purged, Quarantining,
       Purging
<1>. QED
  BY <1>1, <1>2, <1>3, <1>4 DEF CreateDir, diskVars

LEMMA WriteJournalTidies ==
  ASSUME RemovalAssumptions, IInv, Tidy, WriteJournal, failures = 0, failures' = 0 PROVE Tidy'
<1> DEFINE o == engine.owner
<1>1. /\ engine.pc = "journal" /\ engine.withFiles = TRUE /\ engine.restored = TRUE
      /\ o \in Owners /\ journal[o] = {} /\ \A p \in engine.made : p <= o
      /\ o \in engine.made
  BY EngineLooks DEF WriteJournal, At, Tidy, OnWay, MadeInOrder, IInv, Stage, WithFiles, OwnDirectory
<1>2. journal' = [journal EXCEPT ![o] = engine.todo] /\ Goto("move") /\ UNCHANGED dirs
  <2>1. ASSUME NEW refused \in {0, 1}, NEW stuck \in {0, 1},
               journal[o] # {} \/ refused = 1, failures' = failures + refused + stuck
        PROVE  FALSE
    BY <1>1, <2>1
  <2>. QED
    BY <2>1 DEF WriteJournal, diskVars
<1>3. /\ engine'.pc = "move" /\ engine'.owner = o /\ engine'.made = engine.made
      /\ engine'.restored = engine.restored /\ engine'.withFiles = engine.withFiles
  BY <1>2, EngineLooks, GotoLooks DEF Steps
<1>4. \A p \in Owners : journal'[p] # {} => p \in engine.made
  BY <1>1, <1>2 DEF Tidy, OfMade, IInv, Typed
<1>. QED
  BY <1>1, <1>2, <1>3, <1>4 DEF Tidy, OnWay, OfMade, MadeInOrder, FromTheFirst, PurgedInOrder,
     Purged, Quarantining, Purging

LEMMA MoveFileTidies ==
  ASSUME RemovalAssumptions, IInv, Tidy, MoveFile, ~Fails PROVE Tidy'
<1>1. engine.pc = "move" /\ engine.withFiles = TRUE /\ UNCHANGED <<dirs, journal>>
  BY DEF MoveFile, At, IInv, Stage, WithFiles, diskVars
<1>2. CASE engine' = NextQuarantine(engine)
  BY <1>1, <1>2, NextQuarantineTidies
<1>3. ASSUME NEW f, engine' = [engine EXCEPT !.todo = @ \ {f}, !.moved = @ \cup {f}] PROVE Tidy'
  <2>1. /\ engine'.pc = "move" /\ engine'.owner = engine.owner /\ engine'.made = engine.made
        /\ engine'.restored = engine.restored /\ engine'.withFiles = engine.withFiles
    BY <1>1, <1>3, EngineLooks DEF Engines
  <2>. QED
    BY <1>1, <2>1 DEF Tidy, OnWay, OfMade, MadeInOrder, FromTheFirst, PurgedInOrder, Purged,
       Quarantining, Purging
<1>. QED
  BY <1>2, <1>3 DEF MoveFile

LEMMA DeleteRowsTidies ==
  ASSUME RemovalAssumptions, IInv, Tidy, DeleteRows, ~Fails PROVE Tidy'
<1>1. engine.pc = "delete" /\ Goto("staging") /\ UNCHANGED <<dirs, journal>>
  BY DEF DeleteRows, At, diskVars
<1>2. /\ engine'.pc = "staging" /\ engine'.owner = engine.owner /\ engine'.made = engine.made
      /\ engine'.restored = engine.restored /\ engine'.withFiles = engine.withFiles
  BY <1>1, EngineLooks, GotoLooks DEF Steps
<1>. QED
  BY <1>1, <1>2 DEF Tidy, OnWay, OfMade, MadeInOrder, FromTheFirst, PurgedInOrder, Purged,
     Quarantining, Purging

LEMMA RemoveStagingTidies ==
  ASSUME RemovalAssumptions, IInv, Tidy, RemoveStaging, ~Fails PROVE Tidy'
<1>1. /\ engine.pc = "staging" /\ engine.owner = 1 /\ UNCHANGED <<dirs, journal>>
      /\ staging' = FALSE
  BY DEF RemoveStaging, At, StagingGoes, Tidy, FromTheFirst
<1>2. CASE engine.withFiles = TRUE
  <2>1. engine' = [engine EXCEPT !.pc = "purge"]
    BY <1>2 DEF RemoveStaging
  <2>2. /\ engine'.pc = "purge" /\ engine'.owner = 1 /\ engine'.made = engine.made
        /\ engine'.restored = engine.restored /\ engine'.withFiles = TRUE
    BY <1>1, <1>2, <2>1, EngineLooks DEF Engines
  <2>3. \A o \in Owners : ~(o < 1)
    BY DEF Owners
  <2>. QED
    BY <1>1, <2>2, <2>3 DEF Tidy, OnWay, OfMade, MadeInOrder, FromTheFirst, PurgedInOrder, Purged,
       Quarantining, Purging
<1>3. CASE engine.withFiles # TRUE
  <2>1. engine' = Idle /\ engine.withFiles = FALSE
    BY <1>3, EngineLooks DEF RemoveStaging, Engines
  <2>2. engine'.pc = "idle" /\ engine'.made = {} /\ engine'.restored = TRUE /\ engine'.withFiles = FALSE
    BY <2>1 DEF Idle
  <2>. QED
    BY <1>1, <2>1, <2>2 DEF Tidy, OnWay, OfMade, MadeInOrder, FromTheFirst, PurgedInOrder, Purged,
       Quarantining, Purging
<1>. QED
  BY <1>2, <1>3

LEMMA PurgeQuarantineTidies ==
  ASSUME RemovalAssumptions, IInv, Tidy, PurgeQuarantine, ~Fails PROVE Tidy'
<1>1. engine.pc = "purge" /\ UNCHANGED <<place, staging, folder, journal>>
  BY DEF PurgeQuarantine, At, diskVars
<1>2. CASE Purge(engine.owner) /\ UNCHANGED engine
  <2>1. dirs' \subseteq dirs
    BY <1>2 DEF Purge
  <2>. QED
    BY <1>1, <1>2, <2>1 DEF Tidy, OnWay, OfMade, MadeInOrder, FromTheFirst, PurgedInOrder, Purged,
       Quarantining, Purging, FolderIsDone
<1>3. CASE engine.owner \notin engine.made \cap dirs /\ Goto("folder") /\ UNCHANGED dirs
  <2>1. /\ engine'.pc = "folder" /\ engine'.owner = engine.owner /\ engine'.made = engine.made
        /\ engine'.restored = engine.restored /\ engine'.withFiles = engine.withFiles
    BY <1>3, EngineLooks, GotoLooks DEF Steps
  <2>2. engine.owner \notin dirs
    BY <1>3 DEF Tidy, OfMade
  <2>. QED
    BY <1>1, <1>3, <2>1, <2>2 DEF Tidy, OnWay, OfMade, MadeInOrder, FromTheFirst, PurgedInOrder,
       Purged, Quarantining, Purging, FolderIsDone
<1>. QED
  BY <1>2, <1>3 DEF PurgeQuarantine, diskVars

LEMMA RemoveFolderTidies ==
  ASSUME RemovalAssumptions, IInv, Tidy, RemoveFolder, ~Fails PROVE Tidy'
<1>1. /\ engine.pc = "folder" /\ Goto("commit") /\ UNCHANGED <<place, staging, dirs, journal>>
      /\ folder' = (folder /\ (staging \/ \E f \in Files : place[f] # "none"))
  BY DEF RemoveFolder, At
<1>2. /\ engine'.pc = "commit" /\ engine'.owner = engine.owner /\ engine'.made = engine.made
      /\ engine'.restored = engine.restored /\ engine'.withFiles = engine.withFiles
  BY <1>1, EngineLooks, GotoLooks DEF Steps
<1>3. staging = FALSE
  BY <1>1 DEF Tidy, PurgedInOrder
<1>4. FolderIsDone'
  BY <1>1, <1>3 DEF FolderIsDone
<1>. QED
  BY <1>1, <1>2, <1>4 DEF Tidy, OnWay, OfMade, MadeInOrder, FromTheFirst, PurgedInOrder, Purged,
     Quarantining, Purging

LEMMA CommitJournalTidies ==
  ASSUME RemovalAssumptions, IInv, Tidy, CommitJournal, ~Fails PROVE Tidy'
<1> DEFINE o == engine.owner
<1>1. /\ engine.pc = "commit" /\ engine.restored = TRUE /\ staging = FALSE /\ FolderIsDone
      /\ dirs \subseteq engine.made /\ engine.made \subseteq Owners
      /\ o \notin dirs /\ \A p \in Owners : p < o => p \notin dirs /\ journal[p] = {}
      /\ \A p \in Owners : journal[p] # {} => p \in engine.made
  BY EngineLooks DEF CommitJournal, At, Tidy, OnWay, OfMade, PurgedInOrder, Engines
<1>2. /\ journal' = [journal EXCEPT ![o] = {}] /\ UNCHANGED <<rows, place, staging, folder, dirs>>
  BY <1>1 DEF CommitJournal, diskVars
<1>3. /\ o \in Owners /\ o \in Nat /\ Rows \in Nat /\ journal \in [Owners -> SUBSET Files]
      /\ \A p \in Owners : p \in 1..Rows
  BY EngineLooks DEF IInv, Typed
<1>4. \A p \in Owners : p <= o => p \notin dirs' /\ journal'[p] = {}
  BY <1>1, <1>2, <1>3
<1>5. FolderIsDone'
  BY <1>1, <1>2 DEF FolderIsDone
<1>6. CASE o = Rows
  <2>1. engine' = [Idle EXCEPT !.withFiles = TRUE]
    BY <1>6 DEF CommitJournal
  <2>2. engine'.pc = "idle" /\ engine'.made = {} /\ engine'.restored = TRUE
    BY <2>1 DEF Idle
  <2>3. \A p \in Owners : p \notin dirs' /\ journal'[p] = {}
    BY <1>3, <1>4, <1>6
  <2>. QED
    BY <1>1, <1>2, <1>5, <2>2, <2>3 DEF Tidy, OnWay, OfMade, MadeInOrder, FromTheFirst,
       PurgedInOrder, Purged, Quarantining, Purging
<1>7. CASE o # Rows
  <2>1. engine' = [engine EXCEPT !.pc = "purge", !.owner = @ + 1, !.restored = TRUE]
    BY <1>7 DEF CommitJournal
  <2>2. /\ engine'.pc = "purge" /\ engine'.owner = o + 1 /\ engine'.made = engine.made
        /\ engine'.restored = TRUE /\ engine'.withFiles = engine.withFiles
    BY <2>1, EngineLooks DEF Engines
  <2>3. \A p \in Owners : p < o + 1 => p \notin dirs' /\ journal'[p] = {}
    BY <1>3, <1>4
  <2>4. \A p \in Owners : journal'[p] # {} => p \in engine.made
    BY <1>1, <1>2, <1>3
  <2>. QED
    BY <1>1, <1>2, <1>5, <2>2, <2>3, <2>4 DEF Tidy, OnWay, OfMade, MadeInOrder, FromTheFirst,
       PurgedInOrder, Purged, Quarantining, Purging
<1>. QED
  BY <1>6, <1>7

LEMMA UserTidies ==
  ASSUME IInv, Tidy, NEW f \in Files, Intrude(f) \/ TakeAway(f) PROVE Tidy'
<1>1. /\ engine.pc = "idle" /\ rows = TRUE /\ UNCHANGED <<rows, engine, dirs, journal>>
  BY DEF Intrude, TakeAway, At, Tidy, OnWay, Quarantining, Purging, IInv, Typed
<1>. QED
  BY <1>1 DEF Tidy, OnWay, OfMade, MadeInOrder, FromTheFirst, PurgedInOrder, Purged

LEMMA StutterTidies == ASSUME Tidy, UNCHANGED vars PROVE Tidy'
BY DEF vars, diskVars, Tidy, OnWay, OfMade, MadeInOrder, FromTheFirst, PurgedInOrder, Purged,
       FolderIsDone

(* Nothing is rolled back, and no start is in the middle of it. *)
LEMMA OthersNeedTrouble ==
  ASSUME Tidy, NEW o,
         \/ UndoMove \/ UndoDir \/ UndoJournal \/ Start \/ Recovered
         \/ RecoverMove(o) \/ RecoverDir(o) \/ RecoverJournal(o) \/ RecoverFails(o)
  PROVE  FALSE
BY DEF Tidy, OnWay, Quarantining, Purging, UndoMove, UndoDir, UndoJournal, Start, Recovered,
       RecoverMove, RecoverDir, RecoverJournal, RecoverFails, Recovering, At

LEMMA StepsTidy ==
  ASSUME RemovalAssumptions, IInv, TidyInv, [Next]_vars PROVE TidyInv'
<1>1. failures' \in Nat /\ restarts' \in Nat
  BY Counts DEF TidyInv
<1>2. ASSUME Undisturbed' PROVE Tidy'
  <2>1. Tidy /\ ~Fails /\ ~Crash /\ failures = 0 /\ failures' = 0
    BY <1>2, Counts DEF TidyInv, Undisturbed
  <2>. QED
    BY <2>1, RemoveTidies, CreateDirTidies, WriteJournalTidies, MoveFileTidies, DeleteRowsTidies,
       RemoveStagingTidies, PurgeQuarantineTidies, RemoveFolderTidies, CommitJournalTidies,
       UserTidies, StutterTidies, OthersNeedTrouble DEF Next
<1>. QED
  BY <1>1, <1>2 DEF TidyInv

LEMMA RemovalsLeaveNoTrace == ASSUME RemovalAssumptions PROVE Spec => []RemovedWithoutTrace
<1>1. Init => IInv /\ TidyInv
  BY InitIInv, TidyStart
<1>2. IInv /\ TidyInv /\ [Next]_vars => IInv' /\ TidyInv'
  BY NextKeeps, StepsTidy
<1>3. ASSUME IInv, TidyInv PROVE RemovedWithoutTrace
  <2> SUFFICES ASSUME ~rows, At("idle"), engine.withFiles, Undisturbed, \A f \in Files : place[f] = "none"
               PROVE  ~folder /\ ~staging /\ dirs = {} /\ Journaled = {}
    BY DEF RemovedWithoutTrace, Undisturbed
  <2>1. Tidy /\ engine.pc = "idle" /\ engine.withFiles = TRUE /\ rows = FALSE
    BY <1>3 DEF TidyInv, At, IInv, Typed, Engines
  <2>. QED
    BY <2>1 DEF Tidy, Purged, OfMade, MadeInOrder, FolderIsDone, Journaled
<1>. QED
  BY <1>1, <1>2, <1>3, PTL DEF Spec

-----------------------------------------------------------------------------
(* The session: the torrent of an entry is that of its row.                 *)

RowWorkers ==
  [pc : {"idle", "session", "handle", "run", "pause", "leave", "exited"},
   cancelled : BOOLEAN, ok : BOOLEAN]
Entries == [row : Nat, state : {"none", "live", "paused", "error"}, failed : BOOLEAN]
SessionTyped == row \in Nat \ {0} /\ rowWorker \in RowWorkers /\ entry \in Entries

(* What a worker resumes is its row's, for the folder of an entry is that   *)
(* of a row and no row is added while one has a worker.                     *)
EntryIsSomeones == entry.state = "none" <=> entry.row = 0
WatchesItsOwn == rowWorker.pc = "run" => entry.row \in {0, row}

SessionInv == SessionTyped /\ EntryIsSomeones /\ WatchesItsOwn /\ RunsForItsRow

(* What an operation of librqbit leaves: no entry, one that failed, or one  *)
(* that does not run.                                                       *)
LEMMA EntryGone ==
  ASSUME entry' = Session!NoEntry
  PROVE  entry' \in Entries /\ entry'.row = 0 /\ entry'.state = "none"
BY DEF Session!NoEntry, Entries

LEMMA EntryFailed ==
  ASSUME entry \in Entries, entry' = [entry EXCEPT !.failed = TRUE]
  PROVE  /\ entry' \in Entries /\ entry'.failed = TRUE
         /\ entry'.row = entry.row /\ entry'.state = entry.state
BY DEF Entries

LEMMA EntryHalted ==
  ASSUME entry \in Entries, entry.state # "none",
         NEW s \in {"paused", "error"}, entry' = [entry EXCEPT !.state = s]
  PROVE  entry' \in Entries /\ entry'.row = entry.row /\ entry'.state = s
BY DEF Entries

LEMMA WorkerWent ==
  ASSUME rowWorker \in RowWorkers, NEW p \in {"pause", "leave", "exited", "handle", "run"},
         Session!Goto(p)
  PROVE  rowWorker' \in RowWorkers /\ rowWorker'.pc = p
BY DEF Session!Goto, RowWorkers

LEMMA WorkerLeft ==
  ASSUME rowWorker' = Session!NoWorker
  PROVE  rowWorker' \in RowWorkers /\ rowWorker'.pc = "idle"
BY DEF Session!NoWorker, RowWorkers

(* An entry that runs unfailed stays that of its row, unless the worker     *)
(* leaves the run.                                                          *)
(* The invariant unfolded, before a step and after it. *)
LEMMA SessionSays ==
  ASSUME SessionInv
  PROVE  /\ row \in Nat \ {0} /\ rowWorker \in RowWorkers /\ entry \in Entries
         /\ entry.state = "none" <=> entry.row = 0
         /\ rowWorker.pc = "run" => entry.row \in {0, row}
         /\ session /\ entry.state = "live" /\ ~entry.failed =>
              rowWorker.pc \in {"run", "leave", "pause"} /\ entry.row = row
BY DEF SessionInv, SessionTyped, EntryIsSomeones, WatchesItsOwn, RunsForItsRow,
       Session!RunsForItsRow, Session!IsRunning, Session!At

LEMMA SessionHolds ==
  SessionInv' <=>
    /\ row' \in Nat \ {0} /\ rowWorker' \in RowWorkers /\ entry' \in Entries
    /\ entry'.state = "none" <=> entry'.row = 0
    /\ rowWorker'.pc = "run" => entry'.row \in {0, row'}
    /\ session' /\ entry'.state = "live" /\ ~entry'.failed =>
         rowWorker'.pc \in {"run", "leave", "pause"} /\ entry'.row = row'
BY DEF SessionInv, SessionTyped, EntryIsSomeones, WatchesItsOwn, RunsForItsRow,
       Session!RunsForItsRow, Session!IsRunning, Session!At

LEMMA WatchKept ==
  ASSUME SessionInv, row' = row, rowWorker' \in RowWorkers, entry' \in Entries,
         \/ rowWorker'.pc = rowWorker.pc
         \/ rowWorker'.pc \in {"pause", "leave"}
         \/ rowWorker.pc \notin {"run", "leave", "pause"} /\ rowWorker'.pc # "run",
         \/ entry' = Session!NoEntry
         \/ entry' = entry
         \/ entry'.state = entry.state /\ entry'.row = entry.row /\ entry'.failed = TRUE
         \/ entry.state # "none" /\ entry'.row = entry.row /\ entry'.state \in {"paused", "error"},
         session' = session
  PROVE  SessionInv'
<1>1. CASE entry' = Session!NoEntry
  BY <1>1, EntryGone, SessionSays, SessionHolds
<1>2. CASE entry' = entry
  BY <1>2, SessionSays, SessionHolds
<1>3. CASE entry'.state = entry.state /\ entry'.row = entry.row /\ entry'.failed = TRUE
  BY <1>3, SessionSays, SessionHolds
<1>4. CASE entry.state # "none" /\ entry'.row = entry.row /\ entry'.state \in {"paused", "error"}
  BY <1>4, SessionSays, SessionHolds
<1> QED
  BY <1>1, <1>2, <1>3, <1>4

LEMMA SessionStarts == ASSUME Session!Init PROVE SessionInv
BY DEF Session!Init, SessionInv, SessionTyped, EntryIsSomeones, WatchesItsOwn, RunsForItsRow,
       Session!RunsForItsRow, Session!NoEntry, Session!NoWorker, Session!IsRunning, RowWorkers,
       Entries

LEMMA SessionSteps == ASSUME SessionInv, [Session!Next]_Session!vars PROVE SessionInv'
<1>1. CASE Session!OpenSession
  <2>1. CASE entry.state # "none" /\ Session!Keeps
    BY SessionSays, <1>1, <2>1, SessionHolds DEF Session!OpenSession, Session!Restored, Entries
  <2>2. CASE ~(entry.state # "none" /\ Session!Keeps)
    BY SessionSays, <1>1, <2>2, EntryGone, SessionHolds DEF Session!OpenSession
  <2> QED
    BY <2>1, <2>2
<1>2. CASE Session!AwaitSession
  <2>1. Session!Goto("handle") \/ Session!Goto("exited")
    BY <1>2 DEF Session!AwaitSession
  <2>2. /\ rowWorker' \in RowWorkers /\ rowWorker.pc = "session"
        /\ rowWorker'.pc # "run"
    BY SessionSays, <1>2, <2>1, WorkerWent DEF Session!AwaitSession, Session!At
  <2> QED
    BY SessionSays, <1>2, <2>2, WatchKept DEF Session!AwaitSession
<1>3. CASE Session!GetHandle
  <2>1. CASE Session!Goto("run") /\ entry' = [row |-> row, state |-> "live", failed |-> FALSE]
    <3>1. rowWorker' \in RowWorkers /\ rowWorker'.pc = "run"
      BY SessionSays, <2>1, WorkerWent
    <3>2. entry' \in Entries /\ entry'.row = row /\ entry'.state = "live"
      BY SessionSays, <2>1 DEF Entries
    <3> QED
      BY SessionSays, <1>3, <3>1, <3>2, SessionHolds DEF Session!GetHandle
  <2>2. CASE entry.row = row /\ Session!Goto("run")
             /\ entry' = [entry EXCEPT !.state = "live", !.failed = FALSE]
    <3>1. rowWorker' \in RowWorkers /\ rowWorker'.pc = "run"
      BY SessionSays, <2>2, WorkerWent
    <3>2. entry' \in Entries /\ entry'.row = row /\ entry'.state = "live"
      BY SessionSays, <2>2 DEF Entries
    <3> QED
      BY SessionSays, <1>3, <3>1, <3>2, SessionHolds DEF Session!GetHandle
  <2>3. CASE entry' = Session!NoEntry /\ UNCHANGED rowWorker
    BY SessionSays, <1>3, <2>3, EntryGone, WatchKept DEF Session!GetHandle
  <2>4. CASE Session!Goto("pause") /\ UNCHANGED entry
    <3>1. rowWorker' \in RowWorkers /\ rowWorker'.pc = "pause"
      BY SessionSays, <2>4, WorkerWent
    <3> QED
      BY SessionSays, <1>3, <2>4, <3>1, WatchKept DEF Session!GetHandle
  <2> QED
    BY <1>3, <2>1, <2>2, <2>3, <2>4 DEF Session!GetHandle
<1>4. CASE Session!CheckState
  <2>1. CASE entry.state = "paused" /\ entry' = [entry EXCEPT !.state = "live"] /\ UNCHANGED rowWorker
    <3>1. entry' \in Entries /\ entry'.row = entry.row /\ entry'.state = "live"
      BY SessionSays, <2>1 DEF Entries
    <3>2. rowWorker'.pc = "run" /\ entry.row = row
      BY SessionSays, <1>4, <2>1 DEF Session!CheckState, Session!At
    <3> QED
      BY SessionSays, <1>4, <2>1, <3>1, <3>2, SessionHolds DEF Session!CheckState
  <2>2. CASE Session!Goto("pause") /\ UNCHANGED entry
    <3>1. rowWorker' \in RowWorkers /\ rowWorker'.pc = "pause"
      BY SessionSays, <2>2, WorkerWent
    <3> QED
      BY SessionSays, <1>4, <2>2, <3>1, WatchKept DEF Session!CheckState
  <2> QED
    BY <1>4, <2>1, <2>2 DEF Session!CheckState, Session!Resumes
<1>5. CASE Session!EndRun
  <2>1. Session!Goto("pause") \/ Session!Goto("leave")
    BY <1>5 DEF Session!EndRun
  <2>2. rowWorker' \in RowWorkers /\ rowWorker'.pc \in {"pause", "leave"}
    BY SessionSays, <2>1, WorkerWent
  <2> QED
    BY SessionSays, <1>5, <2>2, WatchKept DEF Session!EndRun
<1>6. CASE Session!PauseEntry
  <2>1. rowWorker' \in RowWorkers /\ rowWorker'.pc = "exited"
    BY SessionSays, <1>6, WorkerWent DEF Session!PauseEntry
  <2>2. CASE entry' = [entry EXCEPT !.state = "paused"] /\ Session!IsRunning
    <3>1. entry' \in Entries /\ entry'.row = entry.row /\ entry'.state = "paused"
      BY SessionSays, <2>2, EntryHalted DEF Session!IsRunning
    <3> QED
      BY SessionSays, <1>6, <2>1, <2>2, <3>1, SessionHolds DEF Session!PauseEntry, Session!IsRunning
  <2>3. CASE entry' = entry /\ ~Session!IsRunning
    BY SessionSays, <1>6, <2>1, <2>3, SessionHolds DEF Session!PauseEntry, Session!IsRunning
  <2>4. CASE entry' = [entry EXCEPT !.failed = TRUE]
    BY SessionSays, <1>6, <2>1, <2>4, EntryFailed, SessionHolds DEF Session!PauseEntry
  <2> QED
    BY <1>6, <2>2, <2>3, <2>4 DEF Session!PauseEntry, Session!Refused, Session!Pauses
<1>7. CASE Session!Leave
  <2>1. rowWorker' \in RowWorkers /\ rowWorker'.pc = "exited"
    BY SessionSays, <1>7 DEF Session!Leave, RowWorkers
  <2>2. CASE entry' = Session!NoEntry
    BY SessionSays, <1>7, <2>1, <2>2, EntryGone, SessionHolds DEF Session!Leave
  <2>3. CASE entry' = [entry EXCEPT !.state = "paused"] /\ Session!IsRunning
    <3>1. entry' \in Entries /\ entry'.row = entry.row /\ entry'.state = "paused"
      BY SessionSays, <2>3, EntryHalted DEF Session!IsRunning
    <3> QED
      BY SessionSays, <1>7, <2>1, <2>3, <3>1, SessionHolds DEF Session!Leave, Session!IsRunning
  <2>4. CASE entry' = entry /\ ~Session!IsRunning
    BY SessionSays, <1>7, <2>1, <2>4, SessionHolds DEF Session!Leave, Session!IsRunning
  <2>5. CASE entry' = [entry EXCEPT !.failed = TRUE]
    BY SessionSays, <1>7, <2>1, <2>5, EntryFailed, SessionHolds DEF Session!Leave
  <2> QED
    BY <1>7, <2>2, <2>3, <2>4, <2>5 DEF Session!Leave, Session!Stop, Session!Refused
<1>8. CASE Session!TorrentFails
  <2>1. entry' = [entry EXCEPT !.state = "error"] /\ entry.state # "none"
    BY <1>8 DEF Session!TorrentFails, Session!IsRunning
  <2>2. entry' \in Entries /\ entry'.row = entry.row /\ entry'.state = "error"
    BY SessionSays, <2>1, EntryHalted
  <2> QED
    BY SessionSays, <1>8, <2>1, <2>2, WatchKept DEF Session!TorrentFails
<1>9. CASE Session!LatePause
  <2>1. CASE entry' = [entry EXCEPT !.state = "paused"] /\ Session!IsRunning
    <3>1. entry' \in Entries /\ entry'.row = entry.row /\ entry'.state = "paused"
      BY SessionSays, <2>1, EntryHalted DEF Session!IsRunning
    <3> QED
      BY SessionSays, <1>9, <2>1, <3>1, WatchKept DEF Session!LatePause, Session!IsRunning
  <2>2. CASE entry' = entry
    BY SessionSays, <1>9, <2>2, WatchKept DEF Session!LatePause
  <2> QED
    BY <1>9, <2>1, <2>2 DEF Session!LatePause
<1>10. CASE Session!Start
  <2>1. rowWorker' \in RowWorkers /\ rowWorker'.pc = "session" /\ rowWorker.pc = "idle"
    BY <1>10 DEF Session!Start, Session!NoWorker, RowWorkers, Session!At
  <2> QED
    BY SessionSays, <1>10, <2>1, WatchKept DEF Session!Start, Session!Command
<1>11. CASE Session!Interrupt \/ Session!Resume \/ Session!AskStop("recheck") \/ Session!AskStop("remove")
  <2>1. Session!CancelWorker \/ UNCHANGED rowWorker
    BY <1>11 DEF Session!Interrupt, Session!Resume, Session!AskStop
  <2>2. rowWorker' \in RowWorkers /\ rowWorker'.pc = rowWorker.pc
    BY SessionSays, <2>1 DEF Session!CancelWorker, RowWorkers
  <2>3. Session!Command
    BY <1>11 DEF Session!Interrupt, Session!Resume, Session!AskStop
  <2> QED
    BY SessionSays, <2>2, <2>3, WatchKept DEF Session!Command
<1>12. CASE Session!Stopped
  <2>1. \/ entry' = entry
        \/ entry' = Session!NoEntry
        \/ entry' = [entry EXCEPT !.failed = TRUE]
    BY <1>12 DEF Session!Stopped, Session!Stop, Session!Refused
  <2>2. entry' \in Entries
    BY SessionSays, <2>1, EntryGone, EntryFailed
  <2>3. UNCHANGED <<row, rowWorker, session>>
    BY <1>12 DEF Session!Stopped
  <2> QED
    BY SessionSays, <2>1, <2>2, <2>3, EntryFailed, WatchKept
<1>13. CASE Session!Finish
  <2>1. rowWorker' \in RowWorkers /\ rowWorker'.pc = "idle" /\ rowWorker.pc = "exited"
    BY <1>13, WorkerLeft DEF Session!Finish, Session!At
  <2> QED
    BY SessionSays, <1>13, <2>1, WatchKept DEF Session!Finish
<1>14. CASE Session!Forget
  <2>1. entry' = Session!NoEntry \/ entry' = [entry EXCEPT !.failed = TRUE]
    BY <1>14 DEF Session!Forget, Session!Stop, Session!Refused
  <2>2. entry' \in Entries
    BY SessionSays, <2>1, EntryGone, EntryFailed
  <2>3. UNCHANGED <<row, rowWorker, session>>
    BY <1>14 DEF Session!Forget
  <2> QED
    BY SessionSays, <2>1, <2>2, <2>3, EntryFailed, WatchKept
<1>15. CASE Session!AddAgain
  <2>1. rowWorker.pc = "idle" /\ row' = row + 1 /\ UNCHANGED <<rowWorker, session, entry>>
    BY <1>15 DEF Session!AddAgain, Session!At
  <2>2. row + 1 \in Nat \ {0}
    BY SessionSays
  <2> QED
    BY SessionSays, <2>1, <2>2, SessionHolds
<1>16. CASE Session!Restart
  <2>1. rowWorker' \in RowWorkers /\ rowWorker'.pc = "idle"
    BY <1>16, WorkerLeft DEF Session!Restart
  <2>2. session' = FALSE /\ UNCHANGED <<row, entry>>
    BY <1>16 DEF Session!Restart
  <2> QED
    BY SessionSays, <2>1, <2>2, SessionHolds
<1>17. CASE UNCHANGED Session!vars
  <2>1. UNCHANGED <<row, rowWorker, session, entry>>
    BY <1>17 DEF Session!vars
  <2> QED
    BY SessionSays, <2>1, WatchKept
<1> QED
  BY <1>1, <1>2, <1>3, <1>4, <1>5, <1>6, <1>7, <1>8, <1>9, <1>10, <1>11, <1>12, <1>13, <1>14,
     <1>15, <1>16, <1>17 DEF Session!Next

-----------------------------------------------------------------------------
(* Unpacking: what is deleted was unpacked before.                          *)

SetAssumptions == MaxAttempts \in Nat

Filled == \E n \in DOMAIN outputs : outputs[n].owner = "shio"

SetInv ==
  /\ outputs = [n \in 1..MaxAttempts |-> outputs[n]]
  /\ attempt \in Nat \ {0}
  /\ step \in {"publish", "parent", "delete"} => synced
  /\ step \in {"parent", "delete"} => Filled

LEMMA SetStarts == ASSUME Sets!Init PROVE SetInv
BY DEF Sets!Init, SetInv

(* A folder is published where there is none, and a volume that was         *)
(* downloaded deleted once one is.                                          *)
LEMMA FoldersStay ==
  ASSUME SetAssumptions, SetInv, [Sets!Next]_Sets!vars
  PROVE  /\ DOMAIN outputs' = DOMAIN outputs
         /\ \A n \in DOMAIN outputs : outputs[n] # Sets!NoFolder => outputs'[n] = outputs[n]
<1>0. outputs = [n \in 1..MaxAttempts |-> outputs[n]] /\ attempt \in Nat \ {0}
  BY DEF SetInv
<1>1. CASE UNCHANGED outputs
  BY <1>1
<1>2. ASSUME NEW n, NEW o, outputs[n] = Sets!NoFolder, outputs' = [outputs EXCEPT ![n] = o]
      PROVE  /\ DOMAIN outputs' = DOMAIN outputs
             /\ \A m \in DOMAIN outputs : outputs[m] # Sets!NoFolder => outputs'[m] = outputs[m]
  BY <1>0, <1>2
<1>3. CASE Sets!Publish
  BY <1>1, <1>2, <1>3 DEF Sets!Publish, Sets!Free
<1>4. CASE \E n \in 1..MaxAttempts : Sets!PutFolder(n)
  BY <1>2, <1>4 DEF Sets!PutFolder, Sets!Free
<1>5. CASE Sets!Ready \/ Sets!Retry \/ Sets!Cancel \/ Sets!Open \/ Sets!Unpack \/ Sets!Sync
  BY <1>1, <1>5 DEF Sets!Ready, Sets!Retry, Sets!Cancel, Sets!Open, Sets!Unpack, Sets!Sync,
                    Sets!diskVars
<1>6. CASE \/ Sets!SyncParent \/ Sets!Delete \/ (\E v \in Sets!Foreign : Sets!PutVolume(v))
           \/ Sets!Crash \/ Sets!Restart
  BY <1>1, <1>6 DEF Sets!SyncParent, Sets!Delete, Sets!PutVolume, Sets!Crash, Sets!Restart,
                    Sets!diskVars
<1>7. CASE UNCHANGED Sets!vars
  BY <1>1, <1>7 DEF Sets!vars, Sets!diskVars
<1> QED
  BY <1>3, <1>4, <1>5, <1>6, <1>7 DEF Sets!Next

LEMMA StaysFilled ==
  ASSUME SetAssumptions, SetInv, [Sets!Next]_Sets!vars, Filled PROVE Filled'
<1>1. PICK n \in DOMAIN outputs : outputs[n].owner = "shio"
  BY DEF Filled
<1>2. outputs[n] # Sets!NoFolder
  BY <1>1 DEF Sets!NoFolder
<1>3. n \in DOMAIN outputs' /\ outputs'[n] = outputs[n]
  BY <1>2, FoldersStay
<1> QED
  BY <1>1, <1>3 DEF Filled

LEMMA StepsForward ==
  ASSUME SetAssumptions, SetInv, [Sets!Next]_Sets!vars
  PROVE  /\ attempt' \in Nat \ {0}
         /\ step' \in {"publish", "parent", "delete"} => synced'
         /\ step' \in {"parent", "delete"} => Filled'
<1>0. /\ outputs = [n \in 1..MaxAttempts |-> outputs[n]] /\ attempt \in Nat \ {0}
      /\ step \in {"publish", "parent", "delete"} => synced
      /\ step \in {"parent", "delete"} => Filled
  BY DEF SetInv
<1>1. CASE step' \notin {"publish", "parent", "delete"} /\ attempt' \in Nat \ {0}
  BY <1>1
<1>2. CASE /\ attempt' = attempt /\ synced' = synced
           /\ step' = step \/ (step = "parent" /\ step' = "delete")
  BY <1>0, <1>2, StaysFilled
<1>3. CASE Sets!Sync
  BY <1>0, <1>3 DEF Sets!Sync, Sets!Goes, Sets!Fails
<1>4. CASE Sets!Publish
  <2>1. step = "publish" /\ synced
    BY <1>0, <1>4 DEF Sets!Publish
  <2>2. CASE /\ step' = "failed" /\ attempt' = attempt
    BY <1>0, <2>2
  <2>3. CASE attempt' = attempt + 1 /\ step' = step /\ synced' = synced
    BY <1>0, <2>1, <2>3
  <2>4. CASE /\ ~(attempt > MaxAttempts)
             /\ outputs' = [outputs EXCEPT ![attempt] =
                              [owner |-> "shio", files |-> unpacked.files, checked |-> checked]]
             /\ step' = "parent" /\ synced' = synced /\ attempt' = attempt
    <3>1. attempt \in 1..MaxAttempts
      BY <1>0, <2>4 DEF SetAssumptions
    <3>2. attempt \in DOMAIN outputs' /\ outputs'[attempt].owner = "shio"
      BY <1>0, <2>4, <3>1
    <3>3. Filled'
      BY <3>2 DEF Filled
    <3> QED
      BY <1>0, <2>1, <2>4, <3>3
  <2> QED
    BY <1>4, <2>2, <2>3, <2>4 DEF Sets!Publish, Sets!Goes, Sets!Fails
<1>5. CASE Sets!SyncParent
  BY <1>0, <1>1, <1>2, <1>5 DEF Sets!SyncParent, Sets!Goes, Sets!jobVars, Sets!diskVars
<1>6. CASE Sets!Delete
  BY <1>0, <1>1, <1>2, <1>6 DEF Sets!Delete, Sets!Goes, Sets!jobVars
<1>7. CASE Sets!Cancel
  <2>1. UNCHANGED <<attempt, synced, step>>
    BY <1>7 DEF Sets!Cancel, Sets!jobVars, Sets!diskVars
  <2> QED
    BY <1>2, <2>1
<1>8. CASE (\E n \in 1..MaxAttempts : Sets!PutFolder(n)) \/ (\E v \in Sets!Foreign : Sets!PutVolume(v))
  <2>1. UNCHANGED <<attempt, synced, step>>
    BY <1>8 DEF Sets!PutFolder, Sets!PutVolume, Sets!jobVars
  <2> QED
    BY <1>2, <2>1
<1>9. CASE Sets!Ready
  BY <1>0, <1>1, <1>9 DEF Sets!Ready
<1>10. CASE Sets!Retry
  BY <1>0, <1>1, <1>10 DEF Sets!Retry, Sets!Goes
<1>11. CASE Sets!Open
  <2>1. attempt' = 1 /\ step' \in {"failed", "password", "unpack"}
    BY <1>11 DEF Sets!Open, Sets!Goes
  <2> QED
    BY <1>1, <2>1
<1>12. CASE Sets!Unpack
  BY <1>0, <1>1, <1>12 DEF Sets!Unpack, Sets!Fails, Sets!Goes
<1>13. CASE Sets!Crash \/ Sets!Restart
  BY <1>0, <1>1, <1>13 DEF Sets!Crash, Sets!Restart, Sets!Goes, Sets!jobVars
<1>14. CASE UNCHANGED Sets!vars
  <2>1. UNCHANGED <<attempt, synced, step>>
    BY <1>14 DEF Sets!vars, Sets!jobVars, Sets!diskVars
  <2> QED
    BY <1>2, <2>1
<1> QED
  BY <1>3, <1>4, <1>5, <1>6, <1>7, <1>8, <1>9, <1>10, <1>11, <1>12, <1>13, <1>14 DEF Sets!Next

LEMMA SetSteps == ASSUME SetAssumptions, SetInv, [Sets!Next]_Sets!vars PROVE SetInv'
<1>1. outputs' = [n \in 1..MaxAttempts |-> outputs'[n]]
  <2>1. outputs = [n \in 1..MaxAttempts |-> outputs[n]]
    BY DEF SetInv
  <2>2. UNCHANGED outputs \/ \E n, o : outputs' = [outputs EXCEPT ![n] = o]
    <3>1. CASE Sets!Publish \/ \E n \in 1..MaxAttempts : Sets!PutFolder(n)
      BY <3>1 DEF Sets!Publish, Sets!PutFolder
    <3>2. CASE Sets!Ready \/ Sets!Retry \/ Sets!Cancel \/ Sets!Open \/ Sets!Unpack \/ Sets!Sync
      BY <3>2 DEF Sets!Ready, Sets!Retry, Sets!Cancel, Sets!Open, Sets!Unpack, Sets!Sync,
                  Sets!diskVars
    <3>3. CASE \/ Sets!SyncParent \/ Sets!Delete \/ (\E v \in Sets!Foreign : Sets!PutVolume(v))
               \/ Sets!Crash \/ Sets!Restart
      BY <3>3 DEF Sets!SyncParent, Sets!Delete, Sets!PutVolume, Sets!Crash, Sets!Restart,
                  Sets!diskVars
    <3>4. CASE UNCHANGED Sets!vars
      BY <3>4 DEF Sets!vars, Sets!diskVars
    <3> QED
      BY <3>1, <3>2, <3>3, <3>4 DEF Sets!Next
  <2> QED
    BY <2>1, <2>2
<1> QED
  BY <1>1, StepsForward DEF SetInv

LEMMA GoneWasUnpacked ==
  ASSUME SetInv, [Sets!Next]_Sets!vars, NEW v \in volumes \ volumes'
  PROVE  v \in Sets!Own /\ synced /\ Filled
<1>1. Sets!Delete
  <2>1. ASSUME UNCHANGED volumes PROVE FALSE
    BY <2>1
  <2>2. CASE Sets!Ready \/ Sets!Retry \/ Sets!Cancel \/ Sets!Open \/ Sets!Unpack \/ Sets!Sync
    BY <2>1, <2>2 DEF Sets!Ready, Sets!Retry, Sets!Cancel, Sets!Open, Sets!Unpack, Sets!Sync,
                Sets!diskVars
  <2>3. CASE \/ Sets!Publish \/ Sets!SyncParent \/ (\E n \in 1..MaxAttempts : Sets!PutFolder(n))
             \/ Sets!Crash \/ Sets!Restart
    BY <2>1, <2>3 DEF Sets!Publish, Sets!SyncParent, Sets!PutFolder, Sets!Crash, Sets!Restart,
                Sets!diskVars
  <2>4. CASE \E w \in Sets!Foreign : Sets!PutVolume(w)
    BY <2>4 DEF Sets!PutVolume
  <2>5. CASE UNCHANGED Sets!vars
    BY <2>1, <2>5 DEF Sets!vars, Sets!diskVars
  <2> QED
    BY <2>2, <2>3, <2>4, <2>5 DEF Sets!Next
<1>2. step = "delete" /\ v \in Sets!Deletes
  BY <1>1 DEF Sets!Delete
<1> QED
  BY <1>2 DEF SetInv, Sets!Deletes

LEMMA SetInvariant == ASSUME SetAssumptions PROVE Sets!Spec => []SetInv
BY SetStarts, SetSteps, PTL DEF Sets!Spec

LEMMA SparesFolders == ASSUME SetAssumptions PROVE Sets!Spec => Sets!UserFoldersStay
<1>1. SetInv /\ [Sets!Next]_Sets!vars =>
        [\A n \in DOMAIN outputs : outputs[n] # Sets!NoFolder => outputs'[n] = outputs[n]]_Sets!vars
  BY FoldersStay
<1>. QED
  BY <1>1, SetInvariant, PTL DEF Sets!Spec, Sets!UserFoldersStay

-----------------------------------------------------------------------------
(* Sums, by induction on the number of their terms.                         *)

(* A set of numbers has a least one: induction without an induction rule. *)
LEMMA LeastNatural ==
  ASSUME NEW T \in SUBSET Nat, T # {}
  PROVE  \E n \in T : \A m \in T : n <= m
<1>1. IsWellFoundedOn(OpToRel(<, Nat), Nat)
  BY NatLessThanWellFounded
<1>2. PICK n \in T : \A m \in T : <<m, n>> \notin OpToRel(<, Nat)
  BY <1>1, WFMin
<1>3. \A m \in T : ~(m < n)
  BY <1>2 DEF OpToRel
<1> QED
  BY <1>3

(* A finite set of finite sets has a member of least cardinality. *)
LEMMA SmallestSubset ==
  ASSUME NEW S, IsFiniteSet(S), NEW U \in SUBSET SUBSET S, U # {}
  PROVE  \E s \in U : \A t \in U : Cardinality(s) <= Cardinality(t)
<1> DEFINE N == {Cardinality(s) : s \in U}
<1>1. \A s \in U : IsFiniteSet(s) /\ Cardinality(s) \in Nat
  BY FS_Subset, FS_CardinalityType
<1>2. N \in SUBSET Nat /\ N # {}
  BY <1>1
<1>3. PICK n \in N : \A m \in N : n <= m
  BY <1>2, LeastNatural
<1> QED
  BY <1>3

(* The sums of f over all subsets of S, each taken from its first element. *)
First(s) == CHOOSE x \in s : TRUE
SumStep(f, t, s) == IF s = {} THEN 0 ELSE f[First(s)] + t[s \ {First(s)}]
Totals(f, S) == CHOOSE t : t = [s \in SUBSET S |-> SumStep(f, t, s)]

LEMMA FirstIsRemoved ==
  ASSUME NEW S, IsFiniteSet(S), NEW s \in SUBSET S, NEW x \in s
  PROVE  /\ IsFiniteSet(s) /\ Cardinality(s) \in Nat
         /\ s \ {x} \in SUBSET S
         /\ Cardinality(s \ {x}) \in Nat /\ Cardinality(s \ {x}) = Cardinality(s) - 1
         /\ First(s) \in s
<1>1. IsFiniteSet(s) /\ Cardinality(s) \in Nat
  BY FS_Subset, FS_CardinalityType
<1>2. IsFiniteSet(s \ {x}) /\ Cardinality(s \ {x}) = Cardinality(s) - 1
  BY <1>1, FS_RemoveElement
<1>3. Cardinality(s \ {x}) \in Nat
  BY <1>2, FS_CardinalityType
<1>4. First(s) \in s
  BY DEF First
<1> QED
  BY <1>1, <1>2, <1>3, <1>4

LEMMA TotalsExist ==
  ASSUME NEW f, NEW S, IsFiniteSet(S)
  PROVE  \A s \in SUBSET S : Totals(f, S)[s] = SumStep(f, Totals(f, S), s)
<1> DEFINE Upto(n) == {s \in SUBSET S : Cardinality(s) <= n}
           Defined(n) == \E t : t = [s \in Upto(n) |-> SumStep(f, t, s)]
<1>2. \A s \in SUBSET S : IsFiniteSet(s) /\ Cardinality(s) \in Nat
  BY FS_Subset, FS_CardinalityType
<1>3. \A s \in SUBSET S : s # {} =>
         /\ First(s) \in s /\ s \ {First(s)} \in SUBSET S
         /\ Cardinality(s \ {First(s)}) = Cardinality(s) - 1
  <2> SUFFICES ASSUME NEW s \in SUBSET S, s # {}
               PROVE  /\ First(s) \in s /\ s \ {First(s)} \in SUBSET S
                      /\ Cardinality(s \ {First(s)}) = Cardinality(s) - 1
    OBVIOUS
  <2>1. First(s) \in s
    BY DEF First
  <2> QED
    BY <2>1, FirstIsRemoved
<1>4. \A n \in Nat : Defined(n)
  <2> SUFFICES ASSUME NEW n \in Nat, ~Defined(n), \A m \in Nat : ~Defined(m) => n <= m
               PROVE  FALSE
    <3> DEFINE T == {n \in Nat : ~Defined(n)}
    <3> HIDE DEF Defined
    <3>1. T # {} => \E n \in T : \A m \in T : n <= m
      BY LeastNatural
    <3> QED
      BY <3>1
  <2>1. CASE n = 0
    <3>1. \A s \in Upto(0) : s = {}
      BY <1>2, FS_EmptySet
    <3>2. [s \in Upto(0) |-> 0] = [s \in Upto(0) |-> SumStep(f, [t \in Upto(0) |-> 0], s)]
      BY <3>1 DEF SumStep
    <3> QED
      BY <2>1, <3>2
  <2>2. CASE n # 0
    <3>1. n - 1 \in Nat /\ ~(n <= n - 1)
      BY <2>2
    <3>2. PICK t : t = [s \in Upto(n - 1) |-> SumStep(f, t, s)]
      BY <3>1
    <3> DEFINE u == [s \in Upto(n) |-> SumStep(f, t, s)]
    <3>3. \A s \in Upto(n - 1) : s \in Upto(n) /\ u[s] = t[s]
      <4>1. \A s \in Upto(n - 1) : t[s] = SumStep(f, t, s)
        BY <3>2
      <4>2. \A s \in Upto(n - 1) : s \in Upto(n)
        BY <1>2, <3>1
      <4> QED
        BY <4>1, <4>2
    <3>4. \A s \in Upto(n) : s # {} => s \ {First(s)} \in Upto(n - 1)
      BY <1>2, <1>3
    <3>5. \A s \in Upto(n) : SumStep(f, t, s) = SumStep(f, u, s)
      BY <3>3, <3>4 DEF SumStep
    <3>6. u = [s \in Upto(n) |-> SumStep(f, u, s)]
      BY <3>5
    <3> QED
      BY <3>6
  <2> QED
    BY <2>1, <2>2
<1>5. Cardinality(S) \in Nat /\ Upto(Cardinality(S)) = SUBSET S
  BY <1>2, FS_Subset
<1>6. \E t : t = [s \in SUBSET S |-> SumStep(f, t, s)]
  BY <1>4, <1>5
<1> DEFINE t == Totals(f, S)
<1>7. t = [s \in SUBSET S |-> SumStep(f, t, s)]
  BY <1>6 DEF Totals
<1> HIDE DEF t
<1>8. \A s \in SUBSET S : t[s] = SumStep(f, t, s)
  BY <1>7
<1> QED
  BY <1>8 DEF t

LEMMA SumIsTotal == ASSUME NEW f PROVE Sets!Sum(f) = Totals(f, DOMAIN f)[DOMAIN f]
BY DEF Sets!Sum, Sets!FoldFunction, Sets!FoldFunctionOnSet, Sets!MapThenFoldSet, Totals, SumStep, First

(* A sum of numbers is one, and any element may be taken first. *)
LEMMA TotalsAdd ==
  ASSUME NEW f, NEW S, IsFiniteSet(S), \A x \in S : f[x] \in Nat
  PROVE  \A s \in SUBSET S :
           /\ Totals(f, S)[s] \in Nat
           /\ \A x \in s : Totals(f, S)[s] = f[x] + Totals(f, S)[s \ {x}]
<1> DEFINE t == Totals(f, S)
           Fine(s) == t[s] \in Nat /\ \A x \in s : t[s] = f[x] + t[s \ {x}]
<1>1. \A s \in SUBSET S : t[s] = SumStep(f, t, s)
  BY TotalsExist
<1> HIDE DEF t
<1> SUFFICES ASSUME NEW s \in SUBSET S, ~Fine(s),
                    \A r \in SUBSET S : ~Fine(r) => Cardinality(s) <= Cardinality(r)
             PROVE  FALSE
  <2> DEFINE U == {s \in SUBSET S : ~Fine(s)}
  <2> HIDE DEF Fine
  <2>0. U \in SUBSET SUBSET S
    OBVIOUS
  <2>1. U # {} => \E s \in U : \A r \in U : Cardinality(s) <= Cardinality(r)
    <3> HIDE DEF U
    <3> QED
      BY <2>0, SmallestSubset
  <2>2. \A s \in SUBSET S : Fine(s)
    BY <2>1
  <2> QED
    BY <2>2 DEF Fine, t
<1>2. CASE s = {}
  <2>1. t[s] = 0
    BY <1>1, <1>2 DEF SumStep
  <2>2. Fine(s)
    BY <1>2, <2>1
  <2> HIDE DEF Fine
  <2> QED
    BY <2>2
<1>3. CASE s # {}
  <2> DEFINE y == First(s)
  <2>1. y \in s
    BY <1>3 DEF First
  <2>2. t[s] = f[y] + t[s \ {y}]
    BY <1>1, <1>3 DEF SumStep
  <2> HIDE DEF y
  <2>3. ASSUME NEW r \in SUBSET S, NEW z \in s, z \notin r, r \subseteq s
        PROVE  t[r] \in Nat /\ \A x \in r : t[r] = f[x] + t[r \ {x}]
    <3>1. s \ {z} \in SUBSET S /\ r \in SUBSET (s \ {z}) /\ IsFiniteSet(s \ {z})
      BY <2>3, FirstIsRemoved, FS_Subset
    <3>2. Cardinality(r) <= Cardinality(s \ {z})
      BY <3>1, FS_Subset
    <3>3. Cardinality(s) \in Nat /\ Cardinality(s \ {z}) = Cardinality(s) - 1
      BY FirstIsRemoved
    <3>4. Cardinality(r) \in Nat
      BY FS_Subset, FS_CardinalityType
    <3>5. ~(Cardinality(s) <= Cardinality(r))
      BY <3>2, <3>3, <3>4
    <3>6. Fine(r)
      <4> HIDE DEF Fine
      <4> QED
        BY <3>5
    <3> QED
      BY <3>6
  <2>4. f[y] \in Nat /\ t[s \ {y}] \in Nat
    BY <2>1, <2>3
  <2>5. ASSUME NEW x \in s PROVE t[s] = f[x] + t[s \ {x}]
    <3>1. CASE x = y
      BY <2>2, <3>1
    <3>2. CASE x # y
      <4> DEFINE r == (s \ {y}) \ {x}
      <4>1. x \in s \ {y} /\ y \in s \ {x} /\ r = (s \ {x}) \ {y} /\ r \in SUBSET S
        BY <2>1, <3>2
      <4>2. t[s \ {y}] = f[x] + t[r]
        BY <2>1, <2>3, <4>1
      <4>3. t[s \ {x}] = f[y] + t[r]
        <5> DEFINE q == s \ {x}
        <5>1. q \in SUBSET S /\ x \in s /\ x \notin q /\ q \subseteq s /\ y \in q /\ r = q \ {y}
          BY <4>1
        <5> HIDE DEF q, r
        <5>2. t[q] = f[y] + t[q \ {y}]
          BY <2>3, <5>1
        <5> QED
          BY <5>1, <5>2 DEF q
      <4>4. t[r] \in Nat
        BY <2>1, <2>3, <4>1
      <4>5. f[x] \in Nat
        OBVIOUS
      <4> HIDE DEF r
      <4> QED
        BY <2>2, <2>4, <4>2, <4>3, <4>4, <4>5
    <3> QED
      BY <3>1, <3>2
  <2>7. t[s] \in Nat
    BY <2>2, <2>4
  <2>6. Fine(s)
    BY <2>5, <2>7
  <2> HIDE DEF Fine
  <2> QED
    BY <2>6
<1> QED
  BY <1>2, <1>3

LEMMA TotalTakes ==
  ASSUME NEW f, NEW S, IsFiniteSet(S), \A x \in S : f[x] \in Nat, NEW x \in S
  PROVE  Totals(f, S)[S] = f[x] + Totals(f, S)[S \ {x}]
BY TotalsAdd

(* Equal values have equal sums. *)
LEMMA TotalsAgree ==
  ASSUME NEW f, NEW S, NEW g, NEW T, IsFiniteSet(T), S \subseteq T, \A x \in S : f[x] = g[x]
  PROVE  \A s \in SUBSET S : Totals(f, S)[s] = Totals(g, T)[s]
<1> DEFINE t == Totals(f, S)
           u == Totals(g, T)
           Same(s) == t[s] = u[s]
<1>0. IsFiniteSet(S)
  BY FS_Subset
<1>1. \A s \in SUBSET S : t[s] = SumStep(f, t, s)
  BY <1>0, TotalsExist
<1>4. \A s \in SUBSET T : u[s] = SumStep(g, u, s)
  BY TotalsExist
<1> HIDE DEF t, u
<1>5. \A s \in SUBSET S : t[s] = SumStep(f, t, s) /\ u[s] = SumStep(g, u, s)
  BY <1>1, <1>4
<1> SUFFICES ASSUME NEW s \in SUBSET S, ~Same(s),
                    \A r \in SUBSET S : ~Same(r) => Cardinality(s) <= Cardinality(r)
             PROVE  FALSE
  <2> DEFINE U == {s \in SUBSET S : ~Same(s)}
  <2> HIDE DEF Same
  <2>0. U \in SUBSET SUBSET S
    OBVIOUS
  <2>1. U # {} => \E s \in U : \A r \in U : Cardinality(s) <= Cardinality(r)
    <3> HIDE DEF U
    <3> QED
      BY <1>0, <2>0, SmallestSubset
  <2>2. \A s \in SUBSET S : Same(s)
    BY <2>1
  <2> QED
    BY <2>2 DEF Same, t, u
<1>2. CASE s = {}
  BY <1>5, <1>2 DEF SumStep
<1>3. CASE s # {}
  <2> DEFINE y == First(s)
  <2>1. y \in s
    BY <1>3 DEF First
  <2> HIDE DEF y
  <2>2. /\ s \ {y} \in SUBSET S
        /\ Cardinality(s) \in Nat /\ Cardinality(s \ {y}) = Cardinality(s) - 1
    BY <1>0, <2>1, FirstIsRemoved
  <2>3. Same(s \ {y})
    <3> HIDE DEF Same
    <3>1. ~(Cardinality(s) <= Cardinality(s \ {y}))
      BY <2>2
    <3> QED
      BY <2>2, <3>1
  <2>4. t[s] = f[y] + t[s \ {y}] /\ u[s] = g[y] + u[s \ {y}]
    BY <1>5, <1>3 DEF SumStep, y
  <2> QED
    BY <2>1, <2>3, <2>4
<1> QED
  BY <1>2, <1>3

(* What one more file of a new name does to the total. *)
LEMMA SumGrows ==
  ASSUME NEW f, f = [x \in DOMAIN f |-> f[x]], IsFiniteSet(DOMAIN f),
         \A x \in DOMAIN f : f[x] \in Nat, NEW n, n \notin DOMAIN f, NEW v \in Nat
  PROVE  Sets!Sum(Sets!Filed(f, n, v)) = v + Sets!Sum(f) /\ Sets!Sum(f) \in Nat
<1> DEFINE S == DOMAIN f
           g == Sets!Filed(f, n, v)
           T == S \cup {n}
<1>1. DOMAIN g = T /\ g[n] = v /\ \A x \in S : g[x] = f[x]
  BY DEF Sets!Filed
<1> HIDE DEF g
<1>2. IsFiniteSet(T)
  BY FS_AddElement
<1>3. \A x \in T : g[x] \in Nat
  BY <1>1
<1>4. n \in T /\ T \in SUBSET T /\ T \ {n} = S
  OBVIOUS
<1>5. Totals(g, T)[T] = g[n] + Totals(g, T)[T \ {n}]
  <2> HIDE DEF S, T
  <2> QED
    BY <1>2, <1>3, <1>4, TotalTakes
<1>6. Totals(f, S)[S] = Totals(g, T)[S]
  BY <1>1, <1>2, TotalsAgree
<1>7. Totals(f, S)[S] \in Nat
  BY TotalsAdd
<1>8. Sets!Sum(g) = Totals(g, T)[T] /\ Sets!Sum(f) = Totals(f, S)[S]
  BY <1>1, SumIsTotal
<1> QED
  BY <1>1, <1>4, <1>5, <1>6, <1>7, <1>8 DEF g

-----------------------------------------------------------------------------
(* Unpacking: a folder holds the whole archive, within the limits.          *)

ArchiveAssumptions ==
  /\ MaxFiles \in Nat /\ MaxFileBytes \in Nat /\ MaxTotalBytes \in Nat
  /\ \A a \in Archives :
       /\ a.entries \in Seq({a.entries[k] : k \in DOMAIN a.entries})
       /\ \A k \in DOMAIN a.entries : a.entries[k].size \in Nat

NamesUpto(es, k) == {es[n].name : n \in {m \in 1..k : es[m].kind \in {"file", "dir"}}}

(* The first k entries es are unpacked to these files, within the limits. *)
Loaded(es, k, files, count) ==
  /\ files = [n \in DOMAIN files |-> files[n]]
  /\ IsFiniteSet(DOMAIN files) /\ DOMAIN files = NamesUpto(es, k)
  /\ \A n \in DOMAIN files : files[n] \in Nat /\ files[n] <= MaxFileBytes
  /\ Sets!Sum(files) <= MaxTotalBytes
  /\ count \in Nat /\ Cardinality(DOMAIN files) <= count /\ count <= MaxFiles

(* A set that was found complete is complete until it is unpacked. *)
StaysComplete ==
  /\ step = "plan" /\ checked => Sets!Unbroken(volumes)
  /\ step \in {"unpack", "publish"} /\ (checked \/ ~set.seamless) => Sets!Unbroken(members)

UnpackedSoFar ==
  step \in {"unpack", "publish"} =>
    /\ unpacked = [there |-> TRUE, files |-> unpacked.files, count |-> unpacked.count]
    /\ next \in 1..Len(Sets!Held(members)) + 1
    /\ step = "publish" => next = Len(Sets!Held(members)) + 1
    /\ Loaded(set.entries, next - 1, unpacked.files, unpacked.count)

UnpackInv == set \in Archives /\ StaysComplete /\ UnpackedSoFar /\ Sets!FoldersAreWhole

LEMMA SameSize == \A S : Sets!Cardinality(S) = Cardinality(S)
BY DEF Sets!Cardinality, Cardinality

LEMMA NoNames == ASSUME NEW es PROVE NamesUpto(es, 0) = {}
BY DEF NamesUpto

LEMMA NamesGrow ==
  ASSUME NEW es, NEW k \in Nat
  PROVE  NamesUpto(es, k + 1) =
           IF es[k + 1].kind \in {"file", "dir"} THEN NamesUpto(es, k) \cup {es[k + 1].name}
           ELSE NamesUpto(es, k)
<1>1. 1..(k + 1) = (1..k) \cup {k + 1}
  OBVIOUS
<1> QED
  BY <1>1 DEF NamesUpto

LEMMA AllNames ==
  ASSUME NEW es, es \in Seq({es[k] : k \in DOMAIN es})
  PROVE  Sets!EntryNames(es) = NamesUpto(es, Len(es))
<1>1. DOMAIN es = 1..Len(es)
  OBVIOUS
<1> QED
  BY <1>1 DEF Sets!EntryNames, NamesUpto

LEMMA SomeNames ==
  ASSUME NEW es, NEW m \in Nat, NEW k \in 0..m
  PROVE  NamesUpto(es, k) \subseteq NamesUpto(es, m)
BY DEF NamesUpto

(* Nothing is unpacked yet. *)
LEMMA NothingLoaded ==
  ASSUME ArchiveAssumptions, NEW es PROVE Loaded(es, 0, <<>>, 0)
<1> DEFINE f == [x \in {} |-> 0]
<1>1. <<>> = f /\ DOMAIN f = {}
  OBVIOUS
<1>2. IsFiniteSet({}) /\ Cardinality({}) = 0
  BY FS_EmptySet
<1>3. Totals(f, {})[{}] = 0
  <2>1. Totals(f, {})[{}] = SumStep(f, Totals(f, {}), {})
    BY <1>2, TotalsExist
  <2> QED
    BY <2>1 DEF SumStep
<1>4. Sets!Sum(f) = 0
  <2>1. Sets!Sum(f) = Totals(f, DOMAIN f)[DOMAIN f]
    BY SumIsTotal
  <2> HIDE DEF f
  <2> QED
    BY <1>1, <1>3, <2>1
<1>5. Loaded(es, 0, f, 0)
  BY <1>2, <1>4, NoNames DEF Loaded, ArchiveAssumptions
<1> QED
  BY <1>1, <1>5

(* An entry that is taken is unpacked within the limits. *)
LEMMA EntryLoaded ==
  ASSUME ArchiveAssumptions, NEW es, NEW k \in Nat, Loaded(es, k, unpacked.files, unpacked.count),
         es[k + 1].size \in Nat, Sets!Taken(es[k + 1]), ~Sets!Skipped(es[k + 1])
  PROVE  Loaded(es, k + 1,
                Sets!Filed(unpacked.files, es[k + 1].name,
                           IF es[k + 1].kind = "file" THEN es[k + 1].size ELSE 0),
                unpacked.count + 1)
<1> DEFINE e == es[k + 1]
           v == IF e.kind = "file" THEN e.size ELSE 0
           f == unpacked.files
           c == unpacked.count
           g == Sets!Filed(f, e.name, v)
<1>1. /\ f = [n \in DOMAIN f |-> f[n]] /\ IsFiniteSet(DOMAIN f) /\ DOMAIN f = NamesUpto(es, k)
      /\ \A n \in DOMAIN f : f[n] \in Nat /\ f[n] <= MaxFileBytes
      /\ Sets!Sum(f) <= MaxTotalBytes
      /\ c \in Nat /\ Cardinality(DOMAIN f) <= c
  BY DEF Loaded
<1>2. /\ e.kind \in {"file", "dir"} /\ c < MaxFiles
      /\ e.kind = "file" => /\ e.name \notin DOMAIN f
                            /\ e.size <= MaxFileBytes /\ Sets!Sum(f) + e.size <= MaxTotalBytes
      /\ e.kind = "dir" /\ e.name \in DOMAIN f => f[e.name] = 0
  BY DEF Sets!Taken, Sets!Skipped, Sets!Fits
<1>3. v \in Nat /\ v <= MaxFileBytes /\ MaxFiles \in Nat
  BY <1>2 DEF ArchiveAssumptions
<1>4. NamesUpto(es, k + 1) = DOMAIN f \cup {e.name}
  BY <1>1, <1>2, NamesGrow
<1> HIDE DEF e, f, c, v
<1>5. g = [n \in DOMAIN f \cup {e.name} |-> IF n = e.name THEN v ELSE f[n]]
  BY DEF Sets!Filed
<1>6. DOMAIN g = DOMAIN f \cup {e.name} /\ g = [n \in DOMAIN g |-> g[n]]
  BY <1>5
<1>7. /\ IsFiniteSet(DOMAIN g)
      /\ Cardinality(DOMAIN g) <= c + 1
  <2>1. Cardinality(DOMAIN f) \in Nat
    BY <1>1, FS_CardinalityType
  <2>2. /\ IsFiniteSet(DOMAIN f \cup {e.name})
        /\ Cardinality(DOMAIN f \cup {e.name}) =
             IF e.name \in DOMAIN f THEN Cardinality(DOMAIN f) ELSE Cardinality(DOMAIN f) + 1
    BY <1>1, FS_AddElement
  <2> QED
    BY <1>1, <1>6, <2>1, <2>2
<1>8. \A n \in DOMAIN g : g[n] \in Nat /\ g[n] <= MaxFileBytes
  BY <1>1, <1>3, <1>5
<1>9. Sets!Sum(g) <= MaxTotalBytes
  <2>1. CASE e.name \notin DOMAIN f
    <3>1. Sets!Sum(g) = v + Sets!Sum(f) /\ Sets!Sum(f) \in Nat
      BY <1>1, <1>3, <2>1, SumGrows
    <3>2. Sets!Sum(f) + v <= MaxTotalBytes
      BY <1>1, <1>2, <3>1 DEF v
    <3> QED
      BY <1>3, <3>1, <3>2
  <2>2. CASE e.name \in DOMAIN f
    <3>1. v = 0 /\ f[e.name] = 0
      BY <1>2, <2>2 DEF v
    <3>2. DOMAIN g = DOMAIN f /\ \A n \in DOMAIN f : g[n] = f[n]
      BY <1>5, <2>2, <3>1
    <3>3. g = f
      BY <1>1, <1>6, <3>2
    <3> QED
      BY <1>1, <3>3
  <2> QED
    BY <2>1, <2>2
<1>10. c + 1 \in Nat /\ c + 1 <= MaxFiles
  BY <1>1, <1>2, <1>3
<1> HIDE DEF g
<1>11. Loaded(es, k + 1, g, c + 1)
  BY <1>4, <1>6, <1>7, <1>8, <1>9, <1>10 DEF Loaded
<1> QED
  BY <1>11 DEF g, e, f, c, v

-----------------------------------------------------------------------------
(* The steps of unpacking.                                                  *)

LEMMA HeldEntries ==
  ASSUME ArchiveAssumptions, set \in Archives, NEW S
  PROVE  /\ Len(Sets!Held(S)) \in Nat /\ Len(Sets!Held(S)) <= Len(set.entries)
         /\ Len(set.entries) \in Nat
         /\ Sets!Unbroken(S) => Sets!Held(S) = set.entries
         /\ \A k \in 1..Len(set.entries) : set.entries[k].size \in Nat
         /\ set.entries \in Seq({set.entries[k] : k \in DOMAIN set.entries})
<1> DEFINE es == set.entries
           E == {es[k] : k \in DOMAIN es}
<1>1. es \in Seq(E) /\ \A k \in DOMAIN es : es[k].size \in Nat
  BY DEF ArchiveAssumptions
<1>2. Sets!Held(S) = IF Sets!Unbroken(S) THEN es ELSE SubSeq(es, 1, Len(es) - 1)
  BY DEF Sets!Held, Sets!Front
<1> HIDE DEF es, E
<1>3. Len(es) \in Nat /\ DOMAIN es = 1..Len(es)
  BY <1>1
<1>4. SubSeq(es, 1, Len(es) - 1) \in Seq(E) /\ Len(SubSeq(es, 1, Len(es) - 1)) <= Len(es)
      /\ Len(SubSeq(es, 1, Len(es) - 1)) \in Nat
  BY <1>1, <1>3
<1>5. Sets!Held(S) \in {es, SubSeq(es, 1, Len(es) - 1)} /\ (Sets!Unbroken(S) => Sets!Held(S) = es)
  BY <1>2
<1>6. Len(Sets!Held(S)) \in Nat /\ Len(Sets!Held(S)) <= Len(es)
  BY <1>3, <1>4, <1>5
<1>7. \A k \in 1..Len(es) : es[k].size \in Nat
  BY <1>1, <1>3
<1> QED
  BY <1>1, <1>3, <1>5, <1>6, <1>7 DEF es, E

LEMMA SameHeld ==
  ASSUME UNCHANGED <<set, members>>
  PROVE  /\ Sets!Held(members)' = Sets!Held(members)
         /\ Sets!Unbroken(members)' <=> Sets!Unbroken(members)
BY DEF Sets!Held, Sets!Unbroken, Sets!Own

LEMMA WholeStays ==
  ASSUME Sets!FoldersAreWhole, UNCHANGED <<set, outputs>> PROVE Sets!FoldersAreWhole'
BY DEF Sets!FoldersAreWhole

LEMMA NotUnpacking ==
  ASSUME UnpackInv, set' = set, outputs' = outputs, step' \notin {"plan", "unpack", "publish"}
  PROVE  UnpackInv'
BY WholeStays DEF UnpackInv, StaysComplete, UnpackedSoFar

LEMMA SameUnpacking ==
  ASSUME UnpackInv, UNCHANGED <<set, step, checked, members, next, unpacked>>,
         step = "plan" => volumes \subseteq volumes', Sets!FoldersAreWhole'
  PROVE  UnpackInv'
<1>1. StaysComplete'
  BY SameHeld DEF UnpackInv, StaysComplete, Sets!Unbroken, Sets!Own
<1>2. UnpackedSoFar'
  BY SameHeld DEF UnpackInv, UnpackedSoFar, Loaded, NamesUpto
<1> QED
  BY <1>1, <1>2 DEF UnpackInv

(* What was found complete has all volumes. *)
LEMMA ReadyUnpacks == ASSUME UnpackInv, Sets!Ready PROVE UnpackInv'
<1>1. /\ UNCHANGED <<set, volumes, outputs>>
      /\ step' \in {"password", "plan", "incomplete"}
      /\ step' = "plan" => Sets!Unbroken(Sets!Planned)
  BY DEF Sets!Ready, Sets!diskVars, Sets!Readiness
<1>2. step' = "plan" => Sets!Unbroken(volumes)'
  BY <1>1 DEF Sets!Unbroken, Sets!Planned, Sets!Own
<1> QED
  BY <1>1, <1>2, WholeStays DEF UnpackInv, StaysComplete, UnpackedSoFar

LEMMA RetryUnpacks == ASSUME UnpackInv, Sets!Retry PROVE UnpackInv'
BY WholeStays
   DEF Sets!Retry, Sets!Goes, Sets!diskVars, UnpackInv, StaysComplete, UnpackedSoFar

LEMMA OpenUnpacks == ASSUME ArchiveAssumptions, UnpackInv, Sets!Open PROVE UnpackInv'
<1>1. /\ UNCHANGED <<set, checked, volumes, outputs>> /\ step = "plan"
      /\ members' = Sets!Planned /\ next' = 1
      /\ step' \in {"failed", "password", "unpack"}
      /\ step' = "unpack" => /\ Sets!Unbroken(Sets!Planned) \/ set.seamless
                             /\ unpacked' = [Sets!None EXCEPT !.there = TRUE]
  BY DEF Sets!Open, Sets!Goes
<1>2. CASE step' # "unpack"
  BY <1>1, <1>2, NotUnpacking
<1>3. CASE step' = "unpack"
  <2>1. checked \/ ~set.seamless => Sets!Unbroken(Sets!Planned)
    <3>1. checked => Sets!Unbroken(volumes)
      BY <1>1 DEF UnpackInv, StaysComplete
    <3>2. Sets!Unbroken(volumes) => Sets!Unbroken(Sets!Planned)
      BY DEF Sets!Unbroken, Sets!Planned
    <3> QED
      BY <1>1, <1>3, <3>1, <3>2
  <2>2. StaysComplete'
    BY <1>1, <1>3, <2>1 DEF StaysComplete, Sets!Unbroken, Sets!Own
  <2>3. unpacked' = [there |-> TRUE, files |-> <<>>, count |-> 0]
    BY <1>1, <1>3 DEF Sets!None
  <2>4. UnpackedSoFar'
    <3>1. next' \in 1..Len(Sets!Held(members)') + 1
      <4>1. (Len(Sets!Held(members)) \in Nat)'
        <5>1. set' \in Archives
          BY <1>1 DEF UnpackInv
        <5>2. Sets!Held(members)' = Sets!Held(Sets!Planned)
          BY <1>1 DEF Sets!Held, Sets!Unbroken, Sets!Own
        <5> QED
          BY <1>1, <5>1, <5>2, HeldEntries
      <4> QED
        BY <1>1, <4>1
    <3>2. Loaded(set'.entries, next' - 1, unpacked'.files, unpacked'.count)
      BY <1>1, <2>3, NothingLoaded
    <3> QED
      BY <1>3, <2>3, <3>1, <3>2 DEF UnpackedSoFar, Loaded
  <2> QED
    BY <1>1, <2>2, <2>4, WholeStays DEF UnpackInv
<1> QED
  BY <1>2, <1>3

LEMMA UnpackUnpacks == ASSUME ArchiveAssumptions, UnpackInv, Sets!Unpack PROVE UnpackInv'
<1> DEFINE e == set.entries[next]
<1>1. /\ UNCHANGED <<set, checked, members, volumes, outputs>>
      /\ step = "unpack" /\ next <= Len(Sets!Held(members))
      /\ \/ Sets!Taken(e) /\ Sets!Stage(e) /\ next' = next + 1 /\ step' = step
         \/ step' = "failed"
  BY DEF Sets!Unpack, Sets!Fails, Sets!Goes
<1>2. CASE step' = "failed"
  BY <1>1, <1>2, NotUnpacking
<1>3. CASE Sets!Taken(e) /\ Sets!Stage(e) /\ next' = next + 1 /\ step' = step
  <2>1. /\ unpacked = [there |-> TRUE, files |-> unpacked.files, count |-> unpacked.count]
        /\ next \in Nat \ {0}
        /\ Loaded(set.entries, next - 1, unpacked.files, unpacked.count)
        /\ set \in Archives
    BY <1>1 DEF UnpackInv, UnpackedSoFar
  <2>2. /\ Len(Sets!Held(members)) \in Nat /\ Len(Sets!Held(members)) <= Len(set.entries)
        /\ Len(set.entries) \in Nat
        /\ \A k \in 1..Len(set.entries) : set.entries[k].size \in Nat
    BY <2>1, HeldEntries
  <2>3. next - 1 \in Nat /\ (next - 1) + 1 = next /\ e.size \in Nat
    BY <1>1, <2>1, <2>2
  <2>4. /\ unpacked' = [there |-> TRUE, files |-> unpacked'.files, count |-> unpacked'.count]
        /\ Loaded(set.entries, next, unpacked'.files, unpacked'.count)
    <3>1. CASE Sets!Skipped(e)
      <4>1. unpacked' = unpacked
        BY <1>3, <3>1 DEF Sets!Stage
      <4>2. e.kind \notin {"file", "dir"}
        BY <3>1 DEF Sets!Skipped
      <4>3. NamesUpto(set.entries, next) = NamesUpto(set.entries, next - 1)
        BY <2>3, <4>2, NamesGrow
      <4> QED
        BY <2>1, <4>1, <4>3 DEF Loaded
    <3>2. CASE ~Sets!Skipped(e)
      <4> DEFINE g == Sets!Filed(unpacked.files, e.name, IF e.kind = "file" THEN e.size ELSE 0)
      <4>1. unpacked' = [unpacked EXCEPT !.count = @ + 1, !.files = g]
        BY <1>3, <3>2 DEF Sets!Stage
      <4>2. Loaded(set.entries, (next - 1) + 1, g, unpacked.count + 1)
        BY <1>3, <2>1, <2>3, <3>2, EntryLoaded
      <4> DEFINE f == unpacked.files
                 c == unpacked.count
      <4> HIDE DEF g
      <4>4. unpacked = [there |-> TRUE, files |-> f, count |-> c]
        BY <2>1
      <4>5. unpacked' = [unpacked EXCEPT !.count = c + 1, !.files = g]
        BY <4>1
      <4> HIDE DEF f, c
      <4>6. unpacked' = [there |-> TRUE, files |-> g, count |-> c + 1]
        BY <4>4, <4>5
      <4>3. unpacked' = [there |-> TRUE, files |-> g, count |-> unpacked.count + 1]
        BY <4>6 DEF c
      <4> QED
        BY <2>3, <4>2, <4>3
    <3> QED
      BY <3>1, <3>2
  <2>5. /\ next' \in 1..Len(Sets!Held(members)) + 1 /\ next' - 1 = next
        /\ step' = "unpack"
    BY <1>1, <1>3, <2>1, <2>2
  <2>6. UnpackedSoFar'
    BY <1>1, <2>4, <2>5, SameHeld DEF UnpackedSoFar, Loaded
  <2>7. StaysComplete'
    BY <1>1, <2>5, SameHeld DEF UnpackInv, StaysComplete
  <2> QED
    BY <1>1, <2>6, <2>7, WholeStays DEF UnpackInv
<1> QED
  BY <1>1, <1>2, <1>3

LEMMA SyncUnpacks == ASSUME ArchiveAssumptions, UnpackInv, Sets!Sync PROVE UnpackInv'
<1>1. /\ UNCHANGED <<set, checked, members, volumes, outputs>>
      /\ step = "unpack" /\ next > Len(Sets!Held(members))
      /\ \/ step' = "publish" /\ UNCHANGED <<unpacked, next>>
         \/ step' = "failed"
  BY DEF Sets!Sync, Sets!Fails, Sets!Goes
<1>2. CASE step' = "failed"
  BY <1>1, <1>2, NotUnpacking
<1>3. CASE step' = "publish" /\ UNCHANGED <<unpacked, next>>
  <2>1. Len(Sets!Held(members)) \in Nat
    BY HeldEntries DEF UnpackInv
  <2>2. next = Len(Sets!Held(members)) + 1
    BY <1>1, <2>1 DEF UnpackInv, UnpackedSoFar
  <2>3. UnpackedSoFar'
    BY <1>1, <1>3, <2>2, SameHeld DEF UnpackInv, UnpackedSoFar, Loaded, NamesUpto
  <2>4. StaysComplete'
    BY <1>1, <1>3, SameHeld DEF UnpackInv, StaysComplete
  <2> QED
    BY <1>1, <2>3, <2>4, WholeStays DEF UnpackInv
<1> QED
  BY <1>1, <1>2, <1>3

(* A folder that is published is whole. *)
LEMMA PublishUnpacks ==
  ASSUME SetAssumptions, ArchiveAssumptions, SetInv, UnpackInv, Sets!Publish PROVE UnpackInv'
<1>1. /\ UNCHANGED <<set, checked, members, volumes>> /\ step = "publish"
  BY DEF Sets!Publish
<1>2. CASE step' = "failed" /\ UNCHANGED outputs
  BY <1>1, <1>2, NotUnpacking
<1>3. CASE UNCHANGED <<step, unpacked, next, outputs>>
  BY <1>1, <1>3, WholeStays, SameUnpacking DEF UnpackInv
<1>4. CASE /\ outputs' = [outputs EXCEPT ![attempt] =
                            [owner |-> "shio", files |-> unpacked.files, checked |-> checked]]
           /\ step' = "parent" /\ ~(attempt > MaxAttempts)
  <2> DEFINE m == Len(Sets!Held(members))
             f == unpacked.files
             es == set.entries
  <2>1. Loaded(es, m, f, unpacked.count)
    <3>1. m \in Nat
      BY HeldEntries DEF UnpackInv
    <3>2. next - 1 = m
      BY <1>1, <3>1 DEF UnpackInv, UnpackedSoFar
    <3> QED
      BY <1>1, <3>2 DEF UnpackInv, UnpackedSoFar
  <2>2. /\ DOMAIN f = NamesUpto(es, m) /\ IsFiniteSet(DOMAIN f)
        /\ \A n \in DOMAIN f : f[n] <= MaxFileBytes
        /\ Sets!Sum(f) <= MaxTotalBytes
        /\ Sets!Cardinality(DOMAIN f) <= MaxFiles
    <3>1. Cardinality(DOMAIN f) \in Nat
      BY <2>1, FS_CardinalityType DEF Loaded
    <3>2. Cardinality(DOMAIN f) <= MaxFiles /\ Sets!Cardinality(DOMAIN f) = Cardinality(DOMAIN f)
      BY <2>1, <3>1, SameSize DEF Loaded, ArchiveAssumptions
    <3> QED
      BY <2>1, <3>2 DEF Loaded
  <2>3. /\ m \in 0..Len(es) /\ Len(es) \in Nat
        /\ es \in Seq({es[k] : k \in DOMAIN es})
        /\ checked \/ ~set.seamless => m = Len(es)
    <3>1. checked \/ ~set.seamless => Sets!Unbroken(members)
      BY <1>1 DEF UnpackInv, StaysComplete
    <3>2. set \in Archives
      BY DEF UnpackInv
    <3>3. /\ m \in Nat /\ m <= Len(es) /\ Len(es) \in Nat
          /\ Sets!Unbroken(members) => Sets!Held(members) = es
      BY <3>2, HeldEntries
    <3>4. es \in Seq({es[k] : k \in DOMAIN es})
      BY <3>2, HeldEntries
    <3> QED
      BY <3>1, <3>3, <3>4
  <2>4. /\ DOMAIN f \subseteq Sets!EntryNames(es)
        /\ checked \/ ~set.seamless => DOMAIN f = Sets!EntryNames(es)
    BY <2>2, <2>3, AllNames, SomeNames
  <2>5. attempt \in DOMAIN outputs /\ DOMAIN outputs' = DOMAIN outputs
    BY <1>4 DEF SetInv, SetAssumptions
  <2>6. outputs'[attempt] = [owner |-> "shio", files |-> f, checked |-> checked]
    BY <1>4, <2>5
  <2>7. \A n \in DOMAIN outputs' : n # attempt => outputs'[n] = outputs[n]
    BY <1>4, <2>5
  <2> HIDE DEF f
  <2>8. ASSUME NEW n \in DOMAIN outputs', outputs'[n].owner = "shio"
        PROVE  /\ DOMAIN outputs'[n].files \subseteq Sets!EntryNames(set'.entries)
               /\ outputs'[n].checked \/ ~set'.seamless =>
                    DOMAIN outputs'[n].files = Sets!EntryNames(set'.entries)
               /\ \A g \in DOMAIN outputs'[n].files : outputs'[n].files[g] <= MaxFileBytes
               /\ Sets!Sum(outputs'[n].files) <= MaxTotalBytes
               /\ Sets!Cardinality(DOMAIN outputs'[n].files) <= MaxFiles
    <3>1. CASE n = attempt
      BY <1>1, <2>2, <2>4, <2>6, <3>1
    <3>2. CASE n # attempt
      BY <1>1, <2>5, <2>7, <2>8, <3>2 DEF UnpackInv, Sets!FoldersAreWhole
    <3> QED
      BY <3>1, <3>2
  <2>9. Sets!FoldersAreWhole'
    BY <2>8 DEF Sets!FoldersAreWhole
  <2> QED
    BY <1>1, <1>4, <2>9 DEF UnpackInv, StaysComplete, UnpackedSoFar
<1> QED
  BY <1>1, <1>2, <1>3, <1>4 DEF Sets!Publish, Sets!Fails, Sets!Goes

LEMMA FolderPut ==
  ASSUME SetInv, UnpackInv, NEW n \in 1..MaxAttempts, Sets!PutFolder(n) PROVE UnpackInv'
<1>1. /\ UNCHANGED <<set, step, checked, members, volumes, next, unpacked>>
      /\ outputs' = [outputs EXCEPT ![n] = Sets!UserFolder]
  BY DEF Sets!PutFolder, Sets!jobVars
<1>2. Sets!UserFolder.owner = "user"
  BY DEF Sets!UserFolder, Sets!NoFolder
<1>3. n \in DOMAIN outputs /\ DOMAIN outputs' = DOMAIN outputs
  BY <1>1 DEF SetInv
<1>4. \A m \in DOMAIN outputs' : outputs'[m].owner = "shio" =>
        m \in DOMAIN outputs /\ outputs'[m] = outputs[m]
  BY <1>1, <1>2, <1>3
<1>5. Sets!FoldersAreWhole'
  BY <1>1, <1>4 DEF UnpackInv, Sets!FoldersAreWhole
<1> QED
  BY <1>1, <1>5, SameUnpacking

LEMMA OthersUnpack ==
  ASSUME UnpackInv,
         \/ Sets!Cancel \/ Sets!SyncParent \/ Sets!Delete \/ Sets!Crash \/ Sets!Restart
         \/ (\E v \in Sets!Foreign : Sets!PutVolume(v)) \/ UNCHANGED Sets!vars
  PROVE  UnpackInv'
<1>1. CASE Sets!Cancel \/ (\E v \in Sets!Foreign : Sets!PutVolume(v)) \/ UNCHANGED Sets!vars
  <2>1. UNCHANGED <<set, step, checked, members, next, unpacked, outputs>> /\ volumes \subseteq volumes'
    BY <1>1 DEF Sets!Cancel, Sets!PutVolume, Sets!vars, Sets!jobVars, Sets!diskVars
  <2> QED
    BY <2>1, WholeStays, SameUnpacking DEF UnpackInv
<1>2. CASE Sets!SyncParent \/ Sets!Delete
  <2>1. UNCHANGED <<set, outputs>> /\ step' \in {"delete", "failed", "done"}
    BY <1>2 DEF Sets!SyncParent, Sets!Delete, Sets!Goes, Sets!diskVars
  <2> QED
    BY <2>1, NotUnpacking
<1>3. CASE Sets!Crash \/ Sets!Restart
  <2>1. UNCHANGED <<set, outputs>> /\ step' \in {"crashed", "idle"}
    BY <1>3 DEF Sets!Crash, Sets!Restart, Sets!Goes, Sets!diskVars
  <2> QED
    BY <2>1, NotUnpacking
<1> QED
  BY <1>1, <1>2, <1>3

LEMMA UnpackSteps ==
  ASSUME SetAssumptions, ArchiveAssumptions, SetInv, UnpackInv, [Sets!Next]_Sets!vars
  PROVE  UnpackInv'
BY ReadyUnpacks, RetryUnpacks, OpenUnpacks, UnpackUnpacks, SyncUnpacks, PublishUnpacks,
   FolderPut, OthersUnpack DEF Sets!Next

LEMMA UnpackStarts == ASSUME Sets!Init PROVE UnpackInv
<1>1. /\ set \in Archives /\ step = "idle"
      /\ \A n \in DOMAIN outputs : outputs[n].owner = "none"
  BY DEF Sets!Init, Sets!NoFolder
<1> QED
  BY <1>1 DEF UnpackInv, StaysComplete, UnpackedSoFar, Sets!FoldersAreWhole

LEMMA UnpackInvariant ==
  ASSUME SetAssumptions, ArchiveAssumptions PROVE Sets!Spec => []UnpackInv
BY UnpackStarts, UnpackSteps, SetInvariant, PTL DEF Sets!Spec

-----------------------------------------------------------------------------
(* Names: what is cut from a name, and what is left of it.                  *)

NameAssumptions ==
  /\ MaxComponentBytes \in Nat \ {0}
  /\ ExtensionBytes \in Nat /\ ExtensionBytes <= MaxComponentBytes
  /\ MaxLength \in Nat

Alphabet == Naming!Characters \cup {"_"}
Texts == Seq(Alphabet)

(* v is a part of s, from the character after the first k on. *)
PartOf(v, s, k) ==
  /\ v \in Texts /\ Len(v) + k <= Len(s)
  /\ \A i \in 1..Len(v) : v[i] = s[i + k]

(* No separator, no climbing to a parent. *)
Flat(s) ==
  /\ \A i \in 1..Len(s) : s[i] # "/"
  /\ \A i \in 1..Len(s) : \A j \in 1..Len(s) : j = i + 1 => ~(s[i] = "." /\ s[j] = ".")

Trimmed(s) == s # <<>> => s[1] \notin {" ", "w"} /\ s[Len(s)] \notin {".", " "}

Clean(s) == s \in Texts /\ Flat(s) /\ Trimmed(s)

(* A bounded set of numbers has a greatest one. *)
LEMMA GreatestNumber ==
  ASSUME NEW T \in SUBSET Nat, NEW b \in Nat, \A n \in T : n <= b, T # {}
  PROVE  \E n \in T : \A m \in T : m <= n
<1> DEFINE D == {d \in Nat : b - d \in T}
<1>1. PICK t \in T : TRUE
  OBVIOUS
<1>2. t \in Nat /\ t <= b
  OBVIOUS
<1>3. b - t \in Nat /\ b - (b - t) = t
  BY <1>2
<1>4. b - t \in D
  BY <1>1, <1>3
<1>5. PICK d \in D : \A e \in D : d <= e
  BY <1>4, LeastNatural
<1>6. b - d \in T
  OBVIOUS
<1>7. \A m \in T : m <= b - d
  <2> SUFFICES ASSUME NEW m \in T PROVE m <= b - d
    OBVIOUS
  <2>1. m \in Nat /\ m <= b /\ b - m \in Nat /\ b - (b - m) = m
    OBVIOUS
  <2>2. b - m \in D
    BY <2>1
  <2>3. d <= b - m
    BY <1>5, <2>2
  <2> QED
    BY <2>1, <2>3
<1> QED
  BY <1>6, <1>7

LEMMA TextLooks ==
  ASSUME NEW s \in Texts
  PROVE  /\ Len(s) \in Nat /\ DOMAIN s = 1..Len(s)
         /\ \A i \in 1..Len(s) : s[i] \in Alphabet
         /\ s = <<>> <=> Len(s) = 0
BY DEF Texts

(* A prefix of a text is one of its parts. *)
LEMMA PrefixIsPart ==
  ASSUME NEW s \in Texts, NEW v \in Naming!Prefixes(s)
  PROVE  v \in Texts /\ PartOf(v, s, 0)
<1>1. PICK l \in 0..Len(s) : v = SubSeq(s, 1, l)
  BY DEF Naming!Prefixes
<1>2. l \in Nat /\ l <= Len(s) /\ Len(s) \in Nat
  BY TextLooks
<1>3. v = [i \in 1..l |-> s[i]]
  BY <1>1, <1>2
<1>4. \A i \in 1..l : s[i] \in Alphabet
  BY <1>2, TextLooks
<1>5. v \in Texts /\ Len(v) = l
  BY <1>2, <1>3, <1>4 DEF Texts
<1> QED
  BY <1>2, <1>3, <1>5 DEF PartOf

LEMMA SelfIsPrefix ==
  ASSUME NEW s \in Texts PROVE s \in Naming!Prefixes(s)
<1>1. s = SubSeq(s, 1, Len(s)) /\ Len(s) \in 0..Len(s)
  BY DEF Texts
<1> QED
  BY <1>1, Zenon DEF Naming!Prefixes

LEMMA NothingIsPrefix ==
  ASSUME NEW s \in Texts PROVE <<>> \in Naming!Prefixes(s)
<1>1. <<>> = SubSeq(s, 1, 0) /\ 0 \in 0..Len(s)
  BY DEF Texts
<1> QED
  BY <1>1 DEF Naming!Prefixes

LEMMA FirstIsPrefix ==
  ASSUME NEW s \in Texts, s # <<>> PROVE <<s[1]>> \in Naming!Prefixes(s)
<1>1. Len(s) \in Nat /\ Len(s) >= 1
  BY TextLooks
<1>2. <<s[1]>> = SubSeq(s, 1, 1) /\ 1 \in 0..Len(s)
  BY <1>1 DEF Texts
<1> QED
  BY <1>2 DEF Naming!Prefixes

(* Of some prefixes of a text there is a longest. *)
LEMMA LongestPrefix ==
  ASSUME NEW s \in Texts, NEW P \in SUBSET Naming!Prefixes(s), P # {}
  PROVE  Naming!Longest(P) \in P /\ \A t \in P : Len(t) <= Len(Naming!Longest(P))
<1> DEFINE L == {Len(t) : t \in P}
<1>1. \A t \in P : Len(t) \in Nat /\ Len(t) <= Len(s)
  <2> SUFFICES ASSUME NEW t \in P PROVE Len(t) \in Nat /\ Len(t) <= Len(s)
    OBVIOUS
  <2>1. t \in Texts /\ PartOf(t, s, 0)
    BY PrefixIsPart
  <2> QED
    BY <2>1, TextLooks DEF PartOf
<1>2. L \in SUBSET Nat /\ L # {} /\ \A n \in L : n <= Len(s)
  BY <1>1
<1>3. Len(s) \in Nat
  BY TextLooks
<1>4. PICK n \in L : \A m \in L : m <= n
  <2> HIDE DEF L
  <2> QED
    BY <1>2, <1>3, GreatestNumber
<1>5. PICK v \in P : n = Len(v)
  OBVIOUS
<1>6. \A t \in P : Len(t) <= Len(v)
  BY <1>4, <1>5
<1> QED
  BY <1>6 DEF Naming!Longest

(* The end is trimmed of these characters, and no more is cut. *)
LEMMA EndTrimmed ==
  ASSUME NEW s \in Texts, NEW chars
  PROVE  LET v == Naming!TrimEnd(s, chars)
         IN  /\ v \in Texts /\ PartOf(v, s, 0)
             /\ v = <<>> \/ v[Len(v)] \notin chars
             /\ s = <<>> \/ s[Len(s)] \notin chars => v = s
             /\ s # <<>> /\ s[1] \notin chars => v # <<>>
<1> DEFINE P == {t \in Naming!Prefixes(s) : t = <<>> \/ t[Len(t)] \notin chars}
           v == Naming!Longest(P)
<1>1. v \in P /\ \A t \in P : Len(t) <= Len(v)
  BY NothingIsPrefix, LongestPrefix
<1>2. v \in Texts /\ PartOf(v, s, 0)
  BY <1>1, PrefixIsPart
<1>3. v = <<>> \/ v[Len(v)] \notin chars
  BY <1>1
<1>4. ASSUME s = <<>> \/ s[Len(s)] \notin chars PROVE v = s
  <2>1. s \in P
    BY <1>4, SelfIsPrefix
  <2>2. Len(s) <= Len(v) /\ Len(v) <= Len(s)
    BY <1>1, <1>2, <2>1, TextLooks DEF PartOf
  <2>3. Len(s) = Len(v) /\ \A i \in 1..Len(v) : v[i] = s[i]
    BY <1>2, <2>2, TextLooks DEF PartOf
  <2> HIDE DEF v
  <2> QED
    BY <1>2, <2>3 DEF Texts
<1>5. ASSUME s # <<>>, s[1] \notin chars PROVE v # <<>>
  <2>1. <<s[1]>> \in P
    BY <1>5, FirstIsPrefix
  <2>2. 1 <= Len(v)
    BY <1>1, <2>1
  <2> QED
    BY <2>2
<1>6. Naming!TrimEnd(s, chars) = v
  BY DEF Naming!TrimEnd
<1> HIDE DEF v
<1> QED
  BY <1>2, <1>3, <1>4, <1>5, <1>6

LEMMA ReverseLooks ==
  ASSUME NEW s \in Texts
  PROVE  /\ Naming!Reverse(s) \in Texts
         /\ Len(Naming!Reverse(s)) = Len(s)
         /\ \A i \in 1..Len(s) : Naming!Reverse(s)[i] = s[Len(s) - i + 1]
<1> DEFINE r == [i \in 1..Len(s) |-> s[Len(s) - i + 1]]
<1>1. Len(s) \in Nat /\ \A i \in 1..Len(s) : Len(s) - i + 1 \in 1..Len(s)
  BY TextLooks
<1>2. \A i \in 1..Len(s) : s[Len(s) - i + 1] \in Alphabet
  BY <1>1, TextLooks
<1>3. r \in Texts /\ Len(r) = Len(s)
  BY <1>1, <1>2 DEF Texts
<1>4. Naming!Reverse(s) = r
  BY DEF Naming!Reverse
<1> QED
  BY <1>3, <1>4

LEMMA TableIsText ==
  ASSUME NEW n \in Nat, NEW f \in [1..n -> Alphabet] PROVE f \in Texts /\ Len(f) = n
BY DEF Texts

LEMMA SameText ==
  ASSUME NEW s \in Texts, NEW t \in Texts, Len(s) = Len(t), \A i \in 1..Len(s) : s[i] = t[i]
  PROVE  s = t
BY DEF Texts

(* The start is trimmed of these characters, and no more is cut. *)
LEMMA StartTrimmed ==
  ASSUME NEW s \in Texts, NEW chars
  PROVE  LET v == Naming!TrimStart(s, chars)
         IN  /\ v \in Texts /\ Len(s) - Len(v) \in Nat
             /\ PartOf(v, s, Len(s) - Len(v))
             /\ v = <<>> \/ v[1] \notin chars
             /\ s = <<>> \/ s[1] \notin chars => v = s
<1> DEFINE r == Naming!Reverse(s)
           t == Naming!TrimEnd(r, chars)
           v == Naming!Reverse(t)
<1>1. r \in Texts /\ Len(r) = Len(s) /\ \A i \in 1..Len(s) : r[i] = s[Len(s) - i + 1]
  BY ReverseLooks
<1> HIDE DEF r
<1>2. /\ t \in Texts /\ PartOf(t, r, 0)
      /\ t = <<>> \/ t[Len(t)] \notin chars
      /\ r = <<>> \/ r[Len(r)] \notin chars => t = r
  BY <1>1, EndTrimmed
<1> HIDE DEF t
<1>3. v \in Texts /\ Len(v) = Len(t) /\ \A i \in 1..Len(t) : v[i] = t[Len(t) - i + 1]
  BY <1>2, ReverseLooks
<1> HIDE DEF v
<1>4. Len(s) \in Nat /\ Len(t) \in Nat /\ Len(t) <= Len(s)
  BY <1>1, <1>2, TextLooks DEF PartOf
<1>5. PartOf(v, s, Len(s) - Len(v))
  <2>0. v \in Texts /\ Len(v) + (Len(s) - Len(v)) <= Len(s)
    BY <1>3, <1>4
  <2> SUFFICES ASSUME NEW i \in 1..Len(v) PROVE v[i] = s[i + (Len(s) - Len(v))]
    BY <2>0 DEF PartOf
  <2>1. i \in Nat /\ i >= 1 /\ i <= Len(t) /\ Len(t) - i + 1 \in 1..Len(t)
    BY <1>3, <1>4
  <2>2. v[i] = t[Len(t) - i + 1]
    BY <1>3, <2>1
  <2>3. t[Len(t) - i + 1] = r[Len(t) - i + 1 + 0]
    BY <1>2, <2>1 DEF PartOf
  <2>4. Len(t) - i + 1 + 0 = Len(t) - i + 1 /\ Len(t) - i + 1 \in 1..Len(s)
    BY <2>1, <1>4
  <2>5. r[Len(t) - i + 1] = s[Len(s) - (Len(t) - i + 1) + 1]
    BY <1>1, <2>4
  <2>6. Len(s) - (Len(t) - i + 1) + 1 = i + (Len(s) - Len(v))
    BY <1>3, <1>4, <2>1
  <2> QED
    BY <2>2, <2>3, <2>4, <2>5, <2>6
<1>6. v = <<>> \/ v[1] \notin chars
  <2> SUFFICES ASSUME v # <<>> PROVE v[1] \notin chars
    OBVIOUS
  <2>1. Len(t) >= 1 /\ t # <<>>
    BY <1>2, <1>3, <1>4, TextLooks
  <2>2. 1 \in 1..Len(t) /\ Len(t) - 1 + 1 = Len(t)
    BY <1>4, <2>1
  <2>3. v[1] = t[Len(t) - 1 + 1]
    BY <1>3, <2>2
  <2> QED
    BY <1>2, <2>1, <2>2, <2>3
<1>7. ASSUME s = <<>> \/ s[1] \notin chars PROVE v = s
  <2>1. r = <<>> \/ r[Len(r)] \notin chars
    <3>1. CASE s = <<>>
      BY <1>1, <3>1, TextLooks
    <3>2. CASE s # <<>>
      <4>1. Len(s) >= 1 /\ Len(s) \in 1..Len(s) /\ Len(s) - Len(s) + 1 = 1
        BY <1>4, <3>2, TextLooks
      <4>2. r[Len(s)] = s[Len(s) - Len(s) + 1]
        BY <1>1, <4>1
      <4> QED
        BY <1>1, <1>7, <3>2, <4>1, <4>2
    <3> QED
      BY <3>1, <3>2
  <2>2. t = r
    BY <1>2, <2>1
  <2>3. Len(v) = Len(s)
    BY <1>1, <1>3, <2>2
  <2>4. \A i \in 1..Len(v) : v[i] = s[i]
    <3> SUFFICES ASSUME NEW i \in 1..Len(v) PROVE v[i] = s[i]
      OBVIOUS
    <3>1. Len(s) - Len(v) = 0 /\ i + 0 = i
      BY <1>4, <2>3
    <3> QED
      BY <1>5, <3>1 DEF PartOf
  <2> QED
    BY <1>3, <2>3, <2>4, SameText
<1>8. Naming!TrimStart(s, chars) = v
  BY DEF Naming!TrimStart, r, t, v
<1>9. Len(s) - Len(v) \in Nat
  BY <1>3, <1>4
<1> QED
  BY <1>3, <1>9, <1>5, <1>6, <1>7, <1>8

(* A part of a part. *)
LEMMA PartOfPart ==
  ASSUME NEW s \in Texts, NEW u, NEW v, NEW k \in Nat, PartOf(u, s, k), PartOf(v, u, 0)
  PROVE  PartOf(v, s, k)
<1>1. u \in Texts /\ v \in Texts /\ Len(u) \in Nat /\ Len(v) \in Nat /\ Len(s) \in Nat
  BY TextLooks DEF PartOf
<1>2. Len(v) + 0 <= Len(u) /\ Len(u) + k <= Len(s)
  BY DEF PartOf
<1>3. \A i \in 1..Len(v) : i \in 1..Len(u) /\ i + 0 = i
  BY <1>1, <1>2
<1>4. \A i \in 1..Len(v) : v[i] = s[i + k]
  BY <1>3 DEF PartOf
<1> QED
  BY <1>1, <1>2, <1>4 DEF PartOf

(* A part of a flat text is flat. *)
LEMMA PartIsFlat ==
  ASSUME NEW s \in Texts, NEW v, NEW k \in Nat, PartOf(v, s, k), Flat(s)
  PROVE  Flat(v)
<1>1. v \in Texts /\ Len(v) \in Nat /\ Len(s) \in Nat /\ Len(v) + k <= Len(s)
  BY TextLooks DEF PartOf
<1>2. \A i \in 1..Len(v) : i + k \in 1..Len(s) /\ v[i] = s[i + k]
  BY <1>1 DEF PartOf
<1>3. \A i \in 1..Len(v) : v[i] # "/"
  BY <1>2 DEF Flat
<1>4. ASSUME NEW i \in 1..Len(v), NEW j \in 1..Len(v), j = i + 1
      PROVE  ~(v[i] = "." /\ v[j] = ".")
  <2>1. i + k \in 1..Len(s) /\ j + k \in 1..Len(s) /\ v[i] = s[i + k] /\ v[j] = s[j + k]
    BY <1>2
  <2>2. j + k = i + k + 1
    BY <1>4
  <2> QED
    BY <2>1, <2>2 DEF Flat
<1> QED
  BY <1>3, <1>4 DEF Flat

(* What is trimmed is trimmed at both ends, at once. *)
LEMMA BothTrimmed ==
  ASSUME NEW s \in Texts
  PROVE  LET v == Naming!Trim(s)
         IN  /\ v \in Texts
             /\ \E k \in Nat : PartOf(v, s, k)
             /\ Trimmed(v)
             /\ Trimmed(s) => v = s
             /\ s # <<>> /\ s[1] = "_" => v # <<>> /\ v[1] = "_"
<1> DEFINE u == Naming!TrimStart(s, {" ", "w"})
           v == Naming!TrimEnd(u, {".", " "})
<1>1. /\ u \in Texts /\ Len(s) - Len(u) \in Nat /\ PartOf(u, s, Len(s) - Len(u))
      /\ u = <<>> \/ u[1] \notin {" ", "w"}
      /\ s = <<>> \/ s[1] \notin {" ", "w"} => u = s
  BY StartTrimmed, Zenon
<1> HIDE DEF u
<1>2. /\ v \in Texts /\ PartOf(v, u, 0)
      /\ v = <<>> \/ v[Len(v)] \notin {".", " "}
      /\ u = <<>> \/ u[Len(u)] \notin {".", " "} => v = u
      /\ u # <<>> /\ u[1] \notin {".", " "} => v # <<>>
  BY <1>1, EndTrimmed, Zenon
<1>3. Naming!Trim(s) = v
  BY DEF Naming!Trim, u
<1> HIDE DEF v
<1>4. Len(s) - Len(u) \in Nat
  BY <1>1, Zenon
<1>5. PartOf(v, s, Len(s) - Len(u))
  BY <1>1, <1>2, <1>4, PartOfPart, Zenon
<1>6. v # <<>> => u # <<>> /\ v[1] = u[1]
  <2> SUFFICES ASSUME v # <<>> PROVE u # <<>> /\ v[1] = u[1]
    OBVIOUS
  <2>0. Len(v) \in Nat /\ Len(v) # 0 /\ Len(u) \in Nat
    BY <1>1, <1>2, TextLooks, Zenon
  <2>1. Len(v) + 0 <= Len(u)
    BY <1>2, Zenon DEF PartOf
  <2>2. 1 \in 1..Len(v) /\ 1 + 0 = 1 /\ Len(u) # 0
    BY <2>0, <2>1
  <2>3. v[1] = u[1 + 0]
    BY <1>2, <2>2, Zenon DEF PartOf
  <2> QED
    BY <1>1, <2>2, <2>3, TextLooks, Zenon
<1>7. Trimmed(v)
  BY <1>1, <1>2, <1>6, Zenon DEF Trimmed
<1>8. Trimmed(s) => v = s
  BY <1>1, <1>2, Zenon DEF Trimmed
<1>9. s # <<>> /\ s[1] = "_" => v # <<>> /\ v[1] = "_"
  BY <1>1, <1>2, <1>6, Zenon
<1> QED
  BY <1>2, <1>3, <1>4, <1>5, <1>7, <1>8, <1>9, Zenon

(* The bytes of a text. *)
Wide(s) == {i \in DOMAIN s : s[i] = "w"}

LEMMA BytesLook ==
  ASSUME NEW s \in Texts
  PROVE  /\ IsFiniteSet(Wide(s)) /\ Cardinality(Wide(s)) \in Nat
         /\ Naming!Bytes(s) = Len(s) + 2 * Cardinality(Wide(s))
         /\ Naming!Bytes(s) \in Nat
<1>1. DOMAIN s = 1..Len(s) /\ Len(s) \in Nat
  BY TextLooks
<1>2. IsFiniteSet(1..Len(s)) /\ Wide(s) \in SUBSET (1..Len(s))
  BY <1>1, FS_Interval DEF Wide
<1>3. IsFiniteSet(Wide(s)) /\ Cardinality(Wide(s)) \in Nat
  BY <1>2, FS_Subset, FS_CardinalityType
<1>4. Naming!Bytes(s) = Len(s) + 2 * Cardinality(Wide(s))
  BY DEF Naming!Bytes, Wide, Naming!Cardinality, Cardinality
<1> QED
  BY <1>1, <1>3, <1>4

LEMMA OneByte ==
  ASSUME NEW c \in Alphabet, c # "w" PROVE <<c>> \in Texts /\ Naming!Bytes(<<c>>) = 1
<1>1. <<c>> \in Texts /\ Len(<<c>>) = 1
  BY DEF Texts
<1>2. Wide(<<c>>) = {}
  BY DEF Wide
<1>3. Cardinality(Wide(<<c>>)) = 0
  BY <1>2, FS_EmptySet
<1>4. Naming!Bytes(<<c>>) = Len(<<c>>) + 2 * Cardinality(Wide(<<c>>))
  BY <1>1, BytesLook
<1> QED
  BY <1>1, <1>3, <1>4

LEMMA NoBytes == <<>> \in Texts /\ Naming!Bytes(<<>>) = 0
<1>1. <<>> \in Texts /\ Len(<<>>) = 0
  BY DEF Texts
<1>2. Wide(<<>>) = {}
  BY DEF Wide
<1> QED
  BY <1>1, <1>2, BytesLook, FS_EmptySet

(* A part has no more bytes than the whole. *)
LEMMA BytesOfPart ==
  ASSUME NEW s \in Texts, NEW v, NEW k \in Nat, PartOf(v, s, k)
  PROVE  Naming!Bytes(v) <= Naming!Bytes(s)
<1> DEFINE f == [i \in Wide(v) |-> i + k]
<1>1. v \in Texts /\ Len(v) \in Nat /\ Len(s) \in Nat
  BY TextLooks DEF PartOf
<1>2. Len(v) + k <= Len(s)
  BY DEF PartOf
<1>3. \A i \in Wide(v) : i \in 1..Len(v) /\ v[i] = "w"
  BY <1>1, TextLooks DEF Wide
<1>4. \A i \in Wide(v) : i \in Nat /\ i + k \in Wide(s)
  <2> SUFFICES ASSUME NEW i \in Wide(v) PROVE i \in Nat /\ i + k \in Wide(s)
    OBVIOUS
  <2>1. i \in 1..Len(v) /\ v[i] = s[i + k]
    BY <1>3 DEF PartOf
  <2>2. i + k \in 1..Len(s)
    BY <1>1, <1>2, <2>1
  <2> QED
    BY <1>3, <2>1, <2>2, TextLooks DEF Wide
<1>5. \A i \in Wide(v), j \in Wide(v) : i + k = j + k => i = j
  BY <1>4
<1>6. f \in Injection(Wide(v), Wide(s))
  BY <1>4, <1>5 DEF Injection, IsInjective
<1>7. Cardinality(Wide(v)) <= Cardinality(Wide(s))
  <2> HIDE DEF f
  <2>1. IsFiniteSet(Wide(s))
    BY BytesLook
  <2> QED
    BY <1>6, <2>1, FS_Injection
<1>8. /\ Naming!Bytes(v) = Len(v) + 2 * Cardinality(Wide(v))
      /\ Naming!Bytes(s) = Len(s) + 2 * Cardinality(Wide(s))
      /\ Cardinality(Wide(v)) \in Nat /\ Cardinality(Wide(s)) \in Nat
  BY <1>1, BytesLook
<1> QED
  BY <1>1, <1>2, <1>7, <1>8

(* Two texts in one. *)
LEMMA BytesTogether ==
  ASSUME NEW s \in Texts, NEW t \in Texts
  PROVE  /\ s \o t \in Texts /\ Len(s \o t) = Len(s) + Len(t)
         /\ \A i \in 1..Len(s) : (s \o t)[i] = s[i]
         /\ \A i \in 1..Len(t) : (s \o t)[i + Len(s)] = t[i]
         /\ Naming!Bytes(s \o t) <= Naming!Bytes(s) + Naming!Bytes(t)
<1> DEFINE u == s \o t
           M == {i \in Wide(u) : i > Len(s)}
           f == [i \in M |-> i - Len(s)]
<1>1. Len(s) \in Nat /\ Len(t) \in Nat
  BY TextLooks
<1>2. u \in Texts /\ Len(u) = Len(s) + Len(t)
  BY DEF Texts
<1>3. \A i \in 1..Len(s) : u[i] = s[i]
  BY DEF Texts
<1>4. \A i \in 1..Len(t) : u[i + Len(s)] = t[i]
  BY DEF Texts
<1> HIDE DEF u
<1>5. \A i \in Wide(u) : i \in 1..Len(u) /\ u[i] = "w"
  BY <1>2, TextLooks DEF Wide
<1>6. Wide(u) \subseteq Wide(s) \cup M
  <2> SUFFICES ASSUME NEW i \in Wide(u), ~(i > Len(s)) PROVE i \in Wide(s)
    OBVIOUS
  <2>1. i \in 1..Len(s)
    BY <1>1, <1>2, <1>5
  <2> QED
    BY <1>3, <1>5, <2>1, TextLooks DEF Wide
<1>7. \A i \in M : i \in Nat /\ i - Len(s) \in Wide(t)
  <2> SUFFICES ASSUME NEW i \in M PROVE i \in Nat /\ i - Len(s) \in Wide(t)
    OBVIOUS
  <2>1. i \in 1..Len(u) /\ i > Len(s) /\ u[i] = "w"
    BY <1>5
  <2>2. i - Len(s) \in 1..Len(t) /\ i - Len(s) + Len(s) = i
    BY <1>1, <1>2, <2>1
  <2>3. u[i - Len(s) + Len(s)] = t[i - Len(s)]
    BY <1>4, <2>2
  <2> QED
    BY <1>1, <1>2, <2>1, <2>2, <2>3, TextLooks DEF Wide
<1>8. f \in Injection(M, Wide(t))
  <2>1. \A i \in M, j \in M : i - Len(s) = j - Len(s) => i = j
    BY <1>1, <1>7
  <2> QED
    BY <1>7, <2>1 DEF Injection, IsInjective
<1>9. IsFiniteSet(Wide(s)) /\ IsFiniteSet(Wide(t)) /\ IsFiniteSet(Wide(u))
  BY <1>2, BytesLook
<1>10. IsFiniteSet(M) /\ Cardinality(M) <= Cardinality(Wide(t))
  <2> HIDE DEF f, M
  <2> QED
    BY <1>8, <1>9, FS_Injection
<1> HIDE DEF M
<1>11. Cardinality(M) \in Nat /\ Cardinality(Wide(s)) \in Nat /\ Cardinality(Wide(t)) \in Nat
  BY <1>9, <1>10, FS_CardinalityType
<1>12. /\ IsFiniteSet(Wide(s) \cup M)
       /\ Cardinality(Wide(s) \cup M) =
            Cardinality(Wide(s)) + Cardinality(M) - Cardinality(Wide(s) \cap M)
       /\ Cardinality(Wide(s) \cap M) \in Nat
  <2>1. IsFiniteSet(Wide(s) \cap M)
    BY <1>9, FS_Subset
  <2> QED
    BY <1>9, <1>10, <2>1, FS_Union, FS_CardinalityType
<1>13. Cardinality(Wide(u)) <= Cardinality(Wide(s) \cup M)
  BY <1>6, <1>12, FS_Subset
<1>14. /\ Naming!Bytes(s) = Len(s) + 2 * Cardinality(Wide(s))
       /\ Naming!Bytes(t) = Len(t) + 2 * Cardinality(Wide(t))
       /\ Naming!Bytes(u) = Len(u) + 2 * Cardinality(Wide(u))
       /\ Cardinality(Wide(u)) \in Nat
  BY <1>2, BytesLook
<1>15. Cardinality(Wide(u)) <= Cardinality(Wide(s)) + Cardinality(Wide(t))
  BY <1>10, <1>11, <1>12, <1>13, <1>14
<1>16. Naming!Bytes(u) <= Naming!Bytes(s) + Naming!Bytes(t)
  BY <1>1, <1>2, <1>11, <1>14, <1>15
<1> QED
  BY <1>2, <1>3, <1>4, <1>16 DEF u

(* A text is cut where its bytes still fit. *)
LEMMA CutFits ==
  ASSUME NEW s \in Texts, NEW max \in Nat
  PROVE  LET v == Naming!Truncate(s, max)
         IN  /\ v \in Texts /\ PartOf(v, s, 0)
             /\ Naming!Bytes(v) <= max
             /\ s # <<>> /\ Naming!Bytes(<<s[1]>>) <= max => v # <<>>
<1> DEFINE P == {t \in Naming!Prefixes(s) : Naming!Bytes(t) <= max}
           v == Naming!Longest(P)
<1>1. v \in P /\ \A t \in P : Len(t) <= Len(v)
  <2>1. <<>> \in P
    BY NothingIsPrefix, NoBytes
  <2> QED
    BY <2>1, LongestPrefix
<1>2. v \in Texts /\ PartOf(v, s, 0)
  BY <1>1, PrefixIsPart
<1>3. ASSUME s # <<>>, Naming!Bytes(<<s[1]>>) <= max PROVE v # <<>>
  <2>1. <<s[1]>> \in P
    BY <1>3, FirstIsPrefix
  <2>2. 1 <= Len(v)
    BY <1>1, <2>1
  <2> QED
    BY <2>2
<1>4. Naming!Truncate(s, max) = v
  BY DEF Naming!Truncate
<1> HIDE DEF v
<1> QED
  BY <1>1, <1>2, <1>3, <1>4

LEMMA LastDot ==
  ASSUME NEW s \in Texts, Naming!Dots(s) # {}
  PROVE  LET d == Naming!Max(Naming!Dots(s))
         IN  d \in 1..Len(s) /\ s[d] = "." /\ \A i \in 1..Len(s) : s[i] = "." => i <= d
<1> DEFINE D == Naming!Dots(s)
<1>1. DOMAIN s = 1..Len(s) /\ Len(s) \in Nat
  BY TextLooks
<1>2. \A i : i \in D <=> i \in 1..Len(s) /\ s[i] = "."
  BY <1>1 DEF Naming!Dots
<1> HIDE DEF D
<1>3. D \in SUBSET Nat /\ \A i \in D : i <= Len(s)
  BY <1>1, <1>2
<1>4. D # {}
  BY DEF D
<1>5. \E n \in D : \A m \in D : m <= n
  BY <1>1, <1>3, <1>4, GreatestNumber
<1>6. \E n \in D : \A m \in D : n >= m
  BY <1>3, <1>5
<1> DEFINE d == Naming!Max(D)
<1>7. d \in D /\ \A m \in D : d >= m
  BY <1>6 DEF Naming!Max
<1> HIDE DEF d
<1>8. d \in 1..Len(s) /\ s[d] = "." /\ \A i \in 1..Len(s) : s[i] = "." => i <= d
  BY <1>1, <1>2, <1>3, <1>7
<1> QED
  BY <1>8 DEF d, D

LEMMA FirstDot ==
  ASSUME NEW s \in Texts, Naming!Dots(s) # {}
  PROVE  Naming!Min(Naming!Dots(s)) \in 1..Len(s)
<1> DEFINE D == Naming!Dots(s)
<1>1. DOMAIN s = 1..Len(s) /\ Len(s) \in Nat
  BY TextLooks
<1>2. \A i \in D : i \in 1..Len(s)
  BY <1>1 DEF Naming!Dots
<1> HIDE DEF D
<1>3. D \in SUBSET Nat
  BY <1>1, <1>2
<1>4. D # {}
  BY DEF D
<1>5. \E n \in D : \A m \in D : n <= m
  BY <1>3, <1>4, LeastNatural
<1>6. Naming!Min(D) \in D
  BY <1>5 DEF Naming!Min
<1> QED
  BY <1>2, <1>6 DEF D

LEMMA TailIsPart ==
  ASSUME NEW s \in Texts, NEW k \in 0..Len(s)
  PROVE  LET v == SubSeq(s, k + 1, Len(s))
         IN  v \in Texts /\ Len(v) = Len(s) - k /\ PartOf(v, s, k)
<1> DEFINE v == SubSeq(s, k + 1, Len(s))
<1>1. Len(s) \in Nat /\ k \in Nat /\ k <= Len(s)
  BY TextLooks
<1>2. v = [i \in 1..(Len(s) - k) |-> s[i + k]]
  BY <1>1
<1>3. \A i \in 1..(Len(s) - k) : i + k \in 1..Len(s)
  BY <1>1
<1>4. \A i \in 1..(Len(s) - k) : s[i + k] \in Alphabet
  BY <1>3, TextLooks
<1>5. Len(s) - k \in Nat
  BY <1>1
<1>6. v \in Texts /\ Len(v) = Len(s) - k
  BY <1>2, <1>4, <1>5 DEF Texts
<1>7. \A i \in 1..Len(v) : v[i] = s[i + k]
  BY <1>2, <1>6
<1> HIDE DEF v
<1>8. PartOf(v, s, k)
  BY <1>1, <1>6, <1>7 DEF PartOf
<1> QED
  BY <1>6, <1>8 DEF v

(* A stem h of s, a dot and an extension of s that has none. *)
LEMMA ExtensionKept ==
  ASSUME NEW s, Clean(s), NEW h, PartOf(h, s, 0),
         NEW d \in 1..Len(s), \A i \in 1..Len(s) : s[i] = "." => i <= d,
         h = <<>> \/ h[Len(h)] # ".",
         NEW ext, PartOf(ext, s, d), Len(ext) = Len(s) - d, ext # <<>>,
         NEW r, r = Append(h, ".") \o ext
  PROVE  Clean(r) /\ Naming!Bytes(r) <= Naming!Bytes(h) + 1 + Naming!Bytes(ext)
<1>1. s \in Texts /\ h \in Texts /\ ext \in Texts
  BY DEF Clean, PartOf
<1>2. Len(s) \in Nat /\ Len(h) \in Nat /\ Len(ext) \in Nat
  BY <1>1, TextLooks
<1>3. <<".">> \in Texts /\ Len(<<".">>) = 1 /\ <<".">>[1] = "." /\ Naming!Bytes(<<".">>) = 1
  <2>1. "." \in Alphabet
    BY DEF Alphabet, Naming!Characters
  <2> QED
    BY <2>1, OneByte
<1> DEFINE q == h \o <<".">>
<1>4. Append(h, ".") = q
  BY <1>1 DEF Texts
<1>5. /\ q \in Texts /\ Len(q) = Len(h) + 1
      /\ \A i \in 1..Len(h) : q[i] = h[i]
      /\ q[1 + Len(h)] = "."
      /\ Naming!Bytes(q) <= Naming!Bytes(h) + 1
  <2>1. 1 \in 1..Len(<<".">>)
    BY <1>3
  <2> QED
    BY <1>1, <1>3, <2>1, BytesTogether
<1> HIDE DEF q
<1>6. r = q \o ext
  BY <1>4
<1>7. /\ r \in Texts /\ Len(r) = Len(q) + Len(ext)
      /\ \A i \in 1..Len(q) : r[i] = q[i]
      /\ \A i \in 1..Len(ext) : r[i + Len(q)] = ext[i]
      /\ Naming!Bytes(r) <= Naming!Bytes(q) + Naming!Bytes(ext)
  <2>1. q \in Texts /\ ext \in Texts
    BY <1>1, <1>5
  <2>2. /\ q \o ext \in Texts /\ Len(q \o ext) = Len(q) + Len(ext)
        /\ \A i \in 1..Len(q) : (q \o ext)[i] = q[i]
        /\ \A i \in 1..Len(ext) : (q \o ext)[i + Len(q)] = ext[i]
        /\ Naming!Bytes(q \o ext) <= Naming!Bytes(q) + Naming!Bytes(ext)
    BY ONLY <2>1, BytesTogether
  <2> QED
    BY ONLY <1>6, <2>2
<1>8. Naming!Bytes(r) <= Naming!Bytes(h) + 1 + Naming!Bytes(ext)
  <2>1. /\ Naming!Bytes(r) \in Nat /\ Naming!Bytes(q) \in Nat
        /\ Naming!Bytes(h) \in Nat /\ Naming!Bytes(ext) \in Nat
    BY <1>1, <1>5, <1>7, BytesLook
  <2> QED
    BY <1>5, <1>7, <2>1
<1>9. Len(h) <= Len(s) /\ Len(ext) + d = Len(s) /\ d \in Nat
  <2>1. Len(h) + 0 <= Len(s)
    BY DEF PartOf
  <2> QED
    BY <1>2, <2>1
<1>10. \A i \in 1..Len(h) : r[i] = s[i] /\ i \in 1..Len(s)
  <2> SUFFICES ASSUME NEW i \in 1..Len(h) PROVE r[i] = s[i] /\ i \in 1..Len(s)
    OBVIOUS
  <2>1. i \in 1..Len(q) /\ i \in 1..Len(s) /\ i + 0 = i
    BY <1>2, <1>5, <1>9
  <2>2. h[i] = s[i + 0]
    BY DEF PartOf
  <2> QED
    BY <1>5, <1>7, <2>1, <2>2
<1>11. r[1 + Len(h)] = "."
  <2>1. 1 + Len(h) \in 1..Len(q)
    BY <1>2, <1>5
  <2> QED
    BY <1>5, <1>7, <2>1
<1>12. \A j \in 1..Len(ext) :
         j + d \in 1..Len(s) /\ r[j + (Len(h) + 1)] = s[j + d] /\ s[j + d] # "."
  <2> SUFFICES ASSUME NEW j \in 1..Len(ext)
               PROVE  j + d \in 1..Len(s) /\ r[j + (Len(h) + 1)] = s[j + d] /\ s[j + d] # "."
    OBVIOUS
  <2>1. j + d \in 1..Len(s) /\ ~(j + d <= d)
    BY <1>2, <1>9
  <2>2. ext[j] = s[j + d]
    BY DEF PartOf
  <2> QED
    BY <1>5, <1>7, <2>1, <2>2
<1>13. \A i \in 1..Len(r) :
         \/ i \in 1..Len(h)
         \/ i = 1 + Len(h)
         \/ i - (Len(h) + 1) \in 1..Len(ext) /\ (i - (Len(h) + 1)) + (Len(h) + 1) = i
  BY <1>2, <1>5, <1>7
<1>14. \A i \in 1..Len(r) : r[i] # "/"
  <2> SUFFICES ASSUME NEW i \in 1..Len(r) PROVE r[i] # "/"
    OBVIOUS
  <2>1. CASE i \in 1..Len(h)
    BY <1>10, <2>1 DEF Clean, Flat
  <2>2. CASE i = 1 + Len(h)
    BY <1>11, <2>2
  <2>3. CASE i - (Len(h) + 1) \in 1..Len(ext) /\ (i - (Len(h) + 1)) + (Len(h) + 1) = i
    <3> DEFINE j == i - (Len(h) + 1)
    <3>1. j \in 1..Len(ext) /\ j + (Len(h) + 1) = i
      BY <2>3
    <3> HIDE DEF j
    <3> QED
      BY <1>12, <3>1 DEF Clean, Flat
  <2> QED
    BY <1>13, <2>1, <2>2, <2>3
<1>15. ASSUME NEW i \in 1..Len(r), NEW i2 \in 1..Len(r), i2 = i + 1, r[i] = ".", r[i2] = "."
       PROVE  FALSE
  <2>1. CASE i2 \in 1..Len(h)
    <3>1. i \in 1..Len(h)
      BY <1>2, <1>15, <2>1
    <3> QED
      BY <1>10, <1>15, <2>1, <3>1 DEF Clean, Flat
  <2>2. CASE i2 = 1 + Len(h)
    <3>1. i = Len(h) /\ i \in 1..Len(h)
      BY <1>2, <1>15, <2>2
    <3>2. h[Len(h)] # "."
      BY <1>1, <3>1, TextLooks
    <3>3. r[i] = h[i]
      BY <1>5, <1>7, <1>2, <3>1
    <3> QED
      BY <1>15, <3>1, <3>2, <3>3
  <2>3. CASE i2 - (Len(h) + 1) \in 1..Len(ext) /\ (i2 - (Len(h) + 1)) + (Len(h) + 1) = i2
    <3> DEFINE j == i2 - (Len(h) + 1)
    <3>1. j \in 1..Len(ext) /\ j + (Len(h) + 1) = i2
      BY <2>3
    <3> HIDE DEF j
    <3> QED
      BY <1>12, <1>15, <3>1
  <2> QED
    BY <1>13, <2>1, <2>2, <2>3
<1>16. Len(ext) >= 1
  BY <1>1, <1>2, TextLooks
<1>17. r[1] \notin {" ", "w"}
  <2>1. CASE Len(h) = 0
    BY <1>11, <2>1
  <2>2. CASE Len(h) # 0
    <3>1. 1 \in 1..Len(h) /\ s # <<>>
      BY <1>1, <1>2, <1>9, <2>2, TextLooks
    <3>2. s[1] \notin {" ", "w"}
      BY <3>1, Zenon DEF Clean, Trimmed
    <3> QED
      BY <1>10, <3>1, <3>2, Zenon
  <2> QED
    BY <2>1, <2>2, Zenon
<1>18. r[Len(r)] \notin {".", " "}
  <2>1. Len(ext) \in 1..Len(ext) /\ Len(r) = Len(ext) + (Len(h) + 1)
    BY <1>2, <1>5, <1>7, <1>16
  <2>2. r[Len(r)] = s[Len(s)]
    BY <1>9, <1>12, <2>1
  <2>3. s # <<>>
    BY <1>1, <1>2, <1>9, <1>16, TextLooks
  <2> QED
    BY <2>2, <2>3, Zenon DEF Clean, Trimmed
<1> QED
  BY <1>7, <1>8, <1>14, <1>15, <1>17, <1>18, Zenon DEF Clean, Flat, Trimmed

(* A name that is cut to fit is clean, as it was. *)
LEMMA CutIsClean ==
  ASSUME NameAssumptions, NEW s, Clean(s)
  PROVE  LET v == Naming!TruncateKeepingExtension(s)
         IN  /\ Clean(v) /\ Naming!Bytes(v) <= MaxComponentBytes
             /\ Naming!Bytes(s) <= MaxComponentBytes => v = s
<1> DEFINE max == MaxComponentBytes
           dot == IF Naming!Dots(s) = {} THEN 0 ELSE Naming!Max(Naming!Dots(s))
           ext == SubSeq(s, dot + 1, Len(s))
           head == Naming!Truncate(SubSeq(s, 1, dot - 1), max - Naming!Bytes(ext) - 1)
           kept == dot # 0 /\ ext # <<>> /\ Naming!Bytes(ext) < ExtensionBytes
           long == Append(Naming!TrimEnd(head, {"."}), ".") \o ext
           short == Naming!Trim(Naming!Truncate(s, max))
           v == Naming!TruncateKeepingExtension(s)
<1>1. s \in Texts /\ Len(s) \in Nat /\ max \in Nat
  BY TextLooks DEF Clean, NameAssumptions
<1>2. v = IF Naming!Bytes(s) <= max THEN s ELSE IF kept THEN long ELSE short
  BY DEF Naming!TruncateKeepingExtension
<1>3. Clean(short) /\ Naming!Bytes(short) <= max
  <2> DEFINE u == Naming!Truncate(s, max)
  <2>1. u \in Texts /\ PartOf(u, s, 0) /\ Naming!Bytes(u) <= max
    BY <1>1, CutFits
  <2> HIDE DEF u
  <2>2. Flat(u)
    BY <1>1, <2>1, PartIsFlat DEF Clean
  <2>3. short \in Texts /\ (\E k \in Nat : PartOf(short, u, k)) /\ Trimmed(short)
    <3>1. short = Naming!Trim(u)
      BY DEF u
    <3> QED
      BY <2>1, <3>1, BothTrimmed, Zenon
  <2> HIDE DEF short
  <2>4. PICK k \in Nat : PartOf(short, u, k)
    BY <2>3
  <2>5. Flat(short) /\ Naming!Bytes(short) <= Naming!Bytes(u)
    BY <2>1, <2>2, <2>4, PartIsFlat, BytesOfPart
  <2>6. Naming!Bytes(short) \in Nat /\ Naming!Bytes(u) \in Nat
    BY <2>1, <2>3, BytesLook
  <2> QED
    BY <1>1, <2>1, <2>3, <2>5, <2>6 DEF Clean
<1>4. ASSUME kept PROVE Clean(long) /\ Naming!Bytes(long) <= max
  <2>1. dot \in 1..Len(s) /\ \A i \in 1..Len(s) : s[i] = "." => i <= dot
    BY <1>1, <1>4, LastDot
  <2>2. ext # <<>> /\ Naming!Bytes(ext) < ExtensionBytes
    BY <1>4
  <2> HIDE DEF dot
  <2>3. dot \in Nat /\ dot \in 0..Len(s) /\ dot - 1 \in 0..Len(s)
    BY <1>1, <2>1
  <2>4. ext \in Texts /\ Len(ext) = Len(s) - dot /\ PartOf(ext, s, dot)
    BY <1>1, <2>3, TailIsPart
  <2> HIDE DEF ext
  <2>5. Naming!Bytes(ext) \in Nat
    BY <2>4, BytesLook
  <2>6. max - Naming!Bytes(ext) - 1 \in Nat
    BY <1>1, <2>2, <2>5 DEF NameAssumptions
  <2> DEFINE stem == SubSeq(s, 1, dot - 1)
  <2>7. stem \in Naming!Prefixes(s)
    BY <2>3 DEF Naming!Prefixes
  <2> HIDE DEF stem
  <2>8. stem \in Texts /\ PartOf(stem, s, 0)
    BY <1>1, <2>7, PrefixIsPart
  <2>9. /\ head \in Texts /\ PartOf(head, stem, 0)
        /\ Naming!Bytes(head) <= max - Naming!Bytes(ext) - 1
    <3>1. head = Naming!Truncate(stem, max - Naming!Bytes(ext) - 1)
      BY DEF stem
    <3> QED
      BY <2>6, <2>8, <3>1, CutFits
  <2> HIDE DEF head
  <2> DEFINE h == Naming!TrimEnd(head, {"."})
  <2>10. h \in Texts /\ PartOf(h, head, 0) /\ (h = <<>> \/ h[Len(h)] \notin {"."})
    BY <2>9, EndTrimmed
  <2>11. long = Append(h, ".") \o ext
    OBVIOUS
  <2> HIDE DEF h, long
  <2>12. PartOf(head, s, 0)
    BY <1>1, <2>8, <2>9, PartOfPart
  <2>13. PartOf(h, s, 0)
    BY <1>1, <2>10, <2>12, PartOfPart
  <2>14. Clean(long) /\ Naming!Bytes(long) <= Naming!Bytes(h) + 1 + Naming!Bytes(ext)
    <3>1. h = <<>> \/ h[Len(h)] # "."
      BY <2>10
    <3> QED
      BY <2>1, <2>2, <2>4, <2>11, <2>13, <3>1, ExtensionKept
  <2>15. Naming!Bytes(h) <= Naming!Bytes(head)
    BY <2>9, <2>10, BytesOfPart
  <2>16. Naming!Bytes(h) \in Nat /\ Naming!Bytes(head) \in Nat /\ Naming!Bytes(long) \in Nat
    BY <2>9, <2>10, <2>14, BytesLook DEF Clean
  <2>17. Naming!Bytes(long) <= max
    BY <1>1, <2>5, <2>9, <2>14, <2>15, <2>16
  <2> QED
    BY <2>14, <2>17
<1> HIDE DEF kept, long, short, v, max
<1>5. Clean(v) /\ Naming!Bytes(v) <= max /\ (Naming!Bytes(s) <= max => v = s)
  BY <1>2, <1>3, <1>4
<1> QED
  BY <1>5 DEF v, max

(* No device's name starts with "_". *)
LEMMA EscapedIsFree ==
  ASSUME NEW s \in Texts, s # <<>>, s[1] = "_" PROVE ~Naming!Reserved(s)
<1> DEFINE stem == IF Naming!Dots(s) = {} THEN s ELSE SubSeq(s, 1, Naming!Min(Naming!Dots(s)) - 1)
           t == Naming!TrimEnd(stem, {" "})
<1>1. Len(s) \in Nat
  BY TextLooks, Zenon
<1>2. stem \in Texts /\ PartOf(stem, s, 0)
  <2>1. CASE Naming!Dots(s) = {}
    BY <2>1, SelfIsPrefix, PrefixIsPart, Zenon
  <2>2. CASE Naming!Dots(s) # {}
    <3> DEFINE d == Naming!Min(Naming!Dots(s))
    <3>1. d \in 1..Len(s)
      BY <2>2, FirstDot, Zenon
    <3> HIDE DEF d
    <3>2. d - 1 \in 0..Len(s)
      BY ONLY <1>1, <3>1
    <3>3. SubSeq(s, 1, d - 1) \in Naming!Prefixes(s)
      BY <3>2, Zenon DEF Naming!Prefixes
    <3>4. stem = SubSeq(s, 1, d - 1)
      BY <2>2, Zenon DEF d
    <3> QED
      BY <3>3, <3>4, PrefixIsPart, Zenon
  <2> QED
    BY <2>1, <2>2, Zenon
<1> HIDE DEF stem
<1>3. t \in Texts /\ PartOf(t, stem, 0)
  BY <1>2, EndTrimmed, Zenon
<1>4. Naming!Reserved(s) <=> t = <<"D">>
  BY Zenon DEF Naming!Reserved, stem
<1> HIDE DEF t
<1>5. PartOf(t, s, 0)
  BY <1>2, <1>3, PartOfPart, Zenon
<1>6. SUFFICES ASSUME t = <<"D">> PROVE FALSE
  BY <1>4, Zenon
<1>7. Len(t) = 1 /\ t[1] = "D"
  BY <1>6, Zenon
<1>8. 1 \in 1..Len(t) /\ 1 + 0 = 1
  BY ONLY <1>7
<1>9. \A i \in 1..Len(t) : t[i] = s[i + 0]
  BY <1>5, Zenon DEF PartOf
<1>10. t[1] = s[1 + 0]
  BY <1>8, <1>9, Zenon
<1> QED
  BY ONLY s[1] = "_", <1>7, <1>8, <1>10, Zenon

-----------------------------------------------------------------------------
(* Names: the dots that are joined, character by character.                 *)

(* The numbers up to n, by induction without an induction rule. *)
LEMMA AllUpTo ==
  ASSUME NEW n \in Nat, NEW T, 0 \in T, \A k \in 0..(n - 1) : k \in T => k + 1 \in T
  PROVE  \A k \in 0..n : k \in T
<1> DEFINE U == {k \in Nat : k <= n /\ k \notin T}
<1>1. SUFFICES ASSUME U # {} PROVE FALSE
  OBVIOUS
<1>2. U \in SUBSET Nat
  OBVIOUS
<1>3. PICK m \in U : \A k \in U : m <= k
  BY <1>1, <1>2, LeastNatural
<1>4. m \in Nat /\ m <= n /\ m \notin T /\ m # 0
  OBVIOUS
<1>5. m - 1 \in Nat /\ m - 1 <= n /\ ~(m <= m - 1) /\ m - 1 \in 0..(n - 1) /\ (m - 1) + 1 = m
  BY <1>4
<1>6. m - 1 \in T
  BY <1>3, <1>5
<1> QED
  BY <1>4, <1>5, <1>6

(* What the characters of s at the places of a set S are joined to. *)
JoinStep(s, t, S) ==
  IF S = {} THEN <<>> ELSE Naming!Joined(t[S \ {Naming!Max(S)}], s[Naming!Max(S)])
Joins(s, S) == CHOOSE t : t = [u \in SUBSET S |-> JoinStep(s, t, u)]

LEMMA DotsAreJoined ==
  ASSUME NEW s \in Texts
  PROVE  Naming!WithoutDotDot(s) = Joins(s, DOMAIN s)[DOMAIN s]
BY DEF Naming!WithoutDotDot, Naming!FoldLeft, Naming!MapThenFoldSet, Joins, JoinStep

LEMMA GreatestIsRemoved ==
  ASSUME NEW n \in Nat, NEW u \in SUBSET (1..n), u # {}
  PROVE  /\ Naming!Max(u) \in u /\ u \ {Naming!Max(u)} \in SUBSET (1..n)
         /\ IsFiniteSet(u) /\ Cardinality(u) \in Nat
         /\ Cardinality(u \ {Naming!Max(u)}) = Cardinality(u) - 1
<1>1. u \in SUBSET Nat /\ \A i \in u : i <= n
  OBVIOUS
<1>2. \E m \in u : \A i \in u : i <= m
  BY <1>1, GreatestNumber
<1>3. \E m \in u : \A i \in u : m >= i
  BY <1>1, <1>2
<1>4. Naming!Max(u) \in u
  BY <1>3 DEF Naming!Max
<1>5. IsFiniteSet(u) /\ Cardinality(u) \in Nat
  <2>1. IsFiniteSet(1..n)
    BY FS_Interval
  <2> QED
    BY <2>1, FS_Subset, FS_CardinalityType
<1> QED
  BY <1>4, <1>5, FS_RemoveElement

LEMMA JoinsExist ==
  ASSUME NEW s, NEW k \in Nat
  PROVE  \A u \in SUBSET (1..k) : Joins(s, 1..k)[u] = JoinStep(s, Joins(s, 1..k), u)
<1> DEFINE S == 1..k
           Upto(n) == {u \in SUBSET S : Cardinality(u) <= n}
           Defined(n) == \E t : t = [u \in Upto(n) |-> JoinStep(s, t, u)]
           T == {n \in Nat : Defined(n)}
<1>1. IsFiniteSet(S)
  BY FS_Interval
<1>2. \A u \in SUBSET S : IsFiniteSet(u) /\ Cardinality(u) \in Nat
  BY <1>1, FS_Subset, FS_CardinalityType
<1>3. \A u \in SUBSET S : u # {} =>
         /\ u \ {Naming!Max(u)} \in SUBSET S
         /\ Cardinality(u \ {Naming!Max(u)}) = Cardinality(u) - 1
  BY GreatestIsRemoved
<1> HIDE DEF S
<1>4. 0 \in T
  <2>1. \A u \in Upto(0) : u = {}
    BY <1>2, FS_EmptySet
  <2>2. [u \in Upto(0) |-> <<>>] = [u \in Upto(0) |-> JoinStep(s, [t \in Upto(0) |-> <<>>], u)]
    BY <2>1 DEF JoinStep
  <2> QED
    BY <2>2
<1>5. ASSUME NEW n \in Nat, n \in T PROVE n + 1 \in T
  <2>1. PICK t : t = [u \in Upto(n) |-> JoinStep(s, t, u)]
    BY <1>5
  <2> DEFINE g == [u \in Upto(n + 1) |-> JoinStep(s, t, u)]
  <2>2. \A u \in Upto(n) : u \in Upto(n + 1) /\ g[u] = t[u]
    <3>1. \A u \in Upto(n) : t[u] = JoinStep(s, t, u)
      BY <2>1
    <3>2. \A u \in Upto(n) : u \in Upto(n + 1)
      BY <1>2
    <3> QED
      BY <3>1, <3>2
  <2>3. \A u \in Upto(n + 1) : u # {} => u \ {Naming!Max(u)} \in Upto(n)
    BY <1>2, <1>3
  <2>4. \A u \in Upto(n + 1) : JoinStep(s, t, u) = JoinStep(s, g, u)
    BY <2>2, <2>3 DEF JoinStep
  <2>5. g = [u \in Upto(n + 1) |-> JoinStep(s, g, u)]
    BY <2>4
  <2>6. Defined(n + 1)
    <3> HIDE DEF g
    <3> QED
      BY <2>5
  <2> HIDE DEF Defined
  <2> QED
    BY <2>6
<1>6. Cardinality(S) \in Nat /\ Upto(Cardinality(S)) = SUBSET S
  BY <1>1, <1>2, FS_Subset
<1>7. Cardinality(S) \in T
  <2> HIDE DEF T
  <2>1. \A n \in 0..(Cardinality(S) - 1) : n \in T => n + 1 \in T
    BY <1>5, <1>6
  <2>2. \A n \in 0..Cardinality(S) : n \in T
    BY <1>4, <1>6, <2>1, AllUpTo
  <2> QED
    BY <1>6, <2>2
<1>8. \E t : t = [u \in SUBSET S |-> JoinStep(s, t, u)]
  BY <1>6, <1>7
<1> DEFINE t == Joins(s, S)
<1>9. t = [u \in SUBSET S |-> JoinStep(s, t, u)]
  BY <1>8 DEF Joins
<1> HIDE DEF t
<1>10. \A u \in SUBSET S : t[u] = JoinStep(s, t, u)
  BY <1>9
<1> QED
  BY <1>10 DEF t, S

(* What the first k characters of s are joined to. *)
JoinedUpTo(s, k) == Joins(s, 1..Len(s))[1..k]

LEMMA JoinedOneByOne ==
  ASSUME NEW s \in Texts
  PROVE  /\ JoinedUpTo(s, 0) = <<>>
         /\ \A k \in 0..(Len(s) - 1) :
              JoinedUpTo(s, k + 1) = Naming!Joined(JoinedUpTo(s, k), s[k + 1])
         /\ Naming!WithoutDotDot(s) = JoinedUpTo(s, Len(s))
<1>1. Len(s) \in Nat /\ DOMAIN s = 1..Len(s)
  BY TextLooks
<1> DEFINE t == Joins(s, 1..Len(s))
<1>2. \A u \in SUBSET (1..Len(s)) : t[u] = JoinStep(s, t, u)
  BY <1>1, JoinsExist
<1>3. Naming!WithoutDotDot(s) = t[1..Len(s)]
  BY <1>1, DotsAreJoined
<1> HIDE DEF t
<1>4. 1..0 = {} /\ {} \in SUBSET (1..Len(s))
  OBVIOUS
<1>5. t[1..0] = <<>>
  BY <1>2, <1>4 DEF JoinStep
<1>6. ASSUME NEW k \in 0..(Len(s) - 1)
      PROVE  t[1..(k + 1)] = Naming!Joined(t[1..k], s[k + 1])
  <2> DEFINE u == 1..(k + 1)
  <2>1. k \in Nat /\ k + 1 <= Len(s)
    BY <1>1
  <2>2. u \in SUBSET (1..Len(s)) /\ u # {}
    BY <1>1, <2>1
  <2>3. Naming!Max(u) = k + 1
    <3>1. k + 1 \in u /\ \A i \in u : k + 1 >= i
      BY <2>1
    <3>2. \A m \in u : (\A i \in u : m >= i) => m = k + 1
      BY <2>1, <3>1
    <3> QED
      BY <3>1, <3>2 DEF Naming!Max
  <2>4. u \ {k + 1} = 1..k
    BY <2>1
  <2>5. t[u] = JoinStep(s, t, u)
    BY <1>2, <2>2
  <2> HIDE DEF u
  <2>6. t[u] = Naming!Joined(t[1..k], s[k + 1])
    BY <2>2, <2>3, <2>4, <2>5 DEF JoinStep
  <2> QED
    BY <2>6 DEF u
<1> QED
  BY <1>3, <1>5, <1>6 DEF JoinedUpTo, t

NoClimbing(s) ==
  \A i \in 1..Len(s) : \A j \in 1..Len(s) : j = i + 1 => ~(s[i] = "." /\ s[j] = ".")

(* A character that is joined: a second dot makes one "_" of both. *)
LEMMA JoinedLooks ==
  ASSUME NEW s \in Texts, NEW c \in Alphabet, NoClimbing(s)
  PROVE  Naming!Joined(s, c) \in Texts /\ NoClimbing(Naming!Joined(s, c))
<1>1. Len(s) \in Nat
  BY TextLooks
<1>2. CASE c = "." /\ s # <<>> /\ s[Len(s)] = "."
  <2> DEFINE t == [s EXCEPT ![Len(s)] = "_"]
  <2>1. Len(s) # 0 /\ Len(s) \in 1..Len(s)
    BY <1>1, <1>2, TextLooks
  <2>2. t = [i \in 1..Len(s) |-> IF i = Len(s) THEN "_" ELSE s[i]]
    BY <2>1, TextLooks
  <2>3. \A i \in 1..Len(s) : (IF i = Len(s) THEN "_" ELSE s[i]) \in Alphabet
    BY TextLooks DEF Alphabet
  <2>4. t \in Texts /\ Len(t) = Len(s)
    <3>1. t \in [1..Len(s) -> Alphabet]
      BY <2>2, <2>3
    <3> HIDE DEF t
    <3> QED
      BY <1>1, <3>1, TableIsText
  <2>5. \A i \in 1..Len(s) : t[i] = IF i = Len(s) THEN "_" ELSE s[i]
    BY <2>2
  <2> HIDE DEF t
  <2>6. \A i \in 1..Len(s) : t[i] = "." => s[i] = "."
    BY <2>5
  <2>7. NoClimbing(t)
    BY <2>4, <2>6 DEF NoClimbing
  <2>8. Naming!Joined(s, c) = t
    BY <1>2 DEF Naming!Joined, t
  <2> QED
    BY <2>4, <2>7, <2>8
<1>3. CASE ~(c = "." /\ s # <<>> /\ s[Len(s)] = ".")
  <2> DEFINE t == Append(s, c)
  <2>1. t \in Texts /\ Len(t) = Len(s) + 1
    BY DEF Texts
  <2>2. \A i \in 1..Len(s) : t[i] = s[i]
    BY DEF Texts
  <2>3. t[Len(s) + 1] = c
    BY DEF Texts
  <2> HIDE DEF t
  <2>4. ASSUME NEW i \in 1..Len(t), NEW j \in 1..Len(t), j = i + 1, t[i] = ".", t[j] = "."
        PROVE  FALSE
    <3>1. CASE j = Len(s) + 1
      <4>1. i = Len(s) /\ i \in 1..Len(s)
        BY <1>1, <2>1, <2>4, <3>1
      <4>2. c = "." /\ s[Len(s)] = "."
        BY <2>2, <2>3, <2>4, <3>1, <4>1
      <4>3. s # <<>>
        BY <4>1, TextLooks
      <4> QED
        BY <1>3, <4>2, <4>3
    <3>2. CASE j # Len(s) + 1
      <4>1. i \in 1..Len(s) /\ j \in 1..Len(s)
        BY <1>1, <2>1, <2>4, <3>2
      <4>2. s[i] = "." /\ s[j] = "."
        BY <2>2, <2>4, <4>1
      <4> QED
        BY <2>4, <4>1, <4>2 DEF NoClimbing
    <3> QED
      BY <3>1, <3>2
  <2>5. NoClimbing(t)
    BY <2>4 DEF NoClimbing
  <2>6. Naming!Joined(s, c) = t
    BY <1>3 DEF Naming!Joined, t
  <2> QED
    BY <2>1, <2>5, <2>6
<1> QED
  BY <1>2, <1>3

LEMMA NothingClimbs ==
  ASSUME NEW s \in Texts
  PROVE  /\ Naming!WithoutDotDot(s) \in Texts
         /\ NoClimbing(Naming!WithoutDotDot(s))
<1> DEFINE F(k) == JoinedUpTo(s, k)
           T == {k \in 0..Len(s) : F(k) \in Texts /\ NoClimbing(F(k))}
<1>1. Len(s) \in Nat
  BY TextLooks
<1>2. /\ F(0) = <<>> /\ Naming!WithoutDotDot(s) = F(Len(s))
      /\ \A k \in 0..(Len(s) - 1) : F(k + 1) = Naming!Joined(F(k), s[k + 1])
  BY JoinedOneByOne
<1> HIDE DEF F
<1>3. 0 \in T
  <2>1. <<>> \in Texts /\ Len(<<>>) = 0
    BY NoBytes
  <2>2. NoClimbing(<<>>)
    BY <2>1 DEF NoClimbing
  <2> QED
    BY <1>1, <1>2, <2>1, <2>2
<1>4. \A k \in 0..(Len(s) - 1) : k \in T => k + 1 \in T
  <2> SUFFICES ASSUME NEW k \in 0..(Len(s) - 1), k \in T PROVE k + 1 \in T
    OBVIOUS
  <2>1. k + 1 \in 1..Len(s) /\ k + 1 \in 0..Len(s)
    BY <1>1
  <2>2. s[k + 1] \in Alphabet
    BY <2>1, TextLooks
  <2>3. F(k) \in Texts /\ NoClimbing(F(k))
    OBVIOUS
  <2>4. F(k + 1) = Naming!Joined(F(k), s[k + 1])
    BY <1>2
  <2>5. F(k + 1) \in Texts /\ NoClimbing(F(k + 1))
    BY <2>2, <2>3, <2>4, JoinedLooks
  <2> QED
    BY <2>1, <2>5
<1>5. Len(s) \in T
  <2> HIDE DEF T
  <2>1. \A k \in 0..Len(s) : k \in T
    BY <1>1, <1>3, <1>4, AllUpTo
  <2> QED
    BY <1>1, <2>1
<1> QED
  BY <1>2, <1>5

LEMMA NothingToJoin ==
  ASSUME NEW s \in Texts, NoClimbing(s) PROVE Naming!WithoutDotDot(s) = s
<1> DEFINE F(k) == JoinedUpTo(s, k)
           T == {k \in 0..Len(s) : F(k) = SubSeq(s, 1, k)}
<1>1. Len(s) \in Nat
  BY TextLooks
<1>2. /\ F(0) = <<>> /\ Naming!WithoutDotDot(s) = F(Len(s))
      /\ \A k \in 0..(Len(s) - 1) : F(k + 1) = Naming!Joined(F(k), s[k + 1])
  BY JoinedOneByOne
<1> HIDE DEF F
<1>3. 0 \in T
  <2>1. SubSeq(s, 1, 0) = <<>>
    BY DEF Texts
  <2>2. F(0) = SubSeq(s, 1, 0)
    BY <1>2, <2>1
  <2>3. 0 \in 0..Len(s)
    BY <1>1
  <2> QED
    BY ONLY <2>2, <2>3
<1>4. \A k \in 0..(Len(s) - 1) : k \in T => k + 1 \in T
  <2> SUFFICES ASSUME NEW k \in 0..(Len(s) - 1), k \in T PROVE k + 1 \in T
    OBVIOUS
  <2>1. k \in Nat /\ k + 1 \in 1..Len(s) /\ k + 1 \in 0..Len(s) /\ k \in 0..Len(s)
    BY <1>1
  <2> DEFINE t == SubSeq(s, 1, k)
  <2>2. F(k + 1) = Naming!Joined(t, s[k + 1])
    BY <1>2
  <2>3. t \in Texts /\ Len(t) = k /\ \A i \in 1..k : t[i] = s[i]
    BY <2>1 DEF Texts
  <2> HIDE DEF t
  <2>4. ~(s[k + 1] = "." /\ t # <<>> /\ t[Len(t)] = ".")
    <3> SUFFICES ASSUME s[k + 1] = ".", t # <<>>, t[Len(t)] = "." PROVE FALSE
      OBVIOUS
    <3>1. k # 0
      BY <2>3, TextLooks
    <3>2. k \in 1..k /\ k \in 1..Len(s)
      BY <1>1, <2>1, <3>1
    <3>3. s[k] = "."
      BY <2>3, <3>2
    <3> QED
      BY <2>1, <3>2, <3>3 DEF NoClimbing
  <2>5. F(k + 1) = Append(t, s[k + 1])
    BY <2>2, <2>4 DEF Naming!Joined
  <2>6. Append(t, s[k + 1]) = SubSeq(s, 1, k + 1)
    BY <2>1 DEF Texts, t
  <2> QED
    BY <2>1, <2>5, <2>6
<1>5. Len(s) \in T
  <2> HIDE DEF T
  <2>1. \A k \in 0..Len(s) : k \in T
    BY <1>1, <1>3, <1>4, AllUpTo
  <2> QED
    BY <1>1, <2>1
<1>6. SubSeq(s, 1, Len(s)) = s
  BY DEF Texts
<1> QED
  BY <1>2, <1>5, <1>6

(* What is not allowed becomes "_", and nothing else changes. *)
LEMMA MappedLooks ==
  ASSUME NEW s \in Texts, NoClimbing(s)
  PROVE  /\ Naming!Mapped(s) \in Texts /\ Flat(Naming!Mapped(s))
         /\ (\A i \in 1..Len(s) : s[i] # "/") => Naming!Mapped(s) = s
<1> DEFINE v == [i \in 1..Len(s) |-> IF s[i] = "/" THEN "_" ELSE s[i]]
<1>1. Len(s) \in Nat /\ DOMAIN s = 1..Len(s)
  BY TextLooks
<1>2. Naming!Mapped(s) = v
  BY <1>1 DEF Naming!Mapped
<1>3. \A i \in 1..Len(s) : (IF s[i] = "/" THEN "_" ELSE s[i]) \in Alphabet
  BY TextLooks DEF Alphabet
<1>4. v \in [1..Len(s) -> Alphabet]
  BY <1>3
<1>5. \A i \in 1..Len(s) : v[i] = IF s[i] = "/" THEN "_" ELSE s[i]
  OBVIOUS
<1> HIDE DEF v
<1>6. v \in Texts /\ Len(v) = Len(s)
  BY <1>1, <1>4, TableIsText
<1>7. Flat(v)
  <2>1. \A i \in 1..Len(s) : v[i] # "/" /\ (v[i] = "." => s[i] = ".")
    BY <1>5
  <2> QED
    BY <1>6, <2>1 DEF Flat, NoClimbing
<1>8. ASSUME \A i \in 1..Len(s) : s[i] # "/" PROVE v = s
  <2>1. \A i \in 1..Len(s) : v[i] = s[i]
    BY <1>5, <1>8
  <2> QED
    BY <1>6, <2>1, SameText
<1> QED
  BY <1>2, <1>6, <1>7, <1>8

-----------------------------------------------------------------------------
(* Names: what sanitizing ends with, it does not change.                    *)

Final(s) ==
  /\ Clean(s) /\ s # <<>>
  /\ Naming!Bytes(s) <= MaxComponentBytes
  /\ ~Naming!Reserved(s)

LEMMA FinalIsValid == ASSUME NameAssumptions, NEW s, Final(s) PROVE Naming!ValidLeaf(s)
<1>1. Clean(s) /\ s \in Texts /\ Flat(s) /\ Trimmed(s)
  BY DEF Final, Clean
<1>2. Naming!WithoutDotDot(s) = s
  BY <1>1, NothingToJoin DEF Flat, NoClimbing
<1>3. Naming!Mapped(s) = s
  BY <1>1, MappedLooks DEF Flat, NoClimbing
<1>4. Naming!Trim(s) = s
  BY <1>1, BothTrimmed
<1>5. Naming!TruncateKeepingExtension(s) = s
  BY <1>1, CutIsClean DEF Final
<1>6. Naming!Sanitize(s) = s
  BY <1>2, <1>3, <1>4, <1>5 DEF Naming!Sanitize, Final
<1>7. Naming!ValidComponent(s)
  BY <1>1, TextLooks DEF Naming!ValidComponent, Final, Flat, Trimmed
<1> QED
  BY <1>6, <1>7 DEF Naming!ValidLeaf, Final

LEMMA FallbackIsFinal == ASSUME NameAssumptions PROVE Final(Naming!Fallback)
<1> DEFINE s == <<"a">>
<1>1. s \in Texts /\ Naming!Bytes(s) = 1
  <2>1. "a" \in Alphabet
    BY DEF Alphabet, Naming!Characters
  <2> QED
    BY <2>1, OneByte
<1>2. Len(s) = 1 /\ s[1] = "a" /\ s # <<>>
  OBVIOUS
<1>3. Naming!Fallback = s
  BY DEF Naming!Fallback
<1>4. s # <<"D">>
  OBVIOUS
<1> HIDE DEF s
<1>5. Clean(s)
  BY <1>1, <1>2 DEF Clean, Flat, Trimmed
<1>6. Naming!Dots(s) = {}
  BY <1>1, <1>2, TextLooks DEF Naming!Dots
<1>7. Naming!TrimEnd(s, {" "}) = s
  <2>1. s = <<>> \/ s[Len(s)] \notin {" "}
    BY <1>2
  <2> QED
    BY <1>1, <2>1, EndTrimmed
<1>8. ~Naming!Reserved(s)
  BY <1>4, <1>6, <1>7 DEF Naming!Reserved
<1> QED
  BY <1>1, <1>2, <1>3, <1>5, <1>8 DEF Final, NameAssumptions

(* A device's name is escaped, cut and trimmed, and stays escaped. *)
LEMMA EscapedIsFinal ==
  ASSUME NameAssumptions, NEW s, Clean(s)
  PROVE  Final(Naming!Trim(Naming!Truncate(<<"_">> \o s, MaxComponentBytes)))
<1> DEFINE e == <<"_">> \o s
           u == Naming!Truncate(e, MaxComponentBytes)
           v == Naming!Trim(u)
<1>1. s \in Texts /\ Len(s) \in Nat
  BY TextLooks DEF Clean
<1>2. <<"_">> \in Texts /\ Naming!Bytes(<<"_">>) = 1
  <2>1. "_" \in Alphabet
    BY DEF Alphabet
  <2> QED
    BY <2>1, OneByte
<1>3. Len(<<"_">>) = 1 /\ <<"_">>[1] = "_"
  OBVIOUS
<1>4. /\ e \in Texts /\ Len(e) = 1 + Len(s)
      /\ e[1] = "_"
      /\ \A i \in 1..Len(s) : e[i + 1] = s[i]
  <2>1. 1 \in 1..Len(<<"_">>)
    BY <1>3
  <2> QED
    BY <1>1, <1>2, <1>3, <2>1, BytesTogether
<1> HIDE DEF e
<1>5. Flat(e)
  <2>0. Len(s) \in Nat /\ Len(e) = 1 + Len(s)
    BY <1>1, <1>4
  <2>1. \A i \in 1..Len(e) : i = 1 \/ (i - 1 \in 1..Len(s) /\ (i - 1) + 1 = i)
    BY ONLY <2>0
  <2>2. \A i \in 1..Len(e) : i = 1 \/ (i - 1 \in 1..Len(s) /\ e[i] = s[i - 1])
    BY <1>4, <2>1
  <2>3. \A i \in 1..Len(e) : e[i] # "/"
    BY <1>4, <2>2 DEF Clean, Flat
  <2>4. ASSUME NEW i \in 1..Len(e), NEW j \in 1..Len(e), j = i + 1, e[i] = ".", e[j] = "."
        PROVE  FALSE
    <3>1. i # 1 /\ j # 1
      BY <1>4, <2>4
    <3>2. i - 1 \in 1..Len(s) /\ s[i - 1] = "." /\ j - 1 \in 1..Len(s) /\ s[j - 1] = "."
      BY <2>2, <2>4, <3>1
    <3>3. j - 1 = (i - 1) + 1
      <4>1. i \in Nat /\ j = i + 1
        BY ONLY <2>0, <2>4
      <4> QED
        BY ONLY <4>1
    <3> QED
      BY <3>2, <3>3 DEF Clean, Flat
  <2> QED
    BY <2>3, <2>4 DEF Flat
<1>6. e # <<>> /\ <<e[1]>> = <<"_">>
  <2>1. Len(s) \in Nat /\ Len(e) = 1 + Len(s)
    BY <1>1, <1>4
  <2>2. Len(e) # 0
    BY ONLY <2>1
  <2>3. e # <<>>
    BY <1>4, <2>2, TextLooks
  <2> QED
    BY <1>4, <2>3
<1>7. /\ u \in Texts /\ PartOf(u, e, 0)
      /\ Naming!Bytes(u) <= MaxComponentBytes
      /\ u # <<>>
  <2>0. MaxComponentBytes \in Nat /\ 1 <= MaxComponentBytes
    BY ONLY NameAssumptions DEF NameAssumptions
  <2>1. MaxComponentBytes \in Nat /\ Naming!Bytes(<<e[1]>>) <= MaxComponentBytes
    BY <1>2, <1>6, <2>0
  <2> QED
    BY <1>4, <1>6, <2>1, CutFits
<1> HIDE DEF u
<1>8. Flat(u)
  BY <1>4, <1>5, <1>7, PartIsFlat
<1>9. u[1] = "_"
  <2>1. Len(u) \in Nat /\ Len(u) # 0
    BY <1>7, TextLooks
  <2>2. 1 \in 1..Len(u) /\ 1 + 0 = 1
    BY ONLY <2>1
  <2>3. \A i \in 1..Len(u) : u[i] = e[i + 0]
    BY <1>7 DEF PartOf
  <2>4. u[1] = e[1 + 0]
    BY <2>2, <2>3
  <2> QED
    BY <1>4, <2>2, <2>4
<1>10. /\ v \in Texts /\ (\E k \in Nat : PartOf(v, u, k)) /\ Trimmed(v)
       /\ v # <<>> /\ v[1] = "_"
  BY <1>7, <1>9, BothTrimmed
<1> HIDE DEF v
<1>11. PICK k \in Nat : PartOf(v, u, k)
  BY <1>10
<1>12. Flat(v) /\ Naming!Bytes(v) <= Naming!Bytes(u)
  BY <1>7, <1>8, <1>11, PartIsFlat, BytesOfPart
<1>13. Naming!Bytes(v) \in Nat /\ Naming!Bytes(u) \in Nat
  BY <1>7, <1>10, BytesLook
<1>14. Naming!Bytes(v) <= MaxComponentBytes
  BY <1>7, <1>12, <1>13 DEF NameAssumptions
<1>15. ~Naming!Reserved(v)
  BY <1>10, EscapedIsFree
<1>16. Final(v)
  BY <1>10, <1>12, <1>14, <1>15 DEF Final, Clean
<1> QED
  BY <1>16 DEF v, u, e

LEMMA SanitizedIsFinal ==
  ASSUME NameAssumptions, NEW s \in Texts PROVE Final(Naming!Sanitize(s))
<1> DEFINE w == Naming!WithoutDotDot(s)
           m == Naming!Mapped(w)
           c == Naming!Trim(m)
           short == Naming!TruncateKeepingExtension(c)
<1>1. w \in Texts /\ NoClimbing(w)
  BY NothingClimbs
<1> HIDE DEF w
<1>2. m \in Texts /\ Flat(m)
  BY <1>1, MappedLooks
<1> HIDE DEF m
<1>3. c \in Texts /\ (\E k \in Nat : PartOf(c, m, k)) /\ Trimmed(c)
  BY <1>2, BothTrimmed
<1> HIDE DEF c
<1>4. Clean(c)
  <2>1. PICK k \in Nat : PartOf(c, m, k)
    BY <1>3
  <2> QED
    BY <1>2, <1>3, <2>1, PartIsFlat DEF Clean
<1>5. Clean(short) /\ Naming!Bytes(short) <= MaxComponentBytes
  BY <1>4, CutIsClean
<1> HIDE DEF short
<1>6. Naming!Sanitize(s) =
        IF short = <<>> THEN Naming!Fallback
        ELSE IF Naming!Reserved(short)
             THEN Naming!Trim(Naming!Truncate(<<"_">> \o short, MaxComponentBytes))
        ELSE short
  BY DEF Naming!Sanitize, short, c, m, w
<1>7. CASE short = <<>>
  BY <1>6, <1>7, FallbackIsFinal
<1>8. CASE short # <<>> /\ Naming!Reserved(short)
  BY <1>5, <1>6, <1>8, EscapedIsFinal
<1>9. CASE short # <<>> /\ ~Naming!Reserved(short)
  BY <1>5, <1>6, <1>9 DEF Final
<1> QED
  BY <1>7, <1>8, <1>9

-----------------------------------------------------------------------------
(***************************************************************************)
(* The parts together.  A step moves one part and leaves the variables of  *)
(* the others alone, so that what a part promises of its own behaviours    *)
(* holds of all of them together.                                          *)
(***************************************************************************)
allVars == <<part, payloadVars, sessionVars, httpVars, setVars, vars, ownerVars, nameVars>>

LEMMA RemovalRuns == MCSpec => Spec
<1>1. MCInit => Init
  BY DEF MCInit
<1>2. [MCNext]_allVars => [Next]_vars
  BY DEF MCNext, allVars
<1>. QED
  BY <1>1, <1>2, PTL DEF MCSpec, Spec, allVars

LEMMA PublishedRuns == MCSpec => Published!Spec
<1>1. MCInit => Published!Init
  BY DEF MCInit
<1>2. [MCNext]_allVars => [Published!Next]_Published!vars
  BY DEF MCNext, allVars, payloadVars, Published!vars, Published!fileVars, Published!fixedVars,
         Published!boundVars
<1>. QED
  BY <1>1, <1>2, PTL DEF MCSpec, Published!Spec, allVars

LEMMA SessionRuns == MCSpec => Session!Init /\ [][Session!Next]_Session!vars
<1>1. MCInit => Session!Init
  BY DEF MCInit
<1>2. [MCNext]_allVars => [Session!Next]_Session!vars
  BY DEF MCNext, allVars, sessionVars, Session!vars, Session!boundVars
<1>. QED
  BY <1>1, <1>2, PTL DEF MCSpec, allVars

LEMMA HttpRuns == MCSpec => Http!Spec
<1>1. MCInit => Http!Init
  BY DEF MCInit
<1>2. [MCNext]_allVars => [Http!Next]_Http!vars
  BY DEF MCNext, allVars, httpVars, Http!vars, Http!stagingVars, Http!outVars, Http!fixedVars,
         Http!boundVars
<1>. QED
  BY <1>1, <1>2, PTL DEF MCSpec, Http!Spec, allVars

LEMMA SetRuns == MCSpec => Sets!Spec
<1>1. MCInit => Sets!Init
  BY DEF MCInit
<1>2. [MCNext]_allVars => [Sets!Next]_Sets!vars
  BY DEF MCNext, allVars, setVars, Sets!vars, Sets!jobVars, Sets!diskVars, Sets!limitVars
<1>. QED
  BY <1>1, <1>2, PTL DEF MCSpec, Sets!Spec, allVars

LEMMA PathsRun == MCSpec => Paths!Spec
<1>1. MCInit => Paths!Init
  BY DEF MCInit
<1>2. [MCNext]_allVars => [Paths!Next]_Paths!vars
  BY DEF MCNext, allVars, ownerVars, Paths!vars
<1>. QED
  BY <1>1, <1>2, PTL DEF MCSpec, Paths!Spec, allVars

NamingInv == rawName \in Texts /\ NamesAreStable

LEMMA NamesRun == MCSpec => /\ MCInit
                            /\ [][Naming!Next]_Naming!vars
<1>1. [MCNext]_allVars => [Naming!Next]_Naming!vars
  BY DEF MCNext, allVars, nameVars, Naming!vars
<1>. QED
  BY <1>1, PTL DEF MCSpec, allVars

LEMMA NamesStart == ASSUME NameAssumptions, MCInit PROVE NamingInv
<1>1. safeName = <<>> /\ (rawName = <<>> \/ rawName \in Naming!Given)
  BY DEF MCInit, Naming!Init
<1>2. rawName \in Texts
  <2>1. CASE rawName = <<>>
    BY <2>1, NoBytes
  <2>2. CASE rawName \in Naming!Given
    <3>1. PICK n \in 0..MaxLength : rawName \in [1..n -> Naming!Characters]
      BY <2>2 DEF Naming!Given
    <3>2. n \in Nat
      BY DEF NameAssumptions
    <3>3. rawName \in [1..n -> Alphabet]
      BY <3>1 DEF Alphabet
    <3> QED
      BY <3>2, <3>3, TableIsText
  <2> QED
    BY <1>1, <2>1, <2>2
<1> QED
  BY <1>1, <1>2 DEF NamingInv, NamesAreStable, Naming!NamesAreStable

LEMMA NamesStep ==
  ASSUME NameAssumptions, NamingInv, [Naming!Next]_Naming!vars PROVE NamingInv'
<1>1. CASE Naming!Next
  <2>1. safeName' = Naming!Sanitize(rawName) /\ rawName' = rawName
    BY <1>1 DEF Naming!Next
  <2>2. Naming!ValidLeaf(Naming!Sanitize(rawName))
    BY SanitizedIsFinal, FinalIsValid DEF NamingInv
  <2>3. Naming!ValidLeaf(safeName')
    BY <2>1, <2>2
  <2> QED
    BY <2>1, <2>3 DEF NamingInv, NamesAreStable, Naming!NamesAreStable
<1>2. CASE UNCHANGED Naming!vars
  BY <1>2 DEF Naming!vars, NamingInv, NamesAreStable, Naming!NamesAreStable
<1> QED
  BY <1>1, <1>2

-----------------------------------------------------------------------------
(***************************************************************************)
(* Whatever fails and whenever the process is killed, a file in a          *)
(* quarantine is named by a journal, which the next start goes by.         *)
(***************************************************************************)
THEOREM NothingIsForgotten ==
  ASSUME RemovalAssumptions PROVE MCSpec => []QuarantineIsJournaled
BY RemovalRuns, QuarantinesAreJournaled, PTL

(***************************************************************************)
(* The rows and their files go together or not at all: every behaviour of  *)
(* the removal, with its failures and crashes, is one of AtomicDelete.     *)
(***************************************************************************)
THEOREM RemovalIsAtomic == ASSUME RemovalAssumptions PROVE MCSpec => RemovesAtomically
BY RemovalRuns, RemovalRefines, PTL

(***************************************************************************)
(* A finished removal that nothing disturbed left nothing behind, and an   *)
(* HTTP row that rests no half-filled folder but those of kills.           *)
(***************************************************************************)
THEOREM LeavesNoTrace == ASSUME RemovalAssumptions PROVE MCSpec => []NoTraceLeft
<1>1. MCSpec => []Http!ScratchOnlyOfKills /\ []RemovedWithoutTrace
  BY HttpRuns, Http!LeavesNoScratch, RemovalRuns, RemovalsLeaveNoTrace, PTL
<1>. QED
  BY <1>1, PTL DEF NoTraceLeft

(***************************************************************************)
(* A torrent's published payload is whole, however its publication, a      *)
(* recheck or a crash is interleaved with failures.                        *)
(***************************************************************************)
THEOREM PublishedPayloadsAreWhole ==
  ASSUME Published!Assumptions PROVE MCSpec => []PublishedIsWhole
BY PublishedRuns, Published!PublishedPayloadsAreWhole, PTL DEF PublishedIsWhole

(***************************************************************************)
(* What a torrent downloaded is not lost before its row is removed.        *)
(***************************************************************************)
THEOREM NothingDownloadedIsLost ==
  ASSUME Published!Assumptions PROVE MCSpec => PayloadSurvives
BY PublishedRuns, Published!NothingDownloadedIsLost, PTL DEF PayloadSurvives

(***************************************************************************)
(* A completed HTTP row has its own payload at its destination, or its     *)
(* contents, unpacked: never a file of the user's that looks like it.      *)
(***************************************************************************)
THEOREM CompletedRowsAreOwn == MCSpec => []CompletedIsOwn
BY HttpRuns, Http!CompletesWithItsOwn, PTL DEF CompletedIsOwn

(***************************************************************************)
(* A torrent that librqbit did not fail to stop runs for the row whose     *)
(* worker watches it, through restarts, late pauses and further rows.      *)
(***************************************************************************)
THEOREM TorrentsRunForTheirRow == MCSpec => []RunsForItsRow
<1>1. SessionInv => RunsForItsRow
  BY DEF SessionInv
<1>. QED
  BY SessionRuns, SessionStarts, SessionSteps, <1>1, PTL

(***************************************************************************)
(* An HTTP row fails with "already exists" only for a file of the user's.  *)
(***************************************************************************)
THEOREM RefusalsAreForeign == MCSpec => []RefusesOnlyForeign
BY HttpRuns, Http!NeverRefusesItsOwn, PTL DEF RefusesOnlyForeign

(***************************************************************************)
(* Volumes are deleted only if they were downloaded, and after a durable   *)
(* folder of what they hold was published.                                 *)
(***************************************************************************)
THEOREM VolumesGoUnpacked == ASSUME SetAssumptions PROVE MCSpec => OnlyUnpackedVolumesGo
<1>1. SetInv /\ [Sets!Next]_Sets!vars =>
        [\A v \in volumes \ volumes' :
           /\ v \in Sets!Own
           /\ synced /\ \E n \in DOMAIN outputs : outputs[n].owner = "shio"]_Sets!vars
  BY GoneWasUnpacked DEF Filled
<1>. QED
  BY <1>1, SetRuns, SetInvariant, PTL
     DEF Sets!Spec, OnlyUnpackedVolumesGo, Sets!OnlyUnpackedVolumesGo

(***************************************************************************)
(* A folder that an extraction publishes holds what the archive holds,     *)
(* each file and all together within the limits that are counted while     *)
(* entries are written (extract.rs, Output), and all of it if the set was  *)
(* found complete or its reader knows the end of it.                       *)
(***************************************************************************)
THEOREM FoldersHoldTheArchive ==
  ASSUME SetAssumptions, ArchiveAssumptions PROVE MCSpec => []FoldersAreWhole
<1>1. UnpackInv => FoldersAreWhole
  BY DEF UnpackInv, FoldersAreWhole
<1>. QED
  BY <1>1, SetRuns, UnpackInvariant, PTL

(***************************************************************************)
(* No path belongs to two downloads that may write to it.                  *)
(***************************************************************************)
THEOREM NoPathHasTwoOwners == MCSpec => []NoSharedDestinations
BY PathsRun, Paths!DestinationsAreOwned, PTL DEF NoSharedDestinations

(***************************************************************************)
(* What a name given by a server, a URL or a torrent is sanitized to is a  *)
(* file name (filename.rs, sanitize_filename): it is not empty, fits, is   *)
(* no device, and sanitizing it again changes nothing.                     *)
(***************************************************************************)
THEOREM SanitizedNamesAreStable == ASSUME NameAssumptions PROVE MCSpec => []NamesAreStable
<1>1. NamingInv => NamesAreStable
  BY DEF NamingInv
<1>2. MCInit => NamingInv
  BY NamesStart
<1>3. NamingInv /\ [Naming!Next]_Naming!vars => NamingInv'
  BY NamesStep
<1>. QED
  BY <1>1, <1>2, <1>3, NamesRun, PTL

(***************************************************************************)
(* No file or folder of the user is replaced or removed: by a torrent, by  *)
(* an HTTP download, by an extraction, or by what undoes a removal.        *)
(***************************************************************************)
THEOREM UsersFilesAreSpared ==
  ASSUME RemovalAssumptions, Published!Assumptions, SetAssumptions
  PROVE  MCSpec => UserFilesStay
BY RemovalRuns, RemovalsSpareForeign, PublishedRuns, Published!SparesForeignFiles, HttpRuns,
   Http!SparesForeignFiles, SetRuns, SparesFolders, PTL DEF UserFilesStay
=============================================================================
