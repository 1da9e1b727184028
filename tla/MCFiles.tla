------------------------------ MODULE MCFiles ------------------------------
(***************************************************************************)
(* What becomes of the files, for TLC: TorrentFiles, TorrentSession,       *)
(* HttpFiles, Extraction, DeleteJournal, Destinations and Filenames.  They *)
(* share nothing: a behaviour is one of a torrent's files, of its session, *)
(* of an HTTP download, of an archive set, of a removal, of the rows and   *)
(* the paths they own, or of a name.  HttpFiles, TorrentFiles and          *)
(* Destinations are instantiated with their proofs, so that FilesProofs    *)
(* can apply these to the instances.                                       *)
(***************************************************************************)
EXTENDS DeleteJournal, Sequences, TLC

CONSTANTS
  Payload, MaxPayloadFailures, MaxPayloadForeign, MaxPayloadRestarts,
  MaxRows, MaxOpFailures,
  MaxHttpFailures, MaxHttpForeign, MaxHttpRestarts,
  Lookalikes, MaxFiles, MaxFileBytes, MaxTotalBytes, MaxAttempts,
  MaxUserFolders, MaxIoFailures, MaxCrashes,
  Ids, Names, Long, MaxNameSuffix, MaxSettled,
  MaxComponentBytes, ExtensionBytes, MaxLength

VARIABLES
  part,
  status, worker, payloadStaging, destinations, unpack, cleaning, op, links, neverSeed,
  payloadFailures, payloadForeign, payloadRestarts,
  row, rowStatus, rowWorker, session, entry, late, forgetting, rowOp, opFailures,
  sessionRestarts,
  httpStatus, httpWorker, root, partial, metadata, httpPlace, folders, scratch, archive,
  deletes, httpFailures, httpForeign, httpRestarts,
  set, volumes, step, checked, password, members, next, unpacked, synced, attempt, outputs,
  cancel, userFolders, ioFailures, crashes,
  owners, disk, settled,
  rawName, safeName

payloadVars ==
  <<status, worker, payloadStaging, destinations, unpack, cleaning, op, links, neverSeed,
    payloadFailures, payloadForeign, payloadRestarts>>
sessionVars ==
  <<row, rowStatus, rowWorker, session, entry, late, forgetting, rowOp, opFailures,
    sessionRestarts>>
httpVars ==
  <<httpStatus, httpWorker, root, partial, metadata, httpPlace, folders, scratch, archive,
    deletes, httpFailures, httpForeign, httpRestarts>>
setVars ==
  <<set, volumes, step, checked, password, members, next, unpacked, synced, attempt, outputs,
    cancel, userFolders, ioFailures, crashes>>
ownerVars == <<owners, disk, settled>>
nameVars == <<rawName, safeName>>

Published == INSTANCE TorrentFilesProofs
  WITH staging <- payloadStaging, place <- destinations, failures <- payloadFailures,
       foreign <- payloadForeign, restarts <- payloadRestarts,
       MaxFailures <- MaxPayloadFailures, MaxForeign <- MaxPayloadForeign,
       MaxRestarts <- MaxPayloadRestarts

TwoFiles == <<"f", "g">>

Session == INSTANCE TorrentSession
  WITH status <- rowStatus, worker <- rowWorker, op <- rowOp, failures <- opFailures,
       restarts <- sessionRestarts, MaxFailures <- MaxOpFailures,
       MaxRestarts <- MaxPayloadRestarts

Http == INSTANCE HttpFilesProofs
  WITH status <- httpStatus, worker <- httpWorker, place <- httpPlace,
       failures <- httpFailures, foreign <- httpForeign, restarts <- httpRestarts,
       MaxFailures <- MaxHttpFailures, MaxForeign <- MaxHttpForeign,
       MaxRestarts <- MaxHttpRestarts

File(name, declared, size) ==
  [kind |-> "file", name |-> name, declared |-> declared, size |-> size]
Folder(name) == [kind |-> "dir", name |-> name, declared |-> 0, size |-> 0]
Link == [kind |-> "link", name |-> "l", declared |-> 0, size |-> 0]
Plain == <<File("a", 1, 1), File("b", 2, 2)>>
ZipOf(entries) ==
  [format |-> "zip", volumes |-> 1, seamless |-> FALSE, encrypted |-> FALSE, entries |-> entries]
RarOf(n, seamless, entries) ==
  [ZipOf(entries) EXCEPT !.format = "rar", !.volumes = n, !.seamless = seamless]

(* Entries that lie about their size, are too large together or too many,  *)
(* share a name, are links; a set of two volumes, one of them missing, the *)
(* first of which may end with an entry; one that needs a password.        *)
Archives ==
  {ZipOf(<<File("a", 1, 3)>>), ZipOf(<<File("a", 2, 2), File("b", 2, 2)>>),
   ZipOf(<<Folder("a"), File("a", 1, 1)>>), ZipOf(<<Folder("a"), Folder("a"), File("b", 1, 1)>>),
   ZipOf(<<Folder("a"), Folder("b"), Folder("c")>>), ZipOf(<<File("a", 1, 1), Link>>),
   ZipOf(Plain), [ZipOf(Plain) EXCEPT !.encrypted = TRUE],
   RarOf(1, FALSE, <<File("a", 1, 3)>>),
   RarOf(2, FALSE, <<File("a", 3, 1), Link, Folder("b")>>), RarOf(2, TRUE, Plain)}

Sets == INSTANCE Extraction
  WITH archive <- set, entry <- next, scratch <- unpacked, folders <- outputs

(* A part with one file, and one with two (as a torrent has). *)
ThreeFiles == ("x" :> 1) @@ ("y" :> 2) @@ ("z" :> 2)

(* Two folders, one in the other and named like a file; names that differ  *)
(* in case only; torrents of two files, whose names may not be allowed on  *)
(* disk: one torrent has a folder of the name of a file of another, one    *)
(* has two names that become one; a path of the user.                      *)
LowerCase ==
  [n \in Names \cup {"d", "http", "torrent"} |-> IF n = "A" THEN "a" ELSE n]
Component(n) == <<n, <<>>>>
Folders == {<<Component("d")>>, <<Component("d"), Component("a")>>}
SomeManifests ==
  ("t" :> << <<"a*">>, <<"b">> >>) @@ ("u" :> << <<"a", "b">>, <<"b">> >>)
  @@ ("v" :> << <<"a*">>, <<"A">> >>)
CleanNames == [n \in Names \cup {"a*"} |-> IF n = "a*" THEN "a" ELSE n]

Paths == INSTANCE DestinationsProofs
  WITH rows <- owners, Lower <- LowerCase, Dirs <- Folders, Manifests <- SomeManifests,
       Cleaned <- CleanNames, UserPaths <- {<<Component("d"), Component("b")>>}

Naming == INSTANCE Filenames WITH raw <- rawName, name <- safeName

(* What a part that does not move may start with. *)
MCInit ==
  /\ part \in {"files", "session", "http", "set", "removal", "owners", "naming"}
  /\ Init /\ Published!Init /\ Session!Init /\ Http!Init /\ Sets!Init /\ Paths!Init
  /\ IF part = "naming" THEN Naming!Init ELSE rawName = <<>> /\ safeName = <<>>
  /\ part # "files" => links /\ neverSeed
  /\ part # "http" => archive /\ deletes
  /\ part # "set" => set = ZipOf(Plain)
  /\ part # "removal" => \A f \in Files : place[f] = "own"

MCNext ==
  /\ UNCHANGED part
  /\ \/ /\ part = "files" /\ Published!Next
        /\ UNCHANGED <<sessionVars, httpVars, setVars, vars, ownerVars, nameVars>>
     \/ /\ part = "session" /\ Session!Next
        /\ UNCHANGED <<payloadVars, httpVars, setVars, vars, ownerVars, nameVars>>
     \/ /\ part = "http" /\ Http!Next
        /\ UNCHANGED <<payloadVars, sessionVars, setVars, vars, ownerVars, nameVars>>
     \/ /\ part = "set" /\ Sets!Next
        /\ UNCHANGED <<payloadVars, sessionVars, httpVars, vars, ownerVars, nameVars>>
     \/ /\ part = "removal" /\ Next
        /\ UNCHANGED <<payloadVars, sessionVars, httpVars, setVars, ownerVars, nameVars>>
     \/ /\ part = "owners" /\ Paths!Next
        /\ UNCHANGED <<payloadVars, sessionVars, httpVars, setVars, vars, nameVars>>
     \/ /\ part = "naming" /\ Naming!Next
        /\ UNCHANGED <<payloadVars, sessionVars, httpVars, setVars, vars, ownerVars>>

MCSpec ==
  /\ MCInit
  /\ [][MCNext]_<<part, payloadVars, sessionVars, httpVars, setVars, vars, ownerVars, nameVars>>
  /\ Session!Fairness

PublishedIsWhole == Published!PublishedIsWhole
PayloadSurvives == Published!PayloadSurvives
CompletedWasUnpacked == Published!CompletedWasUnpacked
RunsForItsRow == Session!RunsForItsRow
PausedTorrentsResume == Session!PausedTorrentsResume
RefusesOnlyForeign == Http!RefusesOnlyForeign
CompletedIsOwn == Http!CompletedIsOwn
FoldersAreWhole == Sets!FoldersAreWhole
OnlyUnpackedVolumesGo == Sets!OnlyUnpackedVolumesGo
NoSharedDestinations == Paths!NoSharedDestinations
NamesAreStable == Naming!NamesAreStable

(***************************************************************************)
(* Nothing temporary is left that no kill explains: neither a half-filled  *)
(* folder of an extraction nor the folders, the quarantine or the journal  *)
(* of a removal.                                                           *)
(***************************************************************************)
NoTraceLeft == Http!ScratchOnlyOfKills /\ RemovedWithoutTrace

(***************************************************************************)
(* A file of the user is never replaced or removed, by a torrent, by an    *)
(* HTTP download, by what is unpacked, or when removed files are put back. *)
(***************************************************************************)
UserFilesStay ==
  ForeignFilesStay /\ Published!ForeignFilesStay /\ Http!ForeignFilesStay /\ Sets!UserFoldersStay
=============================================================================
