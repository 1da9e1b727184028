---------------------------- MODULE Destinations ----------------------------
(***************************************************************************)
(* Which paths the downloads own.  A row owns the files it will write and  *)
(* its staging folder; the engine refuses a row whose paths exist on disk  *)
(* or overlap those of another row (engine.rs, reject_collisions).  Names  *)
(* change later: an HTTP row takes the name its server gives, numbered     *)
(* when taken, and a magnet learns its files.                              *)
(*                                                                         *)
(* A path is a sequence of components; a component is a name and the       *)
(* numbers appended to it, <<"a", <<1>>>> being "a (1)".                   *)
(***************************************************************************)
EXTENDS Naturals, Sequences, FiniteSets, SequencesExt

CONSTANTS
  Ids,            \* the downloads
  Names,          \* valid file names
  Lower,          \* what a name is in lower case
  Long,           \* names with no room left for a number
  Dirs,           \* the folders downloads are saved to, subfolders included
  Manifests,      \* the files of each torrent, as they are named in it
  Cleaned,        \* what a name of a torrent becomes on disk
  UserPaths,      \* where the user may put a file
  MaxNameSuffix,  \* how many numbers are tried (the code tries 100)
  MaxSettled      \* bound: how many rows settle

VARIABLES
  rows,     \* the rows of the engine and of its database
  disk,     \* the files on disk
  settled   \* how often a row completed or was cancelled

vars == <<rows, disk, settled>>

Torrents == DOMAIN Manifests

NoRow == [kind |-> "none"]
NoName == <<"", <<>>>>

(* Only a name derived from the URL of a row outside a set is replaced.    *)
HttpRow(dir, name, derived) ==
  [kind |-> "http", dir |-> dir, name |-> name, derived |-> derived, status |-> "working"]

TorrentRow(dir, torrent, files) ==
  [kind |-> "torrent", dir |-> dir, torrent |-> torrent, files |-> files, status |-> "working"]

Live == {id \in Ids : rows[id] # NoRow}
Plain(name) == <<name, <<>>>>

PayloadPaths(row) ==
  CASE row.kind = "http" -> {Append(row.dir, row.name)}
    [] row.kind = "torrent" -> {row.dir \o file : file \in row.files}
    [] OTHER -> {}

StagingRoot(id, row) == Append(row.dir, <<row.kind, <<id>>>>)

Owned(id, row) == PayloadPaths(row) \cup {StagingRoot(id, row)}

PathKey(path) == [i \in DOMAIN path |-> <<Lower[path[i][1]], path[i][2]>>]

(* A mutant: two downloads may then own a folder and a file in it.         *)
OverlapsWhenEqual(left, right) == left = right

Overlaps(left, right) == IsPrefix(left, right) \/ IsPrefix(right, left)

Collide(path, other) == Overlaps(PathKey(path), PathKey(other))

(* A file above a path or below it is found as well as one at it.          *)
Exists(path) == \E file \in disk : Overlaps(path, file)

Claims(candidates, newRows) ==
  UNION {{<<id, path>> : path \in IF newRows THEN Owned(id, candidates[id])
                                  ELSE PayloadPaths(candidates[id])} : id \in DOMAIN candidates}

Accepts(candidates, newRows) ==
  LET claims == Claims(candidates, newRows)
  IN /\ \A claim \in claims : ~Exists(claim[2])
     /\ \A claim, other \in claims : claim # other => ~Collide(claim[2], other[2])
     /\ \A claim \in claims : \A id \in Live \ DOMAIN candidates :
          \A path \in Owned(id, rows[id]) : ~Collide(claim[2], path)

(* Rows are inserted together or not at all.                               *)
Insert(candidates) ==
  /\ \A id \in DOMAIN candidates : rows[id] = NoRow
  /\ Accepts(candidates, TRUE)
  /\ rows' = [id \in Ids |-> IF id \in DOMAIN candidates THEN candidates[id] ELSE rows[id]]
  /\ UNCHANGED <<disk, settled>>

One(id, row) == [i \in {id} |-> row]

(* The name is the user's, or the last part of the URL.                    *)
AddHttp(id) ==
  \E dir \in Dirs, name \in Names : \E derived \in {NoName, Plain(name)} :
    Insert(One(id, HttpRow(dir, Plain(name), derived)))

(* The parts of a set are saved to one folder.                             *)
AddArchiveSet(ids) ==
  \E dir \in Dirs, named \in [ids -> Names] :
    Insert([id \in ids |-> HttpRow(dir, Plain(named[id]), NoName)])

(***************************************************************************)
(* A manifest names files by their components; on disk each is cleaned.    *)
(* It is refused when two of its files are one, or one is a folder of      *)
(* another, in any case.                                                   *)
(***************************************************************************)
FilePath(raw) == [i \in DOMAIN raw |-> Plain(Cleaned[raw[i]])]
Files(torrent) == {FilePath(Manifests[torrent][i]) : i \in DOMAIN Manifests[torrent]}

Parses(torrent) ==
  LET raw == Manifests[torrent]
  IN \A i, j \in DOMAIN raw : i # j => ~Collide(FilePath(raw[i]), FilePath(raw[j]))

Duplicate(torrent) ==
  \E id \in Live : rows[id].kind = "torrent" /\ rows[id].torrent = torrent /\ rows[id].status = "working"

AddTorrent(id) ==
  \E dir \in Dirs, torrent \in Torrents :
    /\ Parses(torrent)
    /\ ~Duplicate(torrent)
    /\ \E selected \in SUBSET Files(torrent) \ {{}} :
         Insert(One(id, TorrentRow(dir, torrent, selected)))

AddMagnet(id) ==
  \E dir \in Dirs, torrent \in Torrents :
    /\ ~Duplicate(torrent)
    /\ Insert(One(id, TorrentRow(dir, torrent, {})))

(* A download that runs learns the name its server gives.                  *)
ServerFilename(row, filename) ==
  /\ row.kind = "http"
  /\ row.name = row.derived
  /\ filename # row.name

Numbered(name, n) == IF n = 0 THEN name ELSE <<name[1], Append(name[2], n)>>

Renamed(id, name) == One(id, [rows[id] EXCEPT !.name = name])

Available(id, filename) ==
  {n \in 0 .. MaxNameSuffix - 1 :
     /\ n # 0 => filename[1] \notin Long
     /\ Accepts(Renamed(id, Numbered(filename, n)), FALSE)}

(* The first free name is taken; when all are taken the row keeps its own. *)
(* It is the worker of the row that asks, also while it leaves a row that  *)
(* was cancelled; a completed row has none.                                *)
ClaimFilename(id) ==
  \E name \in Names :
    LET filename == Plain(name)
        available == Available(id, filename)
    IN /\ rows[id].status # "completed"
       /\ ServerFilename(rows[id], filename)
       /\ \E n \in available :
            /\ \A m \in available : n <= m
            /\ rows' = [rows EXCEPT ![id].name = Numbered(filename, n)]
       /\ UNCHANGED <<disk, settled>>

(* A magnet learns its files from its worker, likewise; all are selected.  *)
CommitMetadata(id) ==
  /\ rows[id].kind = "torrent" /\ rows[id].files = {} /\ rows[id].status # "completed"
  /\ Parses(rows[id].torrent)
  /\ LET row == [rows[id] EXCEPT !.files = Files(rows[id].torrent)]
     IN /\ Accepts(One(id, row), FALSE)
        /\ rows' = [rows EXCEPT ![id] = row]
  /\ UNCHANGED <<disk, settled>>

(* A row that completes has published its files; nothing is overwritten.   *)
Settle(id) ==
  /\ rows[id].status = "working"
  /\ settled < MaxSettled
  /\ settled' = settled + 1
  /\ \/ /\ rows' = [rows EXCEPT ![id].status = "cancelled"]
        /\ UNCHANGED disk
     \/ /\ \A path \in PayloadPaths(rows[id]) : ~Exists(path)
        /\ rows' = [rows EXCEPT ![id].status = "completed"]
        /\ disk' = disk \cup PayloadPaths(rows[id])

(* A row is removed, with its files or without.                            *)
RemoveRow(id) ==
  /\ rows' = [rows EXCEPT ![id] = NoRow]
  /\ \/ UNCHANGED disk
     \/ rows[id].status = "completed" /\ disk' = disk \ PayloadPaths(rows[id])
  /\ UNCHANGED settled

(* The user puts a file somewhere, or takes it away.                       *)
UserFile ==
  /\ \E path \in UserPaths : \/ ~Exists(path) /\ disk' = disk \cup {path}
                             \/ disk' = disk \ {path}
  /\ UNCHANGED <<rows, settled>>

Init ==
  /\ rows = [id \in Ids |-> NoRow]
  /\ disk = {}
  /\ settled = 0

Add ==
  \/ \E id \in Ids : AddHttp(id) \/ AddTorrent(id) \/ AddMagnet(id)
  \/ \E ids \in SUBSET Ids : Cardinality(ids) >= 2 /\ AddArchiveSet(ids)

Run == \E id \in Live : ClaimFilename(id) \/ CommitMetadata(id) \/ Settle(id) \/ RemoveRow(id)

Next == Add \/ Run \/ UserFile

Spec == Init /\ [][Next]_vars

(* Neither of two paths is the other one or a folder above it, in any case. *)
Apart(path, taken) ==
  /\ ~IsPrefix(PathKey(path), PathKey(taken))
  /\ ~IsPrefix(PathKey(taken), PathKey(path))

(***************************************************************************)
(* No path is written by two downloads: whatever is added, renamed, found  *)
(* in a torrent, removed or left on disk, in a file system that ignores    *)
(* case, what one row owns is neither a path of another row nor above or   *)
(* below one, and the files of a row do not overlap each other.            *)
(***************************************************************************)
NoSharedDestinations ==
  /\ \A id, other \in Live : id # other =>
       \A path \in Owned(id, rows[id]), taken \in Owned(other, rows[other]) :
         Apart(path, taken)
  /\ \A id \in Live : \A path, taken \in PayloadPaths(rows[id]) :
       path # taken => Apart(path, taken)
=============================================================================
