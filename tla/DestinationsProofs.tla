-------------------------- MODULE DestinationsProofs --------------------------
(***************************************************************************)
(* No path belongs to two downloads: proved for any number of rows, any    *)
(* names, folders and torrents, and whatever lower case makes of a name.   *)
(* That one path is a prefix of another is all that is used of paths.      *)
(***************************************************************************)
EXTENDS Destinations, TLAPS

(* What a row looks like, while it is there. *)
IsHttp(row) ==
  \E dir, name, derived, status :
    row = [kind |-> "http", dir |-> dir, name |-> name, derived |-> derived, status |-> status]
IsTorrent(row) ==
  \E dir, torrent, files, status :
    row = [kind |-> "torrent", dir |-> dir, torrent |-> torrent, files |-> files,
           status |-> status]
IsRow(row) == IsHttp(row) \/ IsTorrent(row)

RowsOK ==
  /\ rows = [id \in Ids |-> rows[id]]
  /\ \A id \in Ids : rows[id] = NoRow \/ IsRow(rows[id])

LEMMA RowIsThere == ASSUME NEW row, IsRow(row) PROVE row # NoRow
  BY DEF IsRow, IsHttp, IsTorrent, NoRow

(* A row that changes keeps its staging folder. *)
Same(row, other) == row.kind = other.kind /\ row.dir = other.dir

(* A row whose name, files or status change keeps its kind and folder, and *)
(* without a change of its name or files the paths it owns.                *)
LEMMA HttpRowLooks ==
  ASSUME NEW row, NEW old, NEW dir, NEW name, NEW derived, NEW status,
         NEW name2, NEW status2,
         old = [kind |-> "http", dir |-> dir, name |-> name, derived |-> derived,
                status |-> status],
         row = [kind |-> "http", dir |-> dir, name |-> name2, derived |-> derived,
                status |-> status2]
  PROVE  /\ IsRow(row)
         /\ Same(row, old)
         /\ name = name2 => PayloadPaths(row) = PayloadPaths(old)
<1>1. IsRow(row)
  BY DEF IsRow, IsHttp
<1>2. /\ row.kind = "http" /\ row.dir = dir /\ row.name = name2
      /\ old.kind = "http" /\ old.dir = dir /\ old.name = name
  OBVIOUS
<1>3. name = name2 => PayloadPaths(row) = PayloadPaths(old)
  BY <1>2 DEF PayloadPaths
<1>4. Same(row, old)
  BY <1>2 DEF Same
<1>. QED
  BY <1>1, <1>3, <1>4

LEMMA TorrentRowLooks ==
  ASSUME NEW row, NEW old, NEW dir, NEW torrent, NEW files, NEW status,
         NEW files2, NEW status2,
         old = [kind |-> "torrent", dir |-> dir, torrent |-> torrent, files |-> files,
                status |-> status],
         row = [kind |-> "torrent", dir |-> dir, torrent |-> torrent, files |-> files2,
                status |-> status2]
  PROVE  /\ IsRow(row)
         /\ Same(row, old)
         /\ files = files2 => PayloadPaths(row) = PayloadPaths(old)
<1>1. IsRow(row)
  BY DEF IsRow, IsTorrent
<1>2. /\ row.kind = "torrent" /\ row.dir = dir /\ row.files = files2
      /\ old.kind = "torrent" /\ old.dir = dir /\ old.files = files
  OBVIOUS
<1>3. files = files2 => PayloadPaths(row) = PayloadPaths(old)
  BY <1>2 DEF PayloadPaths
<1>4. Same(row, old)
  BY <1>2 DEF Same
<1>. QED
  BY <1>1, <1>3, <1>4

LEMMA ApartIsNoCollision ==
  ASSUME NEW path, NEW taken
  PROVE  /\ Apart(path, taken) <=> ~Collide(path, taken)
         /\ Collide(path, taken) <=> Collide(taken, path)
  BY DEF Apart, Collide, Overlaps

(***************************************************************************)
(* What keeps the property when rows are added or change: the new paths of *)
(* a row were accepted against those of all others.                        *)
(***************************************************************************)
LEMMA InsertKeeps ==
  ASSUME RowsOK, NoSharedDestinations,
         NEW ids, NEW candidates, candidates = [id \in ids |-> candidates[id]],
         ids \subseteq Ids,
         \A id \in ids : IsRow(candidates[id]),
         Insert(candidates)
  PROVE  RowsOK' /\ NoSharedDestinations'
<1>1. DOMAIN candidates = ids
  OBVIOUS
<1>2. /\ \A id \in ids : rows[id] = NoRow
      /\ Accepts(candidates, TRUE)
      /\ rows' = [id \in Ids |-> IF id \in ids THEN candidates[id] ELSE rows[id]]
  BY <1>1 DEF Insert
<1>3. \A id \in Ids : rows'[id] = IF id \in ids THEN candidates[id] ELSE rows[id]
  BY <1>2
<1>4. RowsOK'
  BY <1>2, <1>3 DEF RowsOK
<1>5. /\ Live' = Live \cup ids
      /\ Live \cap ids = {}
  BY <1>2, <1>3, RowIsThere DEF Live
<1>6. \A id \in ids : \A path \in Owned(id, candidates[id]) :
        <<id, path>> \in Claims(candidates, TRUE)
  BY <1>1 DEF Claims
<1>7. ASSUME NEW id \in ids, NEW other \in ids,
             NEW path \in Owned(id, candidates[id]), NEW taken \in Owned(other, candidates[other]),
             id # other \/ path # taken
      PROVE  Apart(path, taken)
  <2>1. ~Collide(path, taken)
    BY <1>2, <1>6, <1>7 DEF Accepts
  <2>. QED
    BY <2>1, ApartIsNoCollision
<1>8. ASSUME NEW id \in ids, NEW other \in Live,
             NEW path \in Owned(id, candidates[id]), NEW taken \in Owned(other, rows[other])
      PROVE  Apart(path, taken) /\ Apart(taken, path)
  <2>1. other \in Live \ DOMAIN candidates
    BY <1>1, <1>5
  <2>2. ~Collide(path, taken)
    BY <1>2, <1>6, <2>1 DEF Accepts
  <2>. QED
    BY <2>2, ApartIsNoCollision
<1>9. ASSUME NEW id \in Live', NEW other \in Live', id # other,
             NEW path \in Owned(id, rows'[id]), NEW taken \in Owned(other, rows'[other])
      PROVE  Apart(path, taken)
  <2>0. id \in Ids /\ other \in Ids
    BY DEF Live
  <2>1. CASE id \in ids /\ other \in ids
    BY <1>3, <1>7, <1>9, <2>0, <2>1
  <2>2. CASE id \in ids /\ other \notin ids
    BY <1>3, <1>5, <1>8, <2>0, <2>2
  <2>3. CASE id \notin ids /\ other \in ids
    BY <1>3, <1>5, <1>8, <2>0, <2>3
  <2>4. CASE id \notin ids /\ other \notin ids
    BY <1>3, <1>5, <1>9, <2>0, <2>4 DEF NoSharedDestinations
  <2>. QED
    BY <2>1, <2>2, <2>3, <2>4
<1>10. ASSUME NEW id \in Live', NEW path \in PayloadPaths(rows'[id]),
              NEW taken \in PayloadPaths(rows'[id]), path # taken
       PROVE  Apart(path, taken)
  <2>0. id \in Ids
    BY DEF Live
  <2>1. CASE id \in ids
    BY <1>3, <1>7, <1>10, <2>0, <2>1 DEF Owned
  <2>2. CASE id \notin ids
    BY <1>3, <1>5, <1>10, <2>0, <2>2 DEF NoSharedDestinations
  <2>. QED
    BY <2>1, <2>2
<1>11. NoSharedDestinations'
  BY <1>9, <1>10 DEF NoSharedDestinations
<1>. QED
  BY <1>4, <1>11

LEMMA OneKeeps ==
  ASSUME RowsOK, NoSharedDestinations, NEW id \in Ids, NEW row, IsRow(row), Insert(One(id, row))
  PROVE  RowsOK' /\ NoSharedDestinations'
<1>. DEFINE candidates == One(id, row)
<1>1. candidates = [i \in {id} |-> candidates[i]] /\ \A i \in {id} : IsRow(candidates[i])
  BY DEF One
<1>2. Insert(candidates) /\ {id} \subseteq Ids
  OBVIOUS
<1>. HIDE DEF candidates
<1>. QED
  BY <1>1, <1>2, InsertKeeps

LEMMA RenameKeeps ==
  ASSUME RowsOK, NoSharedDestinations, NEW id \in Live, NEW row, IsRow(row),
         Same(row, rows[id]),
         rows' = [rows EXCEPT ![id] = row],
         \/ PayloadPaths(row) = PayloadPaths(rows[id])
         \/ Accepts(One(id, row), FALSE)
  PROVE  RowsOK' /\ NoSharedDestinations'
<1>1. id \in Ids /\ \A other \in Ids : rows'[other] = IF other = id THEN row ELSE rows[other]
  BY DEF RowsOK, Live
<1>2. RowsOK'
  BY <1>1 DEF RowsOK
<1>3. Live' = Live
  BY <1>1, RowIsThere DEF Live
<1>4. StagingRoot(id, row) = StagingRoot(id, rows[id])
  BY DEF StagingRoot, Same
<1>5. ASSUME Accepts(One(id, row), FALSE)
      PROVE  /\ \A path \in PayloadPaths(row) : \A other \in Live \ {id} :
                  \A taken \in Owned(other, rows[other]) : ~Collide(path, taken)
             /\ \A path, taken \in PayloadPaths(row) : path # taken => ~Collide(path, taken)
  <2>1. DOMAIN One(id, row) = {id} /\ One(id, row)[id] = row
    BY DEF One
  <2>2. \A path \in PayloadPaths(row) : <<id, path>> \in Claims(One(id, row), FALSE)
    BY <2>1 DEF Claims
  <2>. QED
    BY <1>5, <2>1, <2>2 DEF Accepts
<1>6. ASSUME NEW other \in Live, other # id,
             NEW path \in Owned(id, row), NEW taken \in Owned(other, rows[other])
      PROVE  Apart(path, taken) /\ Apart(taken, path)
  <2>1. CASE path \in Owned(id, rows[id])
    BY <1>6, <2>1 DEF NoSharedDestinations
  <2>2. CASE path \notin Owned(id, rows[id])
    <3>1. path \in PayloadPaths(row) /\ Accepts(One(id, row), FALSE)
      BY <1>4, <2>2 DEF Owned
    <3>2. ~Collide(path, taken)
      BY <1>5, <1>6, <3>1
    <3>. QED
      BY <3>2, ApartIsNoCollision
  <2>. QED
    BY <2>1, <2>2
<1>7. ASSUME NEW p \in Live, NEW q \in Live, p # q,
             NEW path \in Owned(p, rows'[p]), NEW taken \in Owned(q, rows'[q])
      PROVE  Apart(path, taken)
  <2>0. p \in Ids /\ q \in Ids
    BY DEF Live
  <2>1. CASE p = id
    BY <1>1, <1>6, <1>7, <2>0, <2>1
  <2>2. CASE q = id
    BY <1>1, <1>6, <1>7, <2>0, <2>2
  <2>3. CASE p # id /\ q # id
    BY <1>1, <1>7, <2>0, <2>3 DEF NoSharedDestinations
  <2>. QED
    BY <2>1, <2>2, <2>3
<1>8. ASSUME NEW p \in Live, NEW path \in PayloadPaths(rows'[p]),
             NEW taken \in PayloadPaths(rows'[p]), path # taken
      PROVE  Apart(path, taken)
  <2>0. p \in Ids
    BY DEF Live
  <2>1. CASE p = id /\ PayloadPaths(row) = PayloadPaths(rows[id])
    BY <1>1, <1>8, <2>0, <2>1 DEF NoSharedDestinations
  <2>2. CASE p = id /\ Accepts(One(id, row), FALSE)
    BY <1>1, <1>5, <1>8, <2>0, <2>2, ApartIsNoCollision
  <2>3. CASE p # id
    BY <1>1, <1>8, <2>0, <2>3 DEF NoSharedDestinations
  <2>. QED
    BY <2>1, <2>2, <2>3
<1>9. NoSharedDestinations'
  BY <1>3, <1>7, <1>8 DEF NoSharedDestinations
<1>. QED
  BY <1>2, <1>9

LEMMA NextKeeps ==
  ASSUME RowsOK, NoSharedDestinations, [Next]_vars
  PROVE  RowsOK' /\ NoSharedDestinations'
<1>1. ASSUME NEW id \in Ids, AddHttp(id) PROVE RowsOK' /\ NoSharedDestinations'
  <2>1. PICK dir, name, derived : Insert(One(id, HttpRow(dir, Plain(name), derived)))
    BY <1>1 DEF AddHttp
  <2>2. IsRow(HttpRow(dir, Plain(name), derived))
    BY DEF HttpRow, IsRow, IsHttp
  <2>. QED
    BY <2>1, <2>2, OneKeeps
<1>2. ASSUME NEW id \in Ids, AddTorrent(id) PROVE RowsOK' /\ NoSharedDestinations'
  <2>1. PICK dir, torrent, selected : Insert(One(id, TorrentRow(dir, torrent, selected)))
    BY <1>2 DEF AddTorrent
  <2>2. IsRow(TorrentRow(dir, torrent, selected))
    BY DEF TorrentRow, IsRow, IsTorrent
  <2>. QED
    BY <2>1, <2>2, OneKeeps
<1>3. ASSUME NEW id \in Ids, AddMagnet(id) PROVE RowsOK' /\ NoSharedDestinations'
  <2>1. PICK dir, torrent : Insert(One(id, TorrentRow(dir, torrent, {})))
    BY <1>3 DEF AddMagnet
  <2>2. IsRow(TorrentRow(dir, torrent, {}))
    BY DEF TorrentRow, IsRow, IsTorrent
  <2>. QED
    BY <2>1, <2>2, OneKeeps
<1>4. ASSUME NEW ids \in SUBSET Ids, AddArchiveSet(ids) PROVE RowsOK' /\ NoSharedDestinations'
  <2>1. PICK dir, named : Insert([id \in ids |-> HttpRow(dir, Plain(named[id]), NoName)])
    BY <1>4 DEF AddArchiveSet
  <2>. DEFINE candidates == [id \in ids |-> HttpRow(dir, Plain(named[id]), NoName)]
  <2>2. \A id \in ids : IsRow(candidates[id])
    BY DEF HttpRow, IsRow, IsHttp
  <2>3. candidates = [id \in ids |-> candidates[id]]
    OBVIOUS
  <2>. HIDE DEF candidates
  <2>. QED
    BY <2>1, <2>2, <2>3, InsertKeeps DEF candidates
<1>5. ASSUME NEW id \in Live, ClaimFilename(id) PROVE RowsOK' /\ NoSharedDestinations'
  <2>0. PICK name \in Names :
          /\ ServerFilename(rows[id], Plain(name))
          /\ \E n \in Available(id, Plain(name)) :
               rows' = [rows EXCEPT ![id].name = Numbered(Plain(name), n)]
    BY <1>5 DEF ClaimFilename
  <2>1. PICK n \in Available(id, Plain(name)) :
          rows' = [rows EXCEPT ![id].name = Numbered(Plain(name), n)]
    BY <2>0
  <2>2. Accepts(Renamed(id, Numbered(Plain(name), n)), FALSE)
    BY <2>1 DEF Available
  <2>. DEFINE row == [rows[id] EXCEPT !.name = Numbered(Plain(name), n)]
  <2>3. IsHttp(rows[id])
    BY <2>0 DEF ServerFilename, RowsOK, Live, IsRow, IsTorrent
  <2>4. IsRow(row) /\ Same(row, rows[id])
    <3>1. PICK dir, old, derived, status :
            rows[id] = [kind |-> "http", dir |-> dir, name |-> old, derived |-> derived,
                        status |-> status]
      BY <2>3 DEF IsHttp
    <3>2. row = [kind |-> "http", dir |-> dir, name |-> Numbered(Plain(name), n),
                 derived |-> derived, status |-> status]
      BY <3>1
    <3>. HIDE DEF row
    <3>. QED
      BY <3>1, <3>2, HttpRowLooks
  <2>5. rows' = [rows EXCEPT ![id] = row] /\ Accepts(One(id, row), FALSE)
    BY <2>1, <2>2 DEF Renamed
  <2>. HIDE DEF row
  <2>. QED
    BY <2>4, <2>5, RenameKeeps
<1>6. ASSUME NEW id \in Live, CommitMetadata(id) PROVE RowsOK' /\ NoSharedDestinations'
  <2>. DEFINE row == [rows[id] EXCEPT !.files = Files(rows[id].torrent)]
  <2>1. rows[id].kind = "torrent" /\ Accepts(One(id, row), FALSE) /\ rows' = [rows EXCEPT ![id] = row]
    BY <1>6 DEF CommitMetadata
  <2>2. IsTorrent(rows[id])
    BY <2>1 DEF RowsOK, Live, IsRow, IsHttp
  <2>3. IsRow(row) /\ Same(row, rows[id])
    <3>1. PICK dir, torrent, files, status :
            rows[id] = [kind |-> "torrent", dir |-> dir, torrent |-> torrent, files |-> files,
                        status |-> status]
      BY <2>2 DEF IsTorrent
    <3>2. row = [kind |-> "torrent", dir |-> dir, torrent |-> torrent,
                 files |-> Files(rows[id].torrent), status |-> status]
      BY <3>1
    <3>. HIDE DEF row
    <3>. QED
      BY <3>1, <3>2, TorrentRowLooks
  <2>. HIDE DEF row
  <2>. QED
    BY <2>1, <2>3, RenameKeeps
<1>7. ASSUME NEW id \in Live, Settle(id) PROVE RowsOK' /\ NoSharedDestinations'
  <2>1. PICK status : rows' = [rows EXCEPT ![id].status = status]
    BY <1>7 DEF Settle
  <2>. DEFINE row == [rows[id] EXCEPT !.status = status]
  <2>2. IsRow(rows[id])
    BY DEF RowsOK, Live
  <2>3. IsRow(row) /\ Same(row, rows[id]) /\ PayloadPaths(row) = PayloadPaths(rows[id])
    <3>1. CASE IsHttp(rows[id])
      <4>1. PICK dir, name, derived, old :
              rows[id] = [kind |-> "http", dir |-> dir, name |-> name, derived |-> derived,
                          status |-> old]
        BY <3>1 DEF IsHttp
      <4>2. row = [kind |-> "http", dir |-> dir, name |-> name, derived |-> derived,
                   status |-> status]
        BY <4>1
      <4>. HIDE DEF row
      <4>. QED
        BY <4>1, <4>2, HttpRowLooks
    <3>2. CASE IsTorrent(rows[id])
      <4>1. PICK dir, torrent, files, old :
              rows[id] = [kind |-> "torrent", dir |-> dir, torrent |-> torrent, files |-> files,
                          status |-> old]
        BY <3>2 DEF IsTorrent
      <4>2. row = [kind |-> "torrent", dir |-> dir, torrent |-> torrent, files |-> files,
                   status |-> status]
        BY <4>1
      <4>. HIDE DEF row
      <4>. QED
        BY <4>1, <4>2, TorrentRowLooks
    <3>. QED
      BY <2>2, <3>1, <3>2 DEF IsRow
  <2>4. rows' = [rows EXCEPT ![id] = row]
    BY <2>1
  <2>. HIDE DEF row
  <2>. QED
    BY <2>3, <2>4, RenameKeeps
<1>8. ASSUME NEW id \in Live, RemoveRow(id) PROVE RowsOK' /\ NoSharedDestinations'
  <2>1. id \in Ids /\ \A other \in Ids : rows'[other] = IF other = id THEN NoRow ELSE rows[other]
    BY <1>8 DEF RemoveRow, RowsOK, Live
  <2>2. RowsOK'
    BY <1>8, <2>1 DEF RemoveRow, RowsOK
  <2>3. Live' = Live \ {id} /\ \A other \in Live' : rows'[other] = rows[other]
    BY <2>1 DEF Live
  <2>4. NoSharedDestinations'
    BY <2>3 DEF NoSharedDestinations
  <2>. QED
    BY <2>2, <2>4
<1>9. ASSUME UNCHANGED rows PROVE RowsOK' /\ NoSharedDestinations'
  BY <1>9 DEF RowsOK, NoSharedDestinations, Live
<1>10. UserFile => UNCHANGED rows
  BY DEF UserFile
<1>. QED
  BY <1>1, <1>2, <1>3, <1>4, <1>5, <1>6, <1>7, <1>8, <1>9, <1>10 DEF Next, Add, Run, vars

(***************************************************************************)
(* However rows are added, renamed by servers, completed by metadata,      *)
(* settled and removed (engine.rs, reject_collisions, claim_filename,      *)
(* commit_torrent_metadata), no path is that of two rows, nor above or     *)
(* below one of another, in any case of letters.                           *)
(***************************************************************************)
THEOREM DestinationsAreOwned == Spec => []NoSharedDestinations
<1>1. Init => RowsOK /\ NoSharedDestinations
  BY DEF Init, RowsOK, NoSharedDestinations, Live
<1>2. RowsOK /\ NoSharedDestinations /\ [Next]_vars => (RowsOK /\ NoSharedDestinations)'
  BY NextKeeps
<1>. QED
  BY <1>1, <1>2, PTL DEF Spec
=============================================================================
