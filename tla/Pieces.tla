------------------------------- MODULE Pieces -------------------------------
(***************************************************************************)
(* The pieces of one HTTP payload (chunk.rs): how a body is cut, which     *)
(* piece a connection claims next, and what the database keeps of them.    *)
(* Everything here is a function of its arguments; the mutex that makes    *)
(* each operation atomic is the atomicity of the actions of Transfer.      *)
(* The unit is a block, not a byte, and indices start at 1.                *)
(***************************************************************************)
EXTENDS Integers, Sequences, FiniteSetsExt

CONSTANTS
  MinPiece,       (* MIN_PIECE_BYTES, in blocks.                            *)
  MaxPieces       (* MAX_PIECES.                                            *)

ASSUME PiecesAssumption ==
  /\ MinPiece \in Nat \ {0}
  /\ MaxPieces \in Nat \ {0}

Unknown == -1     (* The size of a body whose length nobody announced.      *)

-----------------------------------------------------------------------------
(* The plan *)

CeilDiv(a, b) == (a + b - 1) \div b

(* ChunkInfo, without the status, which `unsaved` derives from `downloaded`. *)
Row(start, end) == [start |-> start, end |-> end, downloaded |-> 0]

(* `plan_pieces` *)
PlanPieces(total, ranged) ==
  IF total = Unknown
  THEN <<Row(0, 0)>>
  ELSE LET size == IF ranged THEN Max({MinPiece, CeilDiv(total, MaxPieces)})
                             ELSE Max({total, 1})
       IN  [i \in 1..CeilDiv(total, size) |->
              Row((i - 1) * size, Min({i * size, total}) - 1)]

(* The rows cut [0, total) into consecutive pieces, and none of them counts *)
(* more than it holds.                                                      *)
Tiles(rows, total) ==
  /\ \A i \in DOMAIN rows :
       /\ rows[i].start = IF i = 1 THEN 0 ELSE rows[i - 1].end + 1
       /\ rows[i].end >= rows[i].start
       /\ rows[i].downloaded <= rows[i].end - rows[i].start + 1
  /\ total = IF rows = <<>> THEN 0 ELSE rows[Len(rows)].end + 1

-----------------------------------------------------------------------------
(* `Pieces`: at most one writer each *)

(* `Pieces::new` *)
Load(rows, total) ==
  [i \in DOMAIN rows |->
     [start |-> rows[i].start,
      len |-> IF total = Unknown THEN Unknown ELSE rows[i].end - rows[i].start + 1,
      downloaded |-> rows[i].downloaded, persisted |-> rows[i].downloaded,
      busy |-> FALSE]]

Complete(p) == p.len = p.downloaded
Free(p) == ~p.busy /\ ~Complete(p)
(* Only a single piece has an unknown length: any positive weight will do. *)
Remaining(p) == IF p.len = Unknown THEN 1 ELSE p.len - p.downloaded

AllComplete(P) == \A i \in DOMAIN P : Complete(P[i])
Downloaded(P) == MapThenSumSet(LAMBDA i : P[i].downloaded, DOMAIN P)
BusyPieces(P) == {i \in DOMAIN P : P[i].busy}
FreePieces(P) == {i \in DOMAIN P : Free(P[i])}

(* The maximal runs of free pieces, as <<first, last>>. *)
FreeRuns(P) ==
  {r \in FreePieces(P) \X FreePieces(P) :
     /\ r[1] <= r[2]
     /\ r[1]..r[2] \subseteq FreePieces(P)
     /\ r[1] - 1 \notin FreePieces(P)
     /\ r[2] + 1 \notin FreePieces(P)}
RunSize(P, r) == MapThenSumSet(LAMBDA i : Remaining(P[i]), r[1]..r[2])
LargestRun(P) ==
  CHOOSE r \in FreeRuns(P) :
    \A s \in FreeRuns(P) :
      \/ RunSize(P, s) < RunSize(P, r)
      \/ RunSize(P, s) = RunSize(P, r) /\ r[1] <= s[1]

(* `claim`: the first piece of the largest free run, or its middle when the *)
(* writer before the run streams into it.                                   *)
ToClaim(P) ==
  LET r == LargestRun(P)
  IN  IF r[1] > 1 /\ P[r[1] - 1].busy
      THEN r[1] + (r[2] + 1 - r[1]) \div 2
      ELSE r[1]
Claim(P) == [P EXCEPT ![ToClaim(P)].busy = TRUE]
Claimable(P) == FreePieces(P) # {}

(* Mutant: a piece that another connection writes is taken over. *)
CanTakeOver(P, i) ==
  /\ i < Len(P)
  /\ ~Complete(P[i + 1])
  /\ P[i + 1].downloaded = 0

(* `advance`: the writer of piece i goes on into the untouched piece after it. *)
CanAdvance(P, i) ==
  /\ i < Len(P)
  /\ Free(P[i + 1])
  /\ P[i + 1].downloaded = 0
Advance(P, i) == [P EXCEPT ![i].busy = FALSE, ![i + 1].busy = TRUE]

(* Mutant: the piece stays taken. *)
Keep(P, i) == P
(* `release`, `record`, `finish_stream` *)
Release(P, i) == [P EXCEPT ![i].busy = FALSE]
Record(P, i, n) == [P EXCEPT ![i].downloaded = n]
FinishStream(P, i) == [P EXCEPT ![i].len = P[i].downloaded]
HasOtherWriters(P) == Cardinality(BusyPieces(P)) > 1

(* `unsaved`: what the database does not know yet. *)
Unsaved(P) ==
  [i \in {j \in DOMAIN P : P[j].downloaded # P[j].persisted} |-> P[i].downloaded]

(* `saved`: the snapshot is in the database. *)
Saved(P, snapshot) ==
  [i \in DOMAIN P |->
     IF i \in DOMAIN snapshot THEN [P[i] EXCEPT !.persisted = snapshot[i]] ELSE P[i]]

(* `update_chunks`, on the rows of the database *)
UpdateChunks(rows, snapshot) ==
  [i \in DOMAIN rows |->
     IF i \in DOMAIN snapshot
     THEN [rows[i] EXCEPT !.downloaded = snapshot[i]] ELSE rows[i]]
=============================================================================
