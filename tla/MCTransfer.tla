----------------------------- MODULE MCTransfer -----------------------------
(* Values for the constants of Transfer. *)
EXTENDS Transfer, TLC

CONSTANTS v, w, u, x, c, d

Connectors == Permutations(Conns)

(* Lengths in blocks: v and w could be taken for each other. *)
Length == [y \in Versions |-> IF y = u THEN 3 ELSE 2]
Five == [y \in Versions |-> 5]

(* Any server, or any but one that makes a resumable stream begin again.    *)
AnyServer == [version : Versions, ranges : BOOLEAN]
NoneRegrown == {s \in AnyServer : s.version = x => s.ranges}

(* The plan cuts every body into pieces that tile it. *)
ASSUME PlanTiles ==
  \A total \in 0..30 : \A ranged \in BOOLEAN :
    LET plan == PlanPieces(total, ranged)
    IN  /\ Tiles(plan, total)
        /\ Len(plan) <= IF ranged THEN MaxPieces ELSE 1

(* The order in which eight equal pieces are claimed, as chunk.rs:668 has it. *)
ASSUME ClaimsSplitRuns ==
  LET eight == [i \in 1..8 |-> [start |-> i - 1, len |-> 1, downloaded |-> 0,
                                persisted |-> 0, busy |-> FALSE]]
      order == <<1, 5, 3, 7, 2, 4, 6, 8>>
      Taken(n) == [i \in 1..8 |-> [eight[i] EXCEPT !.busy = \E k \in 1..n : order[k] = i]]
  IN  \A n \in 0..7 : ToClaim(Taken(n)) = order[n + 1]
=============================================================================
