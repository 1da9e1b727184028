--------------------------- MODULE TransferProofs ---------------------------
(***************************************************************************)
(* Who works on which piece of a transfer, for any number of connections,  *)
(* pieces, versions and servers.                                           *)
(*                                                                         *)
(* What the operations on pieces return comes first: the plan tiles the    *)
(* body, a claim finds a free piece.  Then the inductive invariant in      *)
(* layers, each of which needs those before it:                            *)
(*   Control   every busy piece has one owner, which knows what it has,    *)
(*   Shape     the pieces are the rows, cut as planned,                    *)
(*   Talks     what each connection asked for and was answered,            *)
(*   Contents  what is counted is in the file, and of which version,       *)
(*   Storage   what the rows and the metadata promise is on the disk.      *)
(* The last two are about what the file holds, in memory and on disk,      *)
(* across retries, checkpoints, crashes and a resource that is replaced.   *)
(***************************************************************************)
EXTENDS Transfer, TLAPS, FiniteSetTheorems, WellFoundedInduction

-----------------------------------------------------------------------------
(* Induction, in the form of the least number of a set. *)

(* A set of numbers has a least one: induction without an induction rule. *)
LEMMA LeastNatural ==
  ASSUME NEW T \in SUBSET Nat, T # {}
  PROVE  \E n \in T : \A m \in T : n <= m
<1>1. IsWellFoundedOn(OpToRel(<, Nat), Nat)
  BY NatLessThanWellFounded
<1>2. PICK n \in T : \A m \in T : <<m, n>> \notin OpToRel(<, Nat)
  BY <1>1, WFMin
<1>3. \A m \in T : ~(m < n)
  BY <1>2 DEF OpToRel
<1> QED
  BY <1>3

(* A bounded set of numbers has a greatest one. *)
LEMMA GreatestNatural ==
  ASSUME NEW T \in SUBSET Nat, NEW b \in Nat, \A n \in T : n <= b, T # {}
  PROVE  \E n \in T : \A m \in T : m <= n
<1> DEFINE D == {d \in Nat : b - d \in T}
<1>1. PICK t \in T : TRUE
  OBVIOUS
<1>2. t \in Nat /\ t <= b
  OBVIOUS
<1>3. b - t \in Nat /\ b - (b - t) = t
  BY <1>2
<1>4. b - t \in D
  BY <1>1, <1>3
<1>5. PICK d \in D : \A e \in D : d <= e
  BY <1>4, LeastNatural
<1>6. b - d \in T
  OBVIOUS
<1>7. ASSUME NEW m \in T PROVE m <= b - d
  <2>1. m \in Nat /\ m <= b
    OBVIOUS
  <2>2. b - m \in Nat /\ b - (b - m) = m
    BY <2>1
  <2>3. b - m \in D
    BY <2>2
  <2>4. d <= b - m
    BY <1>5, <2>3
  <2> QED
    BY <2>1, <2>4
<1> QED
  BY <1>6, <1>7

(* A finite set of finite sets has a member of least cardinality. *)
LEMMA SmallestSubset ==
  ASSUME NEW S, IsFiniteSet(S), NEW U \in SUBSET SUBSET S, U # {}
  PROVE  \E s \in U : \A t \in U : Cardinality(s) <= Cardinality(t)
<1> DEFINE N == {Cardinality(s) : s \in U}
<1>1. \A s \in U : IsFiniteSet(s) /\ Cardinality(s) \in Nat
  BY FS_Subset, FS_CardinalityType
<1>2. N \in SUBSET Nat /\ N # {}
  BY <1>1
<1>3. PICK n \in N : \A m \in N : n <= m
  BY <1>2, LeastNatural
<1> QED
  BY <1>3

-----------------------------------------------------------------------------
(* The size of a run is a number. *)

(* `remaining` summed over a run of free pieces is a number. *)
LEMMA RunSizeIsNatural ==
  ASSUME NEW P, NEW r, IsFiniteSet(r[1]..r[2]),
         \A i \in r[1]..r[2] : Remaining(P[i]) \in Nat
  PROVE  RunSize(P, r) \in Nat
<1> DEFINE S == r[1]..r[2]
           First(s) == CHOOSE x \in s : TRUE
           Step(f, s) == IF s = {} THEN 0 ELSE Remaining(P[First(s)]) + f[s \ {First(s)}]
           Upto(n) == {s \in SUBSET S : Cardinality(s) <= n}
           Sum == CHOOSE f : f = [s \in SUBSET S |-> Step(f, s)]
           Defined(n) == \E f : f = [s \in Upto(n) |-> Step(f, s)]
<1>1. RunSize(P, r) = Sum[S]
  BY DEF RunSize, MapThenSumSet, MapThenFoldSet
<1> HIDE DEF S
<1>0. IsFiniteSet(S) /\ \A i \in S : Remaining(P[i]) \in Nat
  BY DEF S
<1>2. \A s \in SUBSET S : IsFiniteSet(s) /\ Cardinality(s) \in Nat
  BY <1>0, FS_Subset, FS_CardinalityType
<1>3. ASSUME NEW s \in SUBSET S, s # {}
      PROVE  /\ First(s) \in s /\ s \ {First(s)} \in SUBSET S
             /\ Cardinality(s \ {First(s)}) = Cardinality(s) - 1
  <2>1. First(s) \in s
    BY <1>3
  <2> QED
    BY <1>2, <2>1, FS_RemoveElement
<1> HIDE DEF First
<1>4. \A n \in Nat : Defined(n)
  <2> SUFFICES ASSUME NEW n \in Nat, ~Defined(n), \A m \in Nat : ~Defined(m) => n <= m
               PROVE  FALSE
    <3> DEFINE T == {n \in Nat : ~Defined(n)}
    <3> HIDE DEF Defined
    <3>1. T # {} => \E n \in T : \A m \in T : n <= m
      BY LeastNatural
    <3> QED
      BY <3>1
  <2>1. CASE n = 0
    <3>1. \A s \in Upto(0) : s = {}
      BY <1>2, FS_EmptySet
    <3>2. [s \in Upto(0) |-> 0] = [s \in Upto(0) |-> Step([t \in Upto(0) |-> 0], s)]
      BY <3>1
    <3> QED
      BY <2>1, <3>2
  <2>2. CASE n # 0
    <3>1. n - 1 \in Nat /\ ~(n <= n - 1)
      BY <2>2
    <3>2. PICK f : f = [s \in Upto(n - 1) |-> Step(f, s)]
      BY <3>1
    <3> DEFINE g == [s \in Upto(n) |-> Step(f, s)]
    <3>3. \A s \in Upto(n - 1) : s \in Upto(n) /\ g[s] = f[s]
      <4>1. \A s \in Upto(n - 1) : f[s] = Step(f, s)
        BY <3>2
      <4>2. \A s \in Upto(n - 1) : s \in Upto(n)
        BY <1>2, <3>1
      <4> QED
        BY <4>1, <4>2
    <3>4. \A s \in Upto(n) : s # {} => s \ {First(s)} \in Upto(n - 1)
      BY <1>2, <1>3
    <3>5. \A s \in Upto(n) : Step(f, s) = Step(g, s)
      BY <3>3, <3>4
    <3>6. g = [s \in Upto(n) |-> Step(g, s)]
      BY <3>5
    <3> QED
      BY <3>6
  <2> QED
    BY <2>1, <2>2
<1>5. Sum = [s \in SUBSET S |-> Step(Sum, s)]
  <2>1. Cardinality(S) \in Nat /\ Upto(Cardinality(S)) = SUBSET S
    BY <1>0, <1>2, FS_Subset
  <2>2. \E f : f = [s \in SUBSET S |-> Step(f, s)]
    BY <1>4, <2>1
  <2> QED
    BY <2>2
<1> HIDE DEF Sum
<1>6. \A s \in SUBSET S : Sum[s] \in Nat
  <2> SUFFICES ASSUME NEW s \in SUBSET S, Sum[s] \notin Nat,
                      \A t \in SUBSET S : Sum[t] \notin Nat => Cardinality(s) <= Cardinality(t)
               PROVE  FALSE
    <3> DEFINE U == {s \in SUBSET S : Sum[s] \notin Nat}
    <3>1. U # {} => \E s \in U : \A t \in U : Cardinality(s) <= Cardinality(t)
      BY <1>0, SmallestSubset
    <3> QED
      BY <3>1
  <2>1. Sum[s] = Step(Sum, s)
    BY <1>5
  <2>2. s # {}
    BY <2>1
  <2>3. /\ First(s) \in S /\ s \ {First(s)} \in SUBSET S
        /\ ~(Cardinality(s) <= Cardinality(s \ {First(s)}))
    BY <1>2, <1>3, <2>2
  <2>4. Sum[s \ {First(s)}] \in Nat /\ Remaining(P[First(s)]) \in Nat
    BY <1>0, <2>3
  <2> QED
    BY <2>1, <2>2, <2>4
<1> QED
  BY <1>1, <1>6

(* A finite set of numbers has a greatest one. *)
LEMMA FiniteMaximum ==
  ASSUME NEW K \in SUBSET Nat, IsFiniteSet(K), K # {}
  PROVE  \E k \in K : \A m \in K : m <= k
<1> DEFINE Above(k) == {m \in K : k <= m}
           U == {Above(k) : k \in K}
<1>1. U \in SUBSET SUBSET K /\ U # {}
  OBVIOUS
<1>2. PICK s \in U : \A t \in U : Cardinality(s) <= Cardinality(t)
  BY <1>1, SmallestSubset
<1>3. PICK k \in K : s = Above(k)
  OBVIOUS
<1>4. SUFFICES ASSUME NEW m \in K, k < m PROVE FALSE
  OBVIOUS
<1>5. Above(m) \in SUBSET Above(k)
  <2>1. \A n \in K : m <= n => k <= n
    BY <1>4
  <2> QED
    BY <2>1
<1>6. k \in Above(k) /\ k \notin Above(m)
  BY <1>4
<1>7. IsFiniteSet(Above(k))
  BY FS_Subset
<1>8. Cardinality(Above(m)) <= Cardinality(Above(k)) /\ Cardinality(Above(m)) # Cardinality(Above(k))
  BY <1>5, <1>6, <1>7, FS_Subset
<1>9. Cardinality(Above(m)) \in Nat /\ Cardinality(Above(k)) \in Nat
  BY <1>5, <1>7, FS_Subset, FS_CardinalityType
<1>10. Cardinality(Above(k)) <= Cardinality(Above(m))
  BY <1>2, <1>3
<1> QED
  BY <1>8, <1>9, <1>10

-----------------------------------------------------------------------------
(* What a connection claims is free. *)

(* While `claim` finds a free piece there is a run of them that cannot be    *)
(* extended.                                                                 *)
LEMMA SomeRunIsFree ==
  ASSUME NEW P, NEW n \in Nat, DOMAIN P = 1..n, Claimable(P)
  PROVE  FreeRuns(P) # {}
<1> DEFINE F == FreePieces(P)
<1>1. F \in SUBSET (1..n)
  BY DEF FreePieces
<1>2. PICK i \in F : TRUE
  BY DEF Claimable
<1> HIDE DEF F
<1>3. i \in 1..n
  BY <1>1
<1> DEFINE A == {a \in Nat : a <= i /\ a..i \in SUBSET F}
<1>4. i \in A
  BY <1>3
<1>5. PICK a \in A : \A m \in A : a <= m
  BY <1>4, LeastNatural
<1>6. a \in Nat /\ a <= i /\ a..i \in SUBSET F
  OBVIOUS
<1>7. a \in F
  BY <1>3, <1>6
<1>8. a - 1 \notin F
  <2> SUFFICES ASSUME a - 1 \in F PROVE FALSE
    OBVIOUS
  <2>1. a - 1 \in Nat /\ a - 1 <= i
    BY <1>1, <1>3, <1>6
  <2>2. (a - 1)..i \in SUBSET F
    <3>1. \A m \in (a - 1)..i : m = a - 1 \/ m \in a..i
      BY <1>3, <1>6
    <3> QED
      BY <1>6, <3>1
  <2>3. a - 1 \in A
    BY <2>1, <2>2
  <2> QED
    BY <1>5, <1>6, <2>3
<1> DEFINE B == {b \in Nat : i <= b /\ b <= n /\ a..b \in SUBSET F}
<1>9. i \in B
  BY <1>3, <1>6
<1>10. PICK b \in B : \A m \in B : m <= b
  <2>1. B \in SUBSET Nat /\ \A m \in B : m <= n
    OBVIOUS
  <2> QED
    BY <1>9, <2>1, GreatestNatural
<1>11. b \in Nat /\ i <= b /\ b <= n /\ a..b \in SUBSET F
  OBVIOUS
<1>12. b \in F
  BY <1>3, <1>6, <1>11
<1>13. b + 1 \notin F
  <2> SUFFICES ASSUME b + 1 \in F PROVE FALSE
    OBVIOUS
  <2>1. b + 1 \in Nat /\ i <= b + 1 /\ b + 1 <= n
    BY <1>1, <1>3, <1>11
  <2>2. a..(b + 1) \in SUBSET F
    <3>1. \A m \in a..(b + 1) : m = b + 1 \/ m \in a..b
      BY <1>6, <1>11
    <3> QED
      BY <1>11, <3>1
  <2>3. b + 1 \in B
    BY <2>1, <2>2
  <2> QED
    BY <1>10, <1>11, <2>3
<1>14. a <= b
  BY <1>3, <1>6, <1>11
<1> DEFINE r == <<a, b>>
<1>15. r \in F \X F /\ r[1] = a /\ r[2] = b
  BY <1>7, <1>12
<1>16. r \in FreeRuns(P)
  BY <1>8, <1>11, <1>13, <1>14, <1>15 DEF FreeRuns, F
<1> QED
  BY <1>16

(* `largest_run` picks one of the runs, whatever their number and sizes. *)
LEMMA LargestRunIsFree ==
  ASSUME NEW P, NEW n \in Nat, DOMAIN P = 1..n, Claimable(P),
         \A i \in FreePieces(P) : Remaining(P[i]) \in Nat
  PROVE  LargestRun(P) \in FreeRuns(P)
<1>1. FreePieces(P) \in SUBSET (1..n)
  BY DEF FreePieces
<1>2. \A r \in FreeRuns(P) : /\ r[1] \in Nat /\ r[2] \in Nat
                             /\ r[1]..r[2] \in SUBSET FreePieces(P)
  BY <1>1 DEF FreeRuns
<1>3. \A r \in FreeRuns(P) : RunSize(P, r) \in Nat
  <2> SUFFICES ASSUME NEW r \in FreeRuns(P) PROVE RunSize(P, r) \in Nat
    OBVIOUS
  <2>1. r[1] \in Int /\ r[2] \in Int
    BY <1>2
  <2>2. IsFiniteSet(r[1]..r[2])
    BY <2>1, FS_Interval
  <2>3. \A i \in r[1]..r[2] : Remaining(P[i]) \in Nat
    BY <1>2
  <2> QED
    BY <2>2, <2>3, RunSizeIsNatural
<1>4. IsFiniteSet(FreeRuns(P))
  <2>1. IsFiniteSet(FreePieces(P))
    BY <1>1, FS_Interval, FS_Subset
  <2>2. IsFiniteSet(FreePieces(P) \X FreePieces(P))
    BY <2>1, FS_Product
  <2>3. FreeRuns(P) \in SUBSET (FreePieces(P) \X FreePieces(P))
    BY DEF FreeRuns
  <2> QED
    BY <2>2, <2>3, FS_Subset
<1> DEFINE Sizes == {RunSize(P, r) : r \in FreeRuns(P)}
<1>5. Sizes \in SUBSET Nat /\ IsFiniteSet(Sizes) /\ Sizes # {}
  <2> DEFINE size == [r \in FreeRuns(P) |-> RunSize(P, r)]
  <2>1. size \in Surjection(FreeRuns(P), Sizes)
    BY DEF Surjection
  <2>2. IsFiniteSet(Sizes)
    BY <1>4, <2>1, FS_Surjection
  <2> QED
    BY <1>3, <2>2, SomeRunIsFree
<1>6. PICK size \in Sizes : \A other \in Sizes : other <= size
  BY <1>5, FiniteMaximum
<1> DEFINE Firsts == {r[1] : r \in {q \in FreeRuns(P) : RunSize(P, q) = size}}
<1>7. Firsts \in SUBSET Nat /\ Firsts # {}
  BY <1>2
<1>8. PICK first \in Firsts : \A other \in Firsts : first <= other
  BY <1>7, LeastNatural
<1>9. PICK r \in FreeRuns(P) : RunSize(P, r) = size /\ r[1] = first
  OBVIOUS
<1>10. \A s \in FreeRuns(P) : RunSize(P, s) <= size
  BY <1>6
<1>11. \A s \in FreeRuns(P) : RunSize(P, s) = size => first <= s[1]
  BY <1>8
<1>12. size \in Nat
  BY <1>5
<1> HIDE DEF Sizes, Firsts
<1>13. \A s \in FreeRuns(P) : \/ RunSize(P, s) < RunSize(P, r)
                              \/ RunSize(P, s) = RunSize(P, r) /\ r[1] <= s[1]
  BY <1>3, <1>9, <1>10, <1>11, <1>12
<1> QED
  BY <1>13 DEF LargestRun

(* The piece that `claim` takes lies in the run. *)
THEOREM ClaimsFreePiece ==
  ASSUME NEW P, NEW n \in Nat, DOMAIN P = 1..n, Claimable(P),
         \A i \in FreePieces(P) : Remaining(P[i]) \in Nat
  PROVE  ToClaim(P) \in FreePieces(P)
<1> DEFINE r == LargestRun(P)
           middle == r[1] + (r[2] + 1 - r[1]) \div 2
<1>1. /\ r[1] \in Nat /\ r[2] \in Nat /\ r[1] <= r[2]
      /\ r[1]..r[2] \in SUBSET FreePieces(P)
  <2>1. FreePieces(P) \in SUBSET Nat
    BY DEF FreePieces
  <2> QED
    BY <2>1, LargestRunIsFree DEF FreeRuns
<1>2. ToClaim(P) \in {r[1], middle}
  BY DEF ToClaim
<1> HIDE DEF r
<1>3. r[1] \in r[1]..r[2] /\ middle \in r[1]..r[2]
  BY <1>1
<1> QED
  BY <1>1, <1>2, <1>3

-----------------------------------------------------------------------------
(* The plan cuts a body of any length into pieces that tile it. *)

(* The greater of two numbers. *)
LEMMA MaxOfTwo ==
  ASSUME NEW a \in Int, NEW b \in Int
  PROVE  Max({a, b}) = IF a >= b THEN a ELSE b
<1>1. \E x \in {a, b} : \A y \in {a, b} : x >= y
  OBVIOUS
<1>2. /\ Max({a, b}) \in {a, b}
      /\ \A y \in {a, b} : Max({a, b}) >= y
  BY <1>1 DEF Max
<1> QED
  BY <1>2

(* The lesser of two numbers. *)
LEMMA MinOfTwo ==
  ASSUME NEW a \in Int, NEW b \in Int
  PROVE  Min({a, b}) = IF a <= b THEN a ELSE b
<1>1. \E x \in {a, b} : \A y \in {a, b} : x <= y
  OBVIOUS
<1>2. /\ Min({a, b}) \in {a, b}
      /\ \A y \in {a, b} : Min({a, b}) <= y
  BY <1>1 DEF Min
<1> QED
  BY <1>2

(* `div_ceil` rounds up to the next multiple, and no further. *)
LEMMA CeilDivRounds ==
  ASSUME NEW total \in Nat, NEW size \in Nat \ {0}
  PROVE  /\ CeilDiv(total, size) \in Nat
         /\ total <= CeilDiv(total, size) * size
         /\ CeilDiv(total, size) * size < total + size
<1> DEFINE a == total + size - 1
           n == a \div size
<1>1. a \in Nat
  OBVIOUS
<1> HIDE DEF a
<1>2. n \in Nat /\ a = size * n + (a % size) /\ (a % size) \in 0..(size - 1)
  BY <1>1
<1>3. size * n = n * size
  BY <1>2
<1> QED
  BY <1>2, <1>3 DEF CeilDiv, a

(* A row of the database. *)
RowType == [start : Nat, end : Nat, downloaded : Nat]

(* `plan_pieces` cuts a body of any length into pieces that lie end to end,  *)
(* cover it and nothing else, and have nothing downloaded; one piece at most *)
(* where the server serves no ranges.                                        *)
THEOREM PlanPiecesTile ==
  ASSUME NEW total \in Nat, NEW ranged \in BOOLEAN
  PROVE  LET plan == PlanPieces(total, ranged)
         IN  /\ plan \in Seq(RowType)
             /\ Tiles(plan, total)
             /\ ~ranged => Len(plan) <= 1
             /\ \A i \in DOMAIN plan : plan[i].downloaded = 0
             /\ plan # <<>> => plan[1].start = 0
<1> DEFINE size == IF ranged THEN Max({MinPiece, CeilDiv(total, MaxPieces)}) ELSE Max({total, 1})
           n == CeilDiv(total, size)
           plan == [i \in 1..n |-> Row((i - 1) * size, Min({i * size, total}) - 1)]
<1>1. size \in Nat \ {0}
  <2>1. CASE ranged
    <3>1. CeilDiv(total, MaxPieces) \in Nat /\ MinPiece \in Nat \ {0}
      BY PiecesAssumption, CeilDivRounds
    <3> QED
      BY <2>1, <3>1, MaxOfTwo
  <2>2. CASE ~ranged
    BY <2>2, MaxOfTwo
  <2> QED
    BY <2>1, <2>2
<1>2. ~ranged => size >= total /\ (total > 0 => size = total)
  BY MaxOfTwo
<1>3. PlanPieces(total, ranged) = plan
  BY DEF PlanPieces, Unknown
<1> HIDE DEF size
<1>4. n \in Nat /\ total <= n * size /\ n * size < total + size
  BY <1>1, CeilDivRounds
<1> HIDE DEF n
<1>5. ASSUME NEW i \in 1..n
      PROVE  /\ (i - 1) * size \in Nat /\ i * size \in Nat
             /\ i * size = (i - 1) * size + size
             /\ (i - 1) * size < total
             /\ i < n => i * size < total
  <2>1. /\ (n - 1) * size = n * size - size
        /\ i * size = (i - 1) * size + size
    BY <1>1, <1>4
  <2>2. (i - 1) * size <= (n - 1) * size
    BY <1>1, <1>4
  <2>3. (i - 1) * size \in Nat /\ i * size \in Nat /\ n * size \in Nat /\ (n - 1) * size \in Nat
    BY <1>1, <1>4
  <2>4. (i - 1) * size < total
    BY <1>1, <1>4, <2>1, <2>2, <2>3
  <2>5. ASSUME i < n PROVE i * size < total
    <3>1. i * size <= (n - 1) * size
      BY <1>1, <1>4, <2>5
    <3> QED
      BY <1>1, <1>4, <2>1, <2>3, <3>1
  <2> QED
    BY <2>1, <2>3, <2>4, <2>5
<1>6. ASSUME NEW i \in 1..n
      PROVE  /\ plan[i].start = (i - 1) * size
             /\ plan[i].end = (IF i < n THEN i * size ELSE total) - 1
             /\ plan[i].downloaded = 0
             /\ plan[i].start \in Nat /\ plan[i].end \in Nat
             /\ plan[i].end >= plan[i].start
             /\ plan[i].downloaded <= plan[i].end - plan[i].start + 1
             /\ plan[i] \in RowType
  <2>1. plan[i] = Row((i - 1) * size, Min({i * size, total}) - 1)
    OBVIOUS
  <2>2. Min({i * size, total}) = IF i * size <= total THEN i * size ELSE total
    BY <1>5, MinOfTwo
  <2>3. ~(i < n) => i = n
    BY <1>4
  <2>4. Min({i * size, total}) = IF i < n THEN i * size ELSE total
    BY <1>4, <1>5, <2>2, <2>3
  <2> HIDE DEF plan
  <2>5. plan[i].start = (i - 1) * size /\ plan[i].end = (IF i < n THEN i * size ELSE total) - 1 /\ plan[i].downloaded = 0
    BY <2>1, <2>4 DEF Row
  <2>6. plan[i].start \in Nat /\ plan[i].end \in Nat /\ plan[i].end >= plan[i].start
    BY <1>1, <1>5, <2>5
  <2>7. plan[i] \in RowType
    BY <2>1, <2>5, <2>6 DEF Row, RowType
  <2> QED
    BY <2>5, <2>6, <2>7, SMT
<1>7. plan \in Seq(RowType) /\ Len(plan) = n /\ DOMAIN plan = 1..n
  BY <1>4, <1>6
<1> HIDE DEF plan
<1>8. ASSUME NEW i \in 1..n PROVE plan[i].start = IF i = 1 THEN 0 ELSE plan[i - 1].end + 1
  <2>1. CASE i = 1
    BY <1>1, <1>6, <2>1
  <2>2. CASE i # 1
    <3>1. i - 1 \in 1..n /\ i - 1 < n
      BY <1>4, <2>2
    <3> QED
      BY <1>1, <1>6, <1>5, <2>2, <3>1
  <2> QED
    BY <2>1, <2>2
<1>9. total = IF plan = <<>> THEN 0 ELSE plan[Len(plan)].end + 1
  <2>1. CASE n = 0
    <3>1. total = 0
      BY <1>1, <1>4, <2>1
    <3> QED
      BY <1>7, <2>1, <3>1
  <2>2. CASE n # 0
    <3>1. n \in 1..n /\ plan # <<>>
      BY <1>4, <1>7, <2>2
    <3> QED
      BY <1>4, <1>6, <1>7, <3>1
  <2> QED
    BY <2>1, <2>2
<1>10. Tiles(plan, total)
  BY <1>6, <1>7, <1>8, <1>9 DEF Tiles
<1>11. ~ranged => n <= 1
  <2> SUFFICES ASSUME ~ranged, n > 1 PROVE FALSE
    BY <1>4
  <2>1. 1 \in 1..n
    BY <1>4
  <2> QED
    BY <1>1, <1>2, <1>4, <1>5, <2>1
<1> QED
  BY <1>3, <1>6, <1>7, <1>8, <1>10, <1>11

-----------------------------------------------------------------------------
(* What the operations on pieces change *)

(* A piece in memory. *)
PieceType ==
  [start : Nat, len : Nat \cup {Unknown}, downloaded : Nat, persisted : Nat, busy : BOOLEAN]

(* What no operation but `FinishStream` changes of a piece. *)
SamePlace(p, q) == p.start = q.start /\ p.len = q.len

(* The fields of a piece. *)
LEMMA PieceFields ==
  ASSUME NEW p \in PieceType
  PROVE  /\ p.start \in Nat /\ p.len \in Nat \cup {Unknown} /\ p.downloaded \in Nat
         /\ p.persisted \in Nat /\ p.busy \in BOOLEAN
  BY DEF PieceType

(* One piece is replaced. *)
LEMMA PieceReplaced ==
  ASSUME NEW P \in Seq(PieceType), NEW i \in DOMAIN P, NEW p \in PieceType
  PROVE  LET Q == [P EXCEPT ![i] = p]
         IN  /\ Q \in Seq(PieceType) /\ DOMAIN Q = DOMAIN P /\ Len(Q) = Len(P)
             /\ Q[i] = p /\ \A j \in DOMAIN P \ {i} : Q[j] = P[j]
  OBVIOUS

(* `record` changes what one piece has, and no other piece. *)
LEMMA RecordEffect ==
  ASSUME NEW P \in Seq(PieceType), NEW i \in DOMAIN P, NEW n \in Nat
  PROVE  LET Q == Record(P, i, n)
         IN  /\ Q \in Seq(PieceType) /\ DOMAIN Q = DOMAIN P /\ Len(Q) = Len(P)
             /\ \A j \in DOMAIN P \ {i} : Q[j] = P[j]
             /\ Q[i].downloaded = n /\ Q[i].busy = P[i].busy /\ SamePlace(Q[i], P[i])
<1> DEFINE p == [P[i] EXCEPT !.downloaded = n]
<1>1. p \in PieceType /\ p.downloaded = n /\ p.busy = P[i].busy /\ p.start = P[i].start /\ p.len = P[i].len
  <2>1. P[i] \in PieceType
    OBVIOUS
  <2> QED
    BY <2>1 DEF PieceType
<1>2. Record(P, i, n) = [P EXCEPT ![i] = p]
  BY DEF Record
<1> HIDE DEF p
<1> QED
  BY <1>1, <1>2, PieceReplaced DEF SamePlace

(* A piece gets or loses its writer. *)
SetBusy(P, i, b) == [P EXCEPT ![i].busy = b]

(* A piece that gets or loses its writer stays where it is, with what it     *)
(* has.                                                                      *)
LEMMA BusyEffect ==
  ASSUME NEW P \in Seq(PieceType), NEW i \in DOMAIN P, NEW b \in BOOLEAN
  PROVE  LET Q == SetBusy(P, i, b)
         IN  /\ Q \in Seq(PieceType) /\ DOMAIN Q = DOMAIN P /\ Len(Q) = Len(P)
             /\ \A j \in DOMAIN P \ {i} : Q[j] = P[j]
             /\ Q[i].busy = b /\ Q[i].downloaded = P[i].downloaded /\ SamePlace(Q[i], P[i])
<1> DEFINE p == [P[i] EXCEPT !.busy = b]
<1>1. p \in PieceType /\ p.busy = b /\ p.downloaded = P[i].downloaded /\ p.start = P[i].start /\ p.len = P[i].len
  <2>1. P[i] \in PieceType
    OBVIOUS
  <2> QED
    BY <2>1 DEF PieceType
<1>2. SetBusy(P, i, b) = [P EXCEPT ![i] = p]
  BY DEF SetBusy
<1> HIDE DEF p
<1> QED
  BY <1>1, <1>2, PieceReplaced DEF SamePlace

(* `advance` hands the writer of a piece on to the next one, and both keep   *)
(* what they have.                                                           *)
LEMMA AdvanceEffect ==
  ASSUME NEW P \in Seq(PieceType), NEW i \in DOMAIN P, i + 1 \in DOMAIN P
  PROVE  LET Q == Advance(P, i)
         IN  /\ Q \in Seq(PieceType) /\ DOMAIN Q = DOMAIN P /\ Len(Q) = Len(P)
             /\ \A j \in DOMAIN P \ {i, i + 1} : Q[j] = P[j]
             /\ ~Q[i].busy /\ Q[i].downloaded = P[i].downloaded /\ SamePlace(Q[i], P[i])
             /\ Q[i + 1].busy /\ Q[i + 1].downloaded = P[i + 1].downloaded
             /\ SamePlace(Q[i + 1], P[i + 1])
<1> DEFINE R == SetBusy(P, i, FALSE)
<1>1. i # i + 1
  OBVIOUS
<1>2. Advance(P, i) = SetBusy(R, i + 1, TRUE)
  BY <1>1 DEF Advance, SetBusy
<1>3. /\ R \in Seq(PieceType) /\ DOMAIN R = DOMAIN P /\ Len(R) = Len(P)
      /\ \A j \in DOMAIN P \ {i} : R[j] = P[j]
      /\ R[i].busy = FALSE /\ R[i].downloaded = P[i].downloaded /\ SamePlace(R[i], P[i])
  BY BusyEffect
<1> HIDE DEF R
<1>4. LET Q == SetBusy(R, i + 1, TRUE)
      IN  /\ Q \in Seq(PieceType) /\ DOMAIN Q = DOMAIN R /\ Len(Q) = Len(R)
          /\ \A j \in DOMAIN R \ {i + 1} : Q[j] = R[j]
          /\ Q[i + 1].busy = TRUE /\ Q[i + 1].downloaded = R[i + 1].downloaded
          /\ SamePlace(Q[i + 1], R[i + 1])
  BY <1>3, BusyEffect
<1> QED
  BY <1>1, <1>2, <1>3, <1>4

(* `finish_stream` sets the length of one piece to what it has. *)
LEMMA FinishEffect ==
  ASSUME NEW P \in Seq(PieceType), NEW i \in DOMAIN P
  PROVE  LET Q == FinishStream(P, i)
         IN  /\ Q \in Seq(PieceType) /\ DOMAIN Q = DOMAIN P /\ Len(Q) = Len(P)
             /\ \A j \in DOMAIN P \ {i} : Q[j] = P[j]
             /\ Q[i].busy = P[i].busy /\ Q[i].downloaded = P[i].downloaded
             /\ Q[i].start = P[i].start /\ Q[i].len = P[i].downloaded
<1> DEFINE p == [P[i] EXCEPT !.len = P[i].downloaded]
<1>1. p \in PieceType /\ p.busy = P[i].busy /\ p.downloaded = P[i].downloaded /\ p.start = P[i].start /\ p.len = P[i].downloaded
  <2>1. P[i] \in PieceType
    OBVIOUS
  <2> QED
    BY <2>1 DEF PieceType
<1>2. FinishStream(P, i) = [P EXCEPT ![i] = p]
  BY DEF FinishStream
<1> HIDE DEF p
<1> QED
  BY <1>1, <1>2, PieceReplaced

(* What a writer claims has no writer yet and is not complete. *)
LEMMA ClaimEffect ==
  ASSUME NEW P \in Seq(PieceType), Claimable(P),
         \A i \in DOMAIN P : P[i].len # Unknown => P[i].downloaded <= P[i].len
  PROVE  LET Q == Claim(P)
             i == ToClaim(P)
         IN  /\ i \in DOMAIN P /\ ~P[i].busy /\ ~Complete(P[i])
             /\ Q \in Seq(PieceType) /\ DOMAIN Q = DOMAIN P /\ Len(Q) = Len(P)
             /\ \A j \in DOMAIN P \ {i} : Q[j] = P[j]
             /\ Q[i].busy /\ Q[i].downloaded = P[i].downloaded /\ SamePlace(Q[i], P[i])
<1>1. \A i \in FreePieces(P) : Remaining(P[i]) \in Nat
  <2> SUFFICES ASSUME NEW i \in FreePieces(P) PROVE Remaining(P[i]) \in Nat
    OBVIOUS
  <2>1. i \in DOMAIN P /\ P[i] \in PieceType
    BY DEF FreePieces
  <2>2. P[i].len \in Nat \cup {Unknown} /\ P[i].downloaded \in Nat
    BY <2>1 DEF PieceType
  <2> QED
    BY <2>1, <2>2 DEF Remaining, Unknown
<1>2. Len(P) \in Nat /\ DOMAIN P = 1..Len(P)
  OBVIOUS
<1>3. ToClaim(P) \in FreePieces(P)
  BY <1>1, <1>2, ClaimsFreePiece
<1> QED
  BY <1>3, BusyEffect DEF Claim, SetBusy, FreePieces, Free

(* The pieces a worker loads are the rows, without a writer, none with more  *)
(* than it has room for.                                                     *)
LEMMA LoadEffect ==
  ASSUME NEW R \in Seq(RowType), NEW total \in Nat \cup {Unknown},
         total # Unknown => Tiles(R, total)
  PROVE  LET P == Load(R, total)
         IN  /\ P \in Seq(PieceType) /\ DOMAIN P = DOMAIN R /\ Len(P) = Len(R)
             /\ \A i \in DOMAIN R :
                  /\ P[i].start = R[i].start /\ P[i].downloaded = R[i].downloaded
                  /\ P[i].len = IF total = Unknown THEN Unknown ELSE R[i].end - R[i].start + 1
                  /\ ~P[i].busy
                  /\ P[i].len # Unknown => P[i].downloaded <= P[i].len
<1> DEFINE p(i) == [start |-> R[i].start,
                    len |-> IF total = Unknown THEN Unknown ELSE R[i].end - R[i].start + 1,
                    downloaded |-> R[i].downloaded, persisted |-> R[i].downloaded,
                    busy |-> FALSE]
           P == [i \in DOMAIN R |-> p(i)]
<1>1. ASSUME NEW i \in DOMAIN R
      PROVE  /\ p(i) \in PieceType
             /\ P[i].start = R[i].start /\ P[i].downloaded = R[i].downloaded
             /\ P[i].len = IF total = Unknown THEN Unknown ELSE R[i].end - R[i].start + 1
             /\ ~P[i].busy
             /\ P[i].len # Unknown => P[i].downloaded <= P[i].len
  <2>1. R[i] \in RowType
    OBVIOUS
  <2>2. R[i].start \in Nat /\ R[i].end \in Nat /\ R[i].downloaded \in Nat
    BY <2>1 DEF RowType
  <2>3. total # Unknown => R[i].end >= R[i].start /\ R[i].downloaded <= R[i].end - R[i].start + 1
    BY DEF Tiles
  <2>4. total # Unknown => R[i].end - R[i].start + 1 \in Nat
    BY <2>2, <2>3
  <2> QED
    BY <2>2, <2>3, <2>4 DEF PieceType
<1>2. DOMAIN R = 1..Len(R) /\ Len(R) \in Nat
  OBVIOUS
<1>3. P \in Seq(PieceType) /\ Len(P) = Len(R) /\ DOMAIN P = DOMAIN R
  BY <1>1, <1>2
<1>4. Load(R, total) = P
  BY DEF Load
<1> HIDE DEF P
<1> QED
  BY <1>1, <1>3, <1>4

(* `mark_saved` changes nothing but what counts as saved. *)
LEMMA SavedEffect ==
  ASSUME NEW P \in Seq(PieceType), NEW s, \A i \in DOMAIN s : s[i] \in Nat
  PROVE  LET Q == Saved(P, s)
         IN  /\ Q \in Seq(PieceType) /\ DOMAIN Q = DOMAIN P /\ Len(Q) = Len(P)
             /\ \A j \in DOMAIN P : /\ Q[j].busy = P[j].busy
                                    /\ Q[j].downloaded = P[j].downloaded
                                    /\ SamePlace(Q[j], P[j])
<1> DEFINE Q == Saved(P, s)
<1>1. ASSUME NEW j \in DOMAIN P
      PROVE  /\ Q[j] \in PieceType /\ Q[j].busy = P[j].busy
             /\ Q[j].downloaded = P[j].downloaded /\ SamePlace(Q[j], P[j])
  <2>1. P[j] \in PieceType
    OBVIOUS
  <2>2. Q[j] = IF j \in DOMAIN s THEN [P[j] EXCEPT !.persisted = s[j]] ELSE P[j]
    BY DEF Saved
  <2> HIDE DEF Q
  <2> QED
    BY <2>1, <2>2 DEF PieceType, SamePlace
<1>2. Q = [j \in DOMAIN P |-> Q[j]]
  BY DEF Saved
<1>3. DOMAIN P = 1..Len(P) /\ Len(P) \in Nat
  OBVIOUS
<1> HIDE DEF Q
<1>4. Q \in Seq(PieceType) /\ DOMAIN Q = DOMAIN P /\ Len(Q) = Len(P)
  BY <1>1, <1>2, <1>3
<1> QED
  BY <1>1, <1>4 DEF Q

(* `update_chunks` writes what the snapshot says and keeps the place of      *)
(* every row.                                                                *)
LEMMA UpdateEffect ==
  ASSUME NEW R \in Seq(RowType), NEW s, \A i \in DOMAIN s : s[i] \in Nat
  PROVE  LET Q == UpdateChunks(R, s)
         IN  /\ Q \in Seq(RowType) /\ DOMAIN Q = DOMAIN R /\ Len(Q) = Len(R)
             /\ \A j \in DOMAIN R :
                  /\ Q[j].start = R[j].start /\ Q[j].end = R[j].end
                  /\ Q[j].downloaded = IF j \in DOMAIN s THEN s[j] ELSE R[j].downloaded
<1> DEFINE Q == UpdateChunks(R, s)
<1>1. ASSUME NEW j \in DOMAIN R
      PROVE  /\ Q[j] \in RowType /\ Q[j].start = R[j].start /\ Q[j].end = R[j].end
             /\ Q[j].downloaded = IF j \in DOMAIN s THEN s[j] ELSE R[j].downloaded
  <2>1. R[j] \in RowType
    OBVIOUS
  <2>2. Q[j] = IF j \in DOMAIN s THEN [R[j] EXCEPT !.downloaded = s[j]] ELSE R[j]
    BY DEF UpdateChunks
  <2> HIDE DEF Q
  <2> QED
    BY <2>1, <2>2 DEF RowType
<1>2. Q = [j \in DOMAIN R |-> Q[j]]
  BY DEF UpdateChunks
<1>3. DOMAIN R = 1..Len(R) /\ Len(R) \in Nat
  OBVIOUS
<1> HIDE DEF Q
<1>4. Q \in Seq(RowType) /\ DOMAIN Q = DOMAIN R /\ Len(Q) = Len(R)
  BY <1>1, <1>2, <1>3
<1> QED
  BY <1>1, <1>4 DEF Q

-----------------------------------------------------------------------------
(* The invariant of the control *)

(* A worker has its pieces in memory. *)
Running == phase \in {"transfer", "drain", "final", "verify"}
(* A connection that owns its piece. *)
Owns(k) == conn[k].at \in Writing

(* A checkpoint saves numbers. *)
SnapshotTyped == \A i \in DOMAIN snapshot : snapshot[i] \in Nat
(* Without a running transfer there are no pieces and no checkpoint. *)
Idle ==
  ~Running => pieces = <<>> /\ saving = "idle" /\ DOMAIN snapshot = {}
(* Each busy piece has one owner, which knows how much of it is there;       *)
(* connections are only there while the loop runs.                           *)
Owned ==
  /\ phase # "transfer" => \A k \in Conns : conn[k].at = "off"
  /\ \A k \in Conns : Owns(k) =>
       /\ conn[k].piece \in DOMAIN pieces
       /\ pieces[conn[k].piece].busy
       /\ conn[k].downloaded = pieces[conn[k].piece].downloaded
  /\ \A k, l \in Conns :
       Owns(k) /\ Owns(l) /\ conn[k].piece = conn[l].piece => k = l
  /\ \A i \in DOMAIN pieces :
       pieces[i].busy => \E k \in Conns : Owns(k) /\ conn[k].piece = i
(* Whoever reads a body knows whose it is, and writes only where there is    *)
(* room.                                                                     *)
Sources ==
  \A k \in Conns :
    /\ conn[k].at \in {"body", "written"} => conn[k].from \in Versions
    /\ conn[k].at = "written" => HasRoom(k)
(* No piece has more than its length. *)
Fits == \A i \in DOMAIN pieces : pieces[i].len # Unknown => pieces[i].downloaded <= pieces[i].len
(* The rows a transfer is about to load lie end to end. *)
RowsTile == phase \in {"create", "identify"} /\ Total # Unknown => Tiles(rows, Total)
(* Who works on what. OneWriterPerPiece and TypeOK are parts of it; neither  *)
(* is inductive without who owns a busy piece and what its owner has         *)
(* counted.                                                                  *)
Control == TypeOK /\ SnapshotTyped /\ Idle /\ Owned /\ Sources /\ Fits /\ RowsTile

(* What no step of a connection changes. *)
ConnFrame == UNCHANGED <<outside, rows, meta, disk, delivered, loopVars, saveVars, ticks>>
(* A step of one connection, which keeps its piece if it has one. *)
Moves(c, k) ==
  /\ conn' = [conn EXCEPT ![c] = k]
  /\ k \in Connection
  /\ k.at # "off"
  /\ conn[c].at # "off"
  /\ k.at \in Writing <=> Owns(c)
  /\ Owns(c) => k.piece = conn[c].piece /\ k.downloaded = conn[c].downloaded
(* A step that leaves the pieces and the file as they are. *)
Quiet(c) ==
  \E k \in Connection :
    /\ Moves(c, k)
    /\ \/ /\ conn[c].at \in {"request", "asked", "body", "error", "pause"}
          /\ k.at \in {"request", "asked", "error", "pause", "quit"}
       \/ conn[c].at = "claim" /\ k.at = "complete"
    /\ k.error = "refused" => HasOtherWriters(pieces) \/ k.error = conn[c].error
    /\ k.at = "asked" => conn[c].at = "request" /\ ~MustRestart(c)
    /\ UNCHANGED <<pieces, cache, signals>>
    /\ ConnFrame

(* The actions that are such steps: requests, errors, retries and their      *)
(* faults.                                                                   *)
QuietStep(c) ==
  \/ Send(c) \/ Abandon(c) \/ RangeNotSatisfiable(c) \/ Overrun(c)
  \/ NothingToClaim(c) \/ HandleError(c) \/ Retry(c) \/ CancelPause(c)
  \/ NoAnswer(c) \/ WriteFails(c) \/ Break(c)

(* An owner that meets an error is still a connection that owns its piece. *)
LEMMA ErrorType ==
  ASSUME NEW c \in Conns, conn \in [Conns -> Connection], NEW e \in {"transient", "fatal", "cancelled"}, Owns(c)
  PROVE  LET k == [conn[c] EXCEPT !.at = "error", !.error = e, !.from = None]
         IN  /\ k \in Connection
             /\ k.at = "error" /\ k.error # "refused" /\ k.piece = conn[c].piece /\ k.downloaded = conn[c].downloaded
  BY DEF Connection, Writing, Ends, Errors, Owns

(* They are such steps. *)
LEMMA QuietSteps ==
  ASSUME Control, NEW c \in Conns, QuietStep(c)
  PROVE  Quiet(c)
<1> USE DEF OnlyConn, ConnUnchanged, ConnFrame
<1>0. conn \in [Conns -> Connection] /\ conn[c] \in Connection
  BY DEF Control, TypeOK
<1>1. CASE \E e \in {"transient", "fatal", "cancelled"} : Fails(c, e) /\ conn[c].at \in {"request", "asked", "body"} /\ OnlyConn
  <2>1. PICK e \in {"transient", "fatal", "cancelled"} : Fails(c, e) /\ conn[c].at \in {"request", "asked", "body"} /\ OnlyConn
    BY <1>1
  <2> DEFINE k == [conn[c] EXCEPT !.at = "error", !.error = e, !.from = None]
  <2>2. k \in Connection /\ k.at = "error" /\ k.error # "refused" /\ k.piece = conn[c].piece /\ k.downloaded = conn[c].downloaded
    BY <2>1, <1>0, ErrorType DEF Owns, Writing
  <2>3. conn' = [conn EXCEPT ![c] = k]
    BY <2>1 DEF Fails, Goes
  <2> HIDE DEF k
  <2>4. Moves(c, k)
    BY <2>1, <2>2, <2>3 DEF Moves, Owns, Writing
  <2> QED
    BY <2>1, <2>2, <2>4 DEF Quiet
<1>2. CASE Send(c)
  <2> DEFINE k == [conn[c] EXCEPT !.at = "asked"]
  <2>2. k \in Connection /\ k.at = "asked" /\ k.error = conn[c].error /\ k.piece = conn[c].piece /\ k.downloaded = conn[c].downloaded
    BY <1>0 DEF Connection, Writing
  <2>3. conn' = [conn EXCEPT ![c] = k]
    BY <1>2 DEF Send, Goes
  <2> HIDE DEF k
  <2>4. Moves(c, k)
    BY <1>2, <2>2, <2>3 DEF Moves, Owns, Writing, Send
  <2> QED
    BY <1>2, <2>2, <2>4 DEF Quiet, Send
<1>3. CASE NothingToClaim(c)
  <2> DEFINE k == [NoConnection EXCEPT !.at = "complete"]
  <2>2. k \in Connection /\ k.at = "complete" /\ k.error # "refused"
    BY DEF Connection, NoConnection, Writing, Ends, Errors, None
  <2>3. conn' = [conn EXCEPT ![c] = k]
    BY <1>3 DEF NothingToClaim, Goes
  <2> HIDE DEF k
  <2>4. Moves(c, k)
    BY <1>3, <2>2, <2>3 DEF Moves, Owns, Writing, NothingToClaim
  <2> QED
    BY <1>3, <2>2, <2>4 DEF Quiet, NothingToClaim
<1>4. CASE Retry(c)
  <2> DEFINE k == [conn[c] EXCEPT !.at = "request", !.progressed = FALSE]
  <2>2. k \in Connection /\ k.at = "request" /\ k.error = conn[c].error /\ k.piece = conn[c].piece /\ k.downloaded = conn[c].downloaded
    BY <1>0 DEF Connection, Writing
  <2>3. conn' = [conn EXCEPT ![c] = k]
    BY <1>4 DEF Retry, Goes
  <2> HIDE DEF k
  <2>4. Moves(c, k)
    BY <1>4, <2>2, <2>3 DEF Moves, Owns, Writing, Retry
  <2> QED
    BY <1>4, <2>2, <2>4 DEF Quiet, Retry
<1>5. CASE CancelPause(c)
  <2> DEFINE k == [conn[c] EXCEPT !.at = "quit", !.error = "cancelled"]
  <2>2. k \in Connection /\ k.at = "quit" /\ k.error # "refused" /\ k.piece = conn[c].piece /\ k.downloaded = conn[c].downloaded
    BY <1>0 DEF Connection, Writing, Errors
  <2>3. conn' = [conn EXCEPT ![c] = k]
    BY <1>5 DEF CancelPause, Goes
  <2> HIDE DEF k
  <2>4. Moves(c, k)
    BY <1>5, <2>2, <2>3 DEF Moves, Owns, Writing, CancelPause
  <2> QED
    BY <1>5, <2>2, <2>4 DEF Quiet, CancelPause
<1>6. CASE HandleError(c)
  <2>0. RetriesOf(conn[c]) \in Nat
    BY <1>0 DEF RetriesOf, Connection
  <2> DEFINE Fine(k) ==
        /\ k \in Connection /\ k.at \in {"quit", "pause"}
        /\ k.piece = conn[c].piece /\ k.downloaded = conn[c].downloaded
        /\ k.error = "refused" => HasOtherWriters(pieces) \/ k.error = conn[c].error
  <2>1. ASSUME Refused(conn[c]) PROVE Fine([conn[c] EXCEPT !.at = "quit", !.error = "refused"])
    BY <1>0, <2>1 DEF Connection, Writing, Errors, Refused
  <2>2. Fine([conn[c] EXCEPT !.at = "pause", !.error = None, !.retries = RetriesOf(conn[c])])
    BY <1>0, <2>0 DEF Connection, Writing, Errors, None
  <2>3. Fine([conn[c] EXCEPT !.at = "quit"])
    BY <1>0 DEF Connection, Writing
  <2>4. \E k \in Connection : Fine(k) /\ conn' = [conn EXCEPT ![c] = k]
    <3> HIDE DEF Fine
    <3>1. \E k : Fine(k) /\ conn' = [conn EXCEPT ![c] = k]
      BY <1>6, <2>1, <2>2, <2>3 DEF HandleError, Goes
    <3> QED
      BY <3>1 DEF Fine
  <2>5. PICK k \in Connection : Fine(k) /\ conn' = [conn EXCEPT ![c] = k]
    BY <2>4
  <2>6. Moves(c, k)
    BY <1>6, <2>5 DEF Moves, Owns, Writing, HandleError
  <2> QED
    BY <1>6, <2>5, <2>6 DEF Quiet, HandleError
<1>7. CASE Abandon(c) \/ RangeNotSatisfiable(c) \/ Overrun(c) \/ NoAnswer(c) \/ WriteFails(c) \/ Break(c)
  BY <1>1, <1>7 DEF Abandon, RangeNotSatisfiable, Overrun, NoAnswer, WriteFails, Break, Asks
<1> QED
  BY <1>2, <1>3, <1>4, <1>5, <1>6, <1>7 DEF QuietStep

-----------------------------------------------------------------------------
(* Claims and releases *)

(* One connection is replaced. *)
LEMMA ConnReplaced ==
  ASSUME NEW c \in Conns, NEW k \in Connection, conn \in [Conns -> Connection],
         conn' = [conn EXCEPT ![c] = k]
  PROVE  /\ conn' \in [Conns -> Connection] /\ conn'[c] = k
         /\ \A l \in Conns \ {c} : conn'[l] = conn[l]
  OBVIOUS

(* A connection that owns a piece transfers to the database of pieces. *)
LEMMA Transferring ==
  ASSUME Control, NEW c \in Conns, conn[c].at # "off"
  PROVE  phase = "transfer"
  BY DEF Control, Owned

(* A step of a connection keeps Control if it keeps the parts about pieces   *)
(* and connections.                                                          *)
LEMMA ControlKept ==
  ASSUME Control, phase = "transfer", ConnFrame,
         conn' \in [Conns -> Connection], pieces' \in Seq(PieceType),
         DOMAIN pieces' = DOMAIN pieces, cache' \in Seq(Versions \cup {Hole}),
         signals' \in 0..MaxSignals, Owned', Sources', Fits'
  PROVE  Control'
<1>1. TypeOK'
  BY DEF Control, TypeOK, ConnFrame, outside, serverVars, loopVars, saveVars, PieceType
<1>2. SnapshotTyped' /\ Idle' /\ RowsTile'
  BY DEF Control, SnapshotTyped, Idle, RowsTile, Running, ConnFrame, loopVars, saveVars
<1> QED
  BY <1>1, <1>2 DEF Control

(* The owner of a piece goes on with it. *)
LEMMA OwnerGoesOn ==
  ASSUME Control, NEW c \in Conns, NEW k \in Connection, Owns(c),
         conn' = [conn EXCEPT ![c] = k], k.at \in Writing, k.piece = conn[c].piece,
         k.downloaded = pieces'[k.piece].downloaded,
         DOMAIN pieces' = DOMAIN pieces, phase' = "transfer",
         \A i \in DOMAIN pieces : pieces'[i].busy = pieces[i].busy,
         \A i \in DOMAIN pieces \ {k.piece} : pieces'[i].downloaded = pieces[i].downloaded
  PROVE  Owned'
<1>1. conn'[c] = k /\ \A l \in Conns \ {c} : conn'[l] = conn[l]
  BY ConnReplaced DEF Control, TypeOK
<1>2. Owns(c)' /\ \A l \in Conns \ {c} : Owns(l)' = Owns(l)
  BY <1>1 DEF Owns
<1>3. Owned
  BY DEF Control
<1>4. \A l \in Conns : (Owns(l)' <=> Owns(l)) /\ conn'[l].piece = conn[l].piece
  BY <1>1, <1>2 DEF Owns
<1>5. ASSUME NEW l \in Conns, Owns(l)'
      PROVE  /\ conn'[l].piece \in DOMAIN pieces'
             /\ pieces'[conn'[l].piece].busy
             /\ conn'[l].downloaded = pieces'[conn'[l].piece].downloaded
  <2>1. CASE l = c
    BY <1>1, <1>3, <2>1 DEF Owned
  <2>2. CASE l # c
    <3>1. conn[l].piece # conn[c].piece
      BY <1>3, <1>4, <1>5, <2>2 DEF Owned
    <3> QED
      BY <1>1, <1>3, <1>4, <1>5, <2>2, <3>1 DEF Owned
  <2> QED
    BY <2>1, <2>2
<1>6. \A i \in DOMAIN pieces' : pieces'[i].busy => \E l \in Conns : Owns(l)' /\ conn'[l].piece = i
  BY <1>3, <1>4 DEF Owned
<1>7. \A l, m \in Conns : Owns(l)' /\ Owns(m)' /\ conn'[l].piece = conn'[m].piece => l = m
  BY <1>3, <1>4 DEF Owned
<1> QED
  BY <1>5, <1>6, <1>7 DEF Owned, Owns

(* A connection that owns nothing goes on. *)
LEMMA OthersGoOn ==
  ASSUME Control, NEW c \in Conns, NEW k \in Connection, ~Owns(c),
         conn' = [conn EXCEPT ![c] = k], k.at \notin Writing,
         pieces' = pieces, phase' = "transfer"
  PROVE  Owned'
<1>1. conn'[c] = k /\ \A l \in Conns \ {c} : conn'[l] = conn[l]
  BY ConnReplaced DEF Control, TypeOK
<1>2. \A l \in Conns : Owns(l)' = Owns(l) /\ (Owns(l) => conn'[l] = conn[l])
  BY <1>1 DEF Owns
<1> QED
  BY <1>2 DEF Control, Owned, Owns

(* A connection without a piece takes one. *)
Claims(c) ==
  /\ conn[c].at \in {"off", "claim"}
  /\ Claimable(pieces)
  /\ pieces' = Claim(pieces)
  /\ conn' = [conn EXCEPT ![c] =
                [Loaded(NoConnection, ToClaim(pieces)) EXCEPT !.at = "request"]]
  /\ phase = "transfer"
  /\ UNCHANGED cache
  /\ ConnFrame

(* What the claimant and the piece look like then. *)
LEMMA ClaimsEffect ==
  ASSUME Control, NEW c \in Conns, Claims(c)
  PROVE  LET i == ToClaim(pieces)
         IN  /\ i \in DOMAIN pieces /\ ~pieces[i].busy /\ ~Complete(pieces[i])
             /\ pieces' \in Seq(PieceType) /\ DOMAIN pieces' = DOMAIN pieces
             /\ Len(pieces') = Len(pieces)
             /\ \A j \in DOMAIN pieces \ {i} : pieces'[j] = pieces[j]
             /\ \A j \in DOMAIN pieces :
                  pieces'[j].downloaded = pieces[j].downloaded /\ SamePlace(pieces'[j], pieces[j])
             /\ pieces'[i].busy
             /\ conn' \in [Conns -> Connection]
             /\ conn'[c].at = "request" /\ conn'[c].piece = i /\ conn'[c].error = None
             /\ conn'[c].downloaded = pieces[i].downloaded /\ conn'[c].from = None
             /\ \A l \in Conns \ {c} : conn'[l] = conn[l]
<1> DEFINE i == ToClaim(pieces)
<1>1. pieces \in Seq(PieceType) /\ conn \in [Conns -> Connection]
  BY DEF Control, TypeOK, PieceType
<1>2. /\ i \in DOMAIN pieces /\ ~pieces[i].busy /\ ~Complete(pieces[i])
      /\ pieces' \in Seq(PieceType) /\ DOMAIN pieces' = DOMAIN pieces
      /\ Len(pieces') = Len(pieces)
      /\ \A j \in DOMAIN pieces \ {i} : pieces'[j] = pieces[j]
      /\ pieces'[i].busy /\ pieces'[i].downloaded = pieces[i].downloaded
      /\ SamePlace(pieces'[i], pieces[i])
  BY <1>1, ClaimEffect DEF Control, Fits, Claims
<1> DEFINE k == [Loaded(NoConnection, i) EXCEPT !.at = "request"]
<1>3. conn' = [conn EXCEPT ![c] = k]
  BY DEF Claims
<1> HIDE DEF i
<1>4. i \in Nat /\ pieces[i].downloaded \in Nat
  BY <1>1, <1>2, PieceFields
<1>5. /\ k \in Connection /\ k.at = "request" /\ k.piece = i /\ k.error = None
      /\ k.downloaded = pieces[i].downloaded /\ k.from = None
  BY <1>4 DEF Loaded, NoConnection, Connection, Writing, Errors
<1> HIDE DEF k
<1>6. /\ conn' \in [Conns -> Connection] /\ conn'[c] = k
      /\ \A l \in Conns \ {c} : conn'[l] = conn[l]
  BY <1>1, <1>3, <1>5, ConnReplaced
<1>7. \A j \in DOMAIN pieces :
        pieces'[j].downloaded = pieces[j].downloaded /\ SamePlace(pieces'[j], pieces[j])
  BY <1>2 DEF SamePlace
<1> QED
  BY <1>2, <1>5, <1>6, <1>7 DEF i

(* `claim` gives a piece to one connection only. *)
LEMMA ClaimsControl ==
  ASSUME Control, NEW c \in Conns, Claims(c), signals' \in 0..MaxSignals
  PROVE  Control'
<1> DEFINE i == ToClaim(pieces)
<1>1. /\ i \in DOMAIN pieces /\ ~pieces[i].busy
      /\ pieces' \in Seq(PieceType) /\ DOMAIN pieces' = DOMAIN pieces
      /\ \A j \in DOMAIN pieces \ {i} : pieces'[j] = pieces[j]
      /\ pieces'[i].busy /\ pieces'[i].downloaded = pieces[i].downloaded
      /\ SamePlace(pieces'[i], pieces[i])
      /\ conn' \in [Conns -> Connection]
      /\ conn'[c].at = "request" /\ conn'[c].piece = i
      /\ conn'[c].downloaded = pieces[i].downloaded
      /\ \A l \in Conns \ {c} : conn'[l] = conn[l]
  BY ClaimsEffect
<1> HIDE DEF i
<1>2. phase = "transfer" /\ phase' = "transfer" /\ ~Owns(c) /\ Owned
  BY DEF Claims, ConnFrame, loopVars, Owns, Writing, Control
<1>3. Owns(c)' /\ \A l \in Conns \ {c} : Owns(l)' = Owns(l)
  BY <1>1 DEF Owns, Writing
<1>4. \A l \in Conns : Owns(l) => conn[l].piece # i
  BY <1>1, <1>2 DEF Owned
<1>5. Owned'
  <2>1. ASSUME NEW l \in Conns, Owns(l)'
        PROVE  /\ conn'[l].piece \in DOMAIN pieces'
               /\ pieces'[conn'[l].piece].busy
               /\ conn'[l].downloaded = pieces'[conn'[l].piece].downloaded
    <3>1. CASE l = c
      BY <1>1, <3>1
    <3>2. CASE l # c
      BY <1>1, <1>2, <1>3, <1>4, <2>1, <3>2 DEF Owned
    <3> QED
      BY <3>1, <3>2
  <2>2. \A l, m \in Conns : Owns(l)' /\ Owns(m)' /\ conn'[l].piece = conn'[m].piece => l = m
    BY <1>1, <1>2, <1>3, <1>4 DEF Owned
  <2>3. ASSUME NEW j \in DOMAIN pieces', pieces'[j].busy
        PROVE  \E l \in Conns : Owns(l)' /\ conn'[l].piece = j
    <3>1. CASE j = i
      BY <1>1, <1>3, <3>1
    <3>2. CASE j # i
      <4>1. PICK l \in Conns : Owns(l) /\ conn[l].piece = j
        BY <1>1, <1>2, <2>3, <3>2 DEF Owned
      <4>2. l # c
        BY <1>2, <4>1
      <4> QED
        BY <1>1, <1>3, <4>1, <4>2
    <3> QED
      BY <3>1, <3>2
  <2> QED
    BY <1>2, <2>1, <2>2, <2>3 DEF Owned, Owns
<1>6. Sources'
  <2> SUFFICES ASSUME NEW l \in Conns, conn'[l].at \in {"body", "written"}
               PROVE  conn'[l].from \in Versions /\ (conn'[l].at = "written" => HasRoom(l)')
    BY DEF Sources
  <2>1. l # c /\ conn'[l] = conn[l]
    BY <1>1
  <2>2. Owns(l) /\ conn[l].piece # i
    BY <1>4, <2>1 DEF Owns, Writing
  <2>3. pieces'[conn[l].piece] = pieces[conn[l].piece]
    BY <1>1, <1>2, <2>2 DEF Owned
  <2> QED
    BY <2>1, <2>3 DEF Control, Sources, HasRoom, Piece
<1>7. Fits'
  <2> SUFFICES ASSUME NEW j \in DOMAIN pieces', pieces'[j].len # Unknown
               PROVE  pieces'[j].downloaded <= pieces'[j].len
    BY DEF Fits
  <2> QED
    BY <1>1 DEF Control, Fits, SamePlace
<1>8. cache' \in Seq(Versions \cup {Hole})
  BY DEF Claims, Control, TypeOK
<1> QED
  BY <1>1, <1>2, <1>5, <1>6, <1>7, <1>8, ControlKept DEF Claims

(* A connection gives its piece back. *)
Releases(c) ==
  /\ conn[c].at \in {"fetched", "quit"}
  /\ pieces' = Release(pieces, conn[c].piece)
  /\ \E k \in Connection :
       /\ conn' = [conn EXCEPT ![c] = k]
       /\ IF conn[c].at = "fetched" THEN k.at = "claim"
          ELSE /\ k.at \in {"refused", "cancelled", "failed"}
               /\ k.at = "refused" => conn[c].error = "refused"
  /\ UNCHANGED <<cache, signals>>
  /\ ConnFrame

(* What the piece and the connection that gave it back look like then. *)
LEMMA ReleasesEffect ==
  ASSUME Control, NEW c \in Conns, Releases(c)
  PROVE  LET i == conn[c].piece
         IN  /\ i \in DOMAIN pieces /\ pieces[i].busy
             /\ pieces' \in Seq(PieceType) /\ DOMAIN pieces' = DOMAIN pieces
             /\ Len(pieces') = Len(pieces)
             /\ \A j \in DOMAIN pieces \ {i} : pieces'[j] = pieces[j]
             /\ \A j \in DOMAIN pieces :
                  pieces'[j].downloaded = pieces[j].downloaded /\ SamePlace(pieces'[j], pieces[j])
             /\ ~pieces'[i].busy
             /\ Owns(c)
             /\ conn' \in [Conns -> Connection]
             /\ conn'[c].at \in {"claim", "refused", "cancelled", "failed"}
             /\ conn'[c].at = "claim" <=> conn[c].at = "fetched"
             /\ conn'[c].at = "refused" => conn[c].error = "refused"
             /\ \A l \in Conns \ {c} : conn'[l] = conn[l]
<1> DEFINE i == conn[c].piece
<1>1. pieces \in Seq(PieceType) /\ conn \in [Conns -> Connection]
  BY DEF Control, TypeOK, PieceType
<1>2. Owns(c) /\ i \in DOMAIN pieces /\ pieces[i].busy
  BY DEF Control, Owned, Releases, Owns, Writing
<1>3. pieces' = SetBusy(pieces, i, FALSE)
  BY DEF Releases, Release, SetBusy
<1> HIDE DEF i
<1>4. /\ pieces' \in Seq(PieceType) /\ DOMAIN pieces' = DOMAIN pieces
      /\ Len(pieces') = Len(pieces)
      /\ \A j \in DOMAIN pieces \ {i} : pieces'[j] = pieces[j]
      /\ pieces'[i].busy = FALSE /\ pieces'[i].downloaded = pieces[i].downloaded
      /\ SamePlace(pieces'[i], pieces[i])
  <2>1. FALSE \in BOOLEAN
    OBVIOUS
  <2>2. LET Q == SetBusy(pieces, i, FALSE)
        IN  /\ Q \in Seq(PieceType) /\ DOMAIN Q = DOMAIN pieces /\ Len(Q) = Len(pieces)
            /\ \A j \in DOMAIN pieces \ {i} : Q[j] = pieces[j]
            /\ Q[i].busy = FALSE /\ Q[i].downloaded = pieces[i].downloaded
            /\ SamePlace(Q[i], pieces[i])
    BY ONLY <1>1, <1>2, <2>1, BusyEffect
  <2> QED
    BY <1>3, <2>2
<1>5. PICK k \in Connection :
        /\ conn' = [conn EXCEPT ![c] = k]
        /\ IF conn[c].at = "fetched" THEN k.at = "claim"
           ELSE /\ k.at \in {"refused", "cancelled", "failed"}
                /\ k.at = "refused" => conn[c].error = "refused"
  BY DEF Releases
<1>6. /\ conn' \in [Conns -> Connection] /\ conn'[c] = k
      /\ \A l \in Conns \ {c} : conn'[l] = conn[l]
  BY <1>1, <1>5, ConnReplaced
<1>7. \A j \in DOMAIN pieces :
        pieces'[j].downloaded = pieces[j].downloaded /\ SamePlace(pieces'[j], pieces[j])
  BY <1>4 DEF SamePlace
<1> QED
  BY <1>2, <1>4, <1>5, <1>6, <1>7 DEF i

(* `release` leaves no piece busy without an owner. *)
LEMMA ReleasesControl ==
  ASSUME Control, NEW c \in Conns, Releases(c)
  PROVE  Control'
<1> DEFINE i == conn[c].piece
<1>1. /\ i \in DOMAIN pieces
      /\ pieces' \in Seq(PieceType) /\ DOMAIN pieces' = DOMAIN pieces
      /\ \A j \in DOMAIN pieces \ {i} : pieces'[j] = pieces[j]
      /\ \A j \in DOMAIN pieces :
           pieces'[j].downloaded = pieces[j].downloaded /\ SamePlace(pieces'[j], pieces[j])
      /\ ~pieces'[i].busy /\ Owns(c)
      /\ conn' \in [Conns -> Connection]
      /\ conn'[c].at \in {"claim", "refused", "cancelled", "failed"}
      /\ \A l \in Conns \ {c} : conn'[l] = conn[l]
  BY ReleasesEffect
<1>2. phase = "transfer" /\ phase' = "transfer" /\ Owned
  BY <1>1, Transferring DEF Releases, ConnFrame, loopVars, Control
<1>3. ~Owns(c)' /\ \A l \in Conns \ {c} : (Owns(l)' <=> Owns(l)) /\ (Owns(l) => conn[l].piece # i)
  BY <1>1, <1>2 DEF Owns, Writing, Owned
<1>4. Owned'
  <2>1. ASSUME NEW l \in Conns, Owns(l)'
        PROVE  /\ conn'[l].piece \in DOMAIN pieces'
               /\ pieces'[conn'[l].piece].busy
               /\ conn'[l].downloaded = pieces'[conn'[l].piece].downloaded
    BY <1>1, <1>2, <1>3, <2>1 DEF Owned
  <2>2. \A l, m \in Conns : Owns(l)' /\ Owns(m)' /\ conn'[l].piece = conn'[m].piece => l = m
    BY <1>1, <1>2, <1>3 DEF Owned
  <2>3. ASSUME NEW j \in DOMAIN pieces', pieces'[j].busy
        PROVE  \E l \in Conns : Owns(l)' /\ conn'[l].piece = j
    <3>1. j # i /\ pieces[j].busy
      BY <1>1, <2>3
    <3>2. PICK l \in Conns : Owns(l) /\ conn[l].piece = j
      BY <1>1, <1>2, <3>1 DEF Owned
    <3> QED
      BY <1>1, <1>3, <3>1, <3>2
  <2> QED
    BY <1>2, <2>1, <2>2, <2>3 DEF Owned, Owns
<1>5. Sources'
  <2> SUFFICES ASSUME NEW l \in Conns, conn'[l].at \in {"body", "written"}
               PROVE  conn'[l].from \in Versions /\ (conn'[l].at = "written" => HasRoom(l)')
    BY DEF Sources
  <2>1. l # c /\ conn'[l] = conn[l]
    BY <1>1
  <2>2. Owns(l) /\ conn[l].piece # i
    BY <1>3, <2>1 DEF Owns, Writing
  <2>3. pieces'[conn[l].piece] = pieces[conn[l].piece]
    BY <1>1, <1>2, <2>2 DEF Owned
  <2> QED
    BY <2>1, <2>3 DEF Control, Sources, HasRoom, Piece
<1>6. Fits'
  BY <1>1 DEF Control, Fits, SamePlace
<1>7. cache' \in Seq(Versions \cup {Hole}) /\ signals' \in 0..MaxSignals
  BY DEF Releases, Control, TypeOK
<1> HIDE DEF i
<1> QED
  BY <1>1, <1>2, <1>4, <1>5, <1>6, <1>7, ControlKept DEF Releases

(* The actions that give a piece back. *)
LEMMA ReleaseSteps ==
  ASSUME Control, NEW c \in Conns, GiveBack(c) \/ Quit(c)
  PROVE  Releases(c)
<1>1. CASE GiveBack(c)
  <2> DEFINE k == [NoConnection EXCEPT !.at = "claim"]
  <2>1. k \in Connection /\ k.at = "claim"
    BY DEF NoConnection, Connection, Errors, Writing
  <2>2. conn' = [conn EXCEPT ![c] = k]
    BY <1>1 DEF GiveBack, Goes
  <2> HIDE DEF k
  <2> QED
    BY <1>1, <2>1, <2>2 DEF GiveBack, Releases, OnlyPieces, ConnUnchanged, ConnFrame
<1>2. CASE Quit(c)
  <2> DEFINE k == [NoConnection EXCEPT !.at =
                     IF conn[c].error \in {"refused", "cancelled"} THEN conn[c].error
                                                                   ELSE "failed"]
  <2>1. /\ k \in Connection /\ k.at \in {"refused", "cancelled", "failed"}
        /\ k.at = "refused" => conn[c].error = "refused"
    BY DEF NoConnection, Connection, Errors, Ends
  <2>2. conn' = [conn EXCEPT ![c] = k]
    BY <1>2 DEF Quit, Goes
  <2> HIDE DEF k
  <2>3. conn[c].at = "quit"
    BY <1>2 DEF Quit
  <2> QED
    BY <1>2, <2>1, <2>2, <2>3 DEF Quit, Releases, OnlyPieces, ConnUnchanged, ConnFrame
<1> QED
  BY <1>1, <1>2

(* The actions that claim one. *)
LEMMA ClaimSteps ==
  ASSUME Control, NEW c \in Conns,
         SpawnFirst(c) \/ ClaimNext(c) \/ (phase = "transfer" /\ Spawn(c) /\ UNCHANGED <<outside, diskVars, loopVars, saveVars, ticks>>)
  PROVE  Claims(c)
<1>1. ClaimNext(c) => phase = "transfer"
  BY Transferring DEF ClaimNext
<1> QED
  BY <1>1 DEF SpawnFirst, ClaimNext, Spawn, Claims, Goes, OnlyPieces, ConnUnchanged, ConnFrame, diskVars, loopVars, saveVars, outside

-----------------------------------------------------------------------------
(* Steps that leave the pieces alone *)

(* One connection changes, and the others do not. *)
Alone(c) ==
  /\ conn' \in [Conns -> Connection]
  /\ \A l \in Conns \ {c} : conn'[l] = conn[l]
(* The connection goes on with its piece and what it has of it. *)
SamePiece(c) ==
  conn'[c].piece = conn[c].piece /\ conn'[c].downloaded = conn[c].downloaded

(* The piece of an owner. *)
LEMMA OwnedPiece ==
  ASSUME Control, NEW c \in Conns, Owns(c)
  PROVE  /\ conn[c].piece \in DOMAIN pieces /\ Piece(c).busy
         /\ pieces \in Seq(PieceType) /\ Piece(c) \in PieceType
         /\ conn[c].downloaded = Piece(c).downloaded
         /\ conn[c].downloaded \in Nat /\ Piece(c).start \in Nat /\ Offset(c) \in Nat
         /\ Piece(c).len \in Nat \cup {Unknown}
<1>1. pieces \in Seq(PieceType)
  BY DEF Control, TypeOK, PieceType
<1>2. /\ conn[c].piece \in DOMAIN pieces /\ Piece(c).busy
      /\ conn[c].downloaded = Piece(c).downloaded
  BY DEF Control, Owned, Piece
<1>3. Piece(c) \in PieceType
  BY <1>1, <1>2 DEF Piece
<1> QED
  BY <1>1, <1>2, <1>3, PieceFields DEF Offset

(* What a quiet step does to its connection. *)
LEMMA QuietEffect ==
  ASSUME Control, NEW c \in Conns, Quiet(c)
  PROVE  /\ Alone(c) /\ phase = "transfer" /\ phase' = "transfer"
         /\ (Owns(c)' <=> Owns(c)) /\ (Owns(c) => SamePiece(c))
         /\ \/ /\ conn[c].at \in {"request", "asked", "body", "error", "pause"}
               /\ conn'[c].at \in {"request", "asked", "error", "pause", "quit"}
            \/ conn[c].at = "claim" /\ conn'[c].at = "complete"
         /\ conn'[c].at = "asked" => conn[c].at = "request" /\ ~MustRestart(c)
         /\ conn'[c].error = "refused" => HasOtherWriters(pieces) \/ conn'[c].error = conn[c].error
<1>1. PICK k \in Connection :
    /\ Moves(c, k)
    /\ \/ /\ conn[c].at \in {"request", "asked", "body", "error", "pause"}
          /\ k.at \in {"request", "asked", "error", "pause", "quit"}
       \/ conn[c].at = "claim" /\ k.at = "complete"
    /\ k.error = "refused" => HasOtherWriters(pieces) \/ k.error = conn[c].error
    /\ k.at = "asked" => conn[c].at = "request" /\ ~MustRestart(c)
    /\ UNCHANGED <<pieces, cache, signals>>
    /\ ConnFrame
  BY DEF Quiet
<1>2. conn \in [Conns -> Connection] /\ conn' = [conn EXCEPT ![c] = k]
  BY <1>1 DEF Control, TypeOK, Moves
<1>3. conn'[c] = k /\ Alone(c)
  BY <1>2, ConnReplaced DEF Alone
<1>4. phase = "transfer" /\ phase' = "transfer"
  BY <1>1, Transferring DEF ConnFrame, loopVars
<1>5. Owns(c)' <=> Owns(c)
  BY <1>1, <1>3 DEF Owns, Moves
<1> QED
  BY <1>1, <1>3, <1>4, <1>5 DEF Moves, SamePiece

(* A quiet step keeps Control. *)
LEMMA QuietControl ==
  ASSUME Control, NEW c \in Conns, Quiet(c)
  PROVE  Control'
<1>1. /\ Alone(c) /\ phase = "transfer" /\ phase' = "transfer"
      /\ (Owns(c)' <=> Owns(c)) /\ (Owns(c) => SamePiece(c))
      /\ conn'[c].at \in {"request", "asked", "error", "pause", "quit", "complete"}
  BY QuietEffect
<1>2. PICK k \in Connection : Moves(c, k) /\ UNCHANGED <<pieces, cache, signals>> /\ ConnFrame
  BY DEF Quiet
<1>3. conn' = [conn EXCEPT ![c] = k] /\ k.at \in Writing <=> Owns(c)
  BY <1>2 DEF Moves
<1>4. Owned'
  <2>1. CASE Owns(c)
    BY <1>1, <1>2, <2>1, OwnerGoesOn DEF Moves, Control, Owned
  <2>2. CASE ~Owns(c)
    BY <1>1, <1>2, <2>2, OthersGoOn DEF Moves
  <2> QED
    BY <2>1, <2>2
<1>5. Sources'
  BY <1>1, <1>2 DEF Control, Sources, Alone, HasRoom, Piece
<1>6. Fits'
  BY <1>2 DEF Control, Fits
<1>7. /\ pieces' \in Seq(PieceType) /\ cache' \in Seq(Versions \cup {Hole})
      /\ signals' \in 0..MaxSignals /\ conn' \in [Conns -> Connection]
  BY <1>1, <1>2 DEF Control, TypeOK, PieceType, Alone
<1> QED
  BY <1>1, <1>2, <1>4, <1>5, <1>6, <1>7, ControlKept

(* The owner of a piece, and the file, go on; the pieces stay. *)
OwnerKeeps(c) ==
  /\ Alone(c) /\ Owns(c) /\ Owns(c)' /\ SamePiece(c)
  /\ conn'[c].error = conn[c].error
  /\ UNCHANGED pieces
  /\ phase = "transfer" /\ phase' = "transfer"

(* So does a step of an owner that touches the file only. *)
LEMMA OwnerKeepsControl ==
  ASSUME Control, NEW c \in Conns, OwnerKeeps(c), ConnFrame,
         conn' = [conn EXCEPT ![c] = conn'[c]],
         cache' \in Seq(Versions \cup {Hole}), signals' \in 0..MaxSignals,
         conn'[c].at \in {"body", "written"} => conn'[c].from \in Versions,
         conn'[c].at = "written" => HasRoom(c)
  PROVE  Control'
<1>1. conn'[c] \in Connection /\ conn' \in [Conns -> Connection]
  BY DEF OwnerKeeps, Alone
<1>2. /\ conn'[c].at \in Writing /\ conn'[c].piece = conn[c].piece
      /\ conn'[c].downloaded = conn[c].downloaded
      /\ Owned /\ Owns(c)
  BY DEF OwnerKeeps, Owns, SamePiece, Control
<1>3. pieces' = pieces /\ phase' = "transfer" /\ phase = "transfer"
  BY DEF OwnerKeeps
<1>4. conn'[c].downloaded = pieces[conn'[c].piece].downloaded
  BY <1>2 DEF Owned
<1>5. Owned'
  BY <1>1, <1>2, <1>3, <1>4, OwnerGoesOn
<1>6. Sources'
  BY <1>2, <1>3 DEF Control, Sources, OwnerKeeps, Alone, HasRoom, Piece
<1>7. Fits' /\ pieces' \in Seq(PieceType)
  BY <1>3 DEF Control, Fits, TypeOK, PieceType
<1> QED
  BY <1>1, <1>3, <1>5, <1>6, <1>7, ControlKept

(* A stream that cannot be resumed begins again, `truncate`. *)
LEMMA RestartFirstEffect ==
  ASSUME Control, NEW c \in Conns, RestartFirst(c)
  PROVE  /\ OwnerKeeps(c) /\ conn'[c].at = "restart" /\ conn'[c].from = conn[c].from
         /\ conn' = [conn EXCEPT ![c] = conn'[c]]
         /\ ConnFrame /\ UNCHANGED signals
<1> DEFINE k == [conn[c] EXCEPT !.at = "restart"]
<1>1. conn \in [Conns -> Connection] /\ conn[c] \in Connection /\ conn[c].at = "request"
  BY DEF Control, TypeOK, RestartFirst
<1>2. /\ k \in Connection /\ k.at = "restart" /\ k.from = conn[c].from /\ k.piece = conn[c].piece
      /\ k.downloaded = conn[c].downloaded /\ k.error = conn[c].error
  BY <1>1 DEF Connection, Writing
<1>3. conn' = [conn EXCEPT ![c] = k]
  BY DEF RestartFirst, Goes
<1> HIDE DEF k
<1>4. conn'[c] = k /\ Alone(c)
  BY <1>1, <1>2, <1>3, ConnReplaced DEF Alone
<1>5. phase = "transfer"
  BY <1>1, Transferring
<1> QED
  BY <1>1, <1>2, <1>3, <1>4, <1>5
     DEF OwnerKeeps, RestartFirst, OnlyFile, ConnUnchanged, ConnFrame, loopVars, Owns, Writing, SamePiece

(* A 206 with the right validator is read. *)
LEMMA PartialContentEffect ==
  ASSUME Control, NEW c \in Conns, PartialContent(c)
  PROVE  /\ OwnerKeeps(c) /\ conn'[c].at = "body" /\ conn'[c].from = server.version
         /\ conn' = [conn EXCEPT ![c] = conn'[c]]
         /\ ConnFrame /\ UNCHANGED cache
<1> DEFINE k == [conn[c] EXCEPT !.at = "body", !.from = server.version]
<1>1. conn \in [Conns -> Connection] /\ conn[c] \in Connection /\ conn[c].at = "asked"
      /\ server.version \in Versions
  BY TransferAssumption DEF Control, TypeOK, PartialContent, Asks
<1>2. /\ k \in Connection /\ k.at = "body" /\ k.from = server.version /\ k.piece = conn[c].piece
      /\ k.downloaded = conn[c].downloaded /\ k.error = conn[c].error
  BY <1>1 DEF Connection, Writing
<1>3. conn' = [conn EXCEPT ![c] = k]
  BY DEF PartialContent, Goes
<1> HIDE DEF k
<1>4. conn'[c] = k /\ Alone(c)
  BY <1>1, <1>2, <1>3, ConnReplaced DEF Alone
<1>5. phase = "transfer"
  BY <1>1, Transferring
<1> QED
  BY <1>1, <1>2, <1>3, <1>4, <1>5
     DEF OwnerKeeps, PartialContent, ConnUnchanged, ConnFrame, loopVars, Owns, Writing, SamePiece

(* A whole body is of no use, or it is taken. *)
LEMMA WholeBodyEffect ==
  ASSUME Control, NEW c \in Conns, WholeBody(c)
  PROVE  \/ Quiet(c)
         \/ /\ OwnerKeeps(c) /\ conn'[c].from = server.version
            /\ conn'[c].at = IF Ranged(c) THEN "restart" ELSE "body"
            /\ cache' = IF Ranged(c) THEN Truncated ELSE cache
            /\ conn' = [conn EXCEPT ![c] = conn'[c]]
            /\ ConnFrame /\ UNCHANGED signals
            /\ ~ServesRange(c) /\ ~RequireRange
<1>1. conn \in [Conns -> Connection] /\ conn[c] \in Connection /\ conn[c].at = "asked"
      /\ server.version \in Versions
  BY TransferAssumption DEF Control, TypeOK, WholeBody, Asks
<1>2. phase = "transfer"
  BY <1>1, Transferring
<1>3. CASE Fails(c, "fatal") /\ UNCHANGED cache
  <2> DEFINE k == [conn[c] EXCEPT !.at = "error", !.error = "fatal", !.from = None]
  <2>1. /\ k \in Connection /\ k.at = "error" /\ k.error # "refused" /\ k.piece = conn[c].piece
        /\ k.downloaded = conn[c].downloaded
    BY <1>1, ErrorType DEF Owns, Writing
  <2>2. conn' = [conn EXCEPT ![c] = k]
    BY <1>3 DEF Fails, Goes
  <2> HIDE DEF k
  <2>3. Moves(c, k)
    BY <1>1, <2>1, <2>2 DEF Moves, Owns, Writing
  <2> QED
    BY <1>1, <1>3, <2>1, <2>3 DEF WholeBody, OnlyFile, ConnUnchanged, ConnFrame, Quiet
<1>4. CASE /\ \E lengthKnown \in BOOLEAN : ~Unfit(lengthKnown)
           /\ cache' = IF Ranged(c) THEN Truncated ELSE cache
           /\ Goes(c, [conn[c] EXCEPT !.at = IF Ranged(c) THEN "restart" ELSE "body",
                                      !.from = server.version])
  <2> DEFINE k == [conn[c] EXCEPT !.at = IF Ranged(c) THEN "restart" ELSE "body",
                                  !.from = server.version]
  <2>1. /\ k \in Connection /\ k.at = (IF Ranged(c) THEN "restart" ELSE "body")
        /\ k.from = server.version /\ k.piece = conn[c].piece
        /\ k.downloaded = conn[c].downloaded /\ k.error = conn[c].error
    BY <1>1 DEF Connection, Writing
  <2>2. conn' = [conn EXCEPT ![c] = k]
    BY <1>4 DEF Goes
  <2> HIDE DEF k
  <2>3. conn'[c] = k /\ Alone(c)
    BY <1>1, <2>1, <2>2, ConnReplaced DEF Alone
  <2>4. ~RequireRange
    BY <1>4 DEF Unfit
  <2> QED
    BY <1>1, <1>2, <1>4, <2>1, <2>2, <2>3, <2>4
       DEF OwnerKeeps, WholeBody, OnlyFile, ConnUnchanged, ConnFrame, loopVars, Owns, Writing, SamePiece
<1> QED
  BY <1>3, <1>4 DEF WholeBody

(* `write_all_at` puts one block where the connection is. *)
LEMMA WriteEffect ==
  ASSUME Control, NEW c \in Conns, Write(c)
  PROVE  /\ OwnerKeeps(c) /\ conn'[c].at = "written" /\ conn'[c].from = conn[c].from
         /\ conn[c].from \in Versions
         /\ conn' = [conn EXCEPT ![c] = conn'[c]]
         /\ Offset(c) \in Nat /\ cache' = WriteAt(cache, Offset(c), conn[c].from)
         /\ ConnFrame /\ UNCHANGED signals
<1> DEFINE k == [conn[c] EXCEPT !.at = "written"]
<1>1. conn \in [Conns -> Connection] /\ conn[c] \in Connection /\ conn[c].at = "body"
      /\ conn[c].from \in Versions
  BY DEF Control, TypeOK, Write, Sources
<1>2. /\ k \in Connection /\ k.at = "written" /\ k.from = conn[c].from /\ k.piece = conn[c].piece
      /\ k.downloaded = conn[c].downloaded /\ k.error = conn[c].error
  BY <1>1 DEF Connection, Writing
<1>3. conn' = [conn EXCEPT ![c] = k]
  BY DEF Write, Goes
<1> HIDE DEF k
<1>4. conn'[c] = k /\ Alone(c)
  BY <1>1, <1>2, <1>3, ConnReplaced DEF Alone
<1>5. phase = "transfer"
  BY <1>1, Transferring
<1>6. Owns(c)
  BY <1>1 DEF Owns, Writing
<1>7. Offset(c) \in Nat
  BY <1>6, OwnedPiece
<1> QED
  BY <1>1, <1>2, <1>3, <1>4, <1>5, <1>6, <1>7
     DEF OwnerKeeps, Write, OnlyFile, ConnUnchanged, ConnFrame, loopVars, Owns, Writing, SamePiece

(* The file after a block is written: nothing else changes, and what was     *)
(* beyond its end is a hole.                                                 *)
LEMMA WriteAtEffect ==
  ASSUME NEW f \in Seq(Versions \cup {Hole}), NEW o \in Nat, NEW y \in Versions
  PROVE  LET g == WriteAt(f, o, y)
         IN  /\ g \in Seq(Versions \cup {Hole})
             /\ Len(g) = IF Len(f) > o THEN Len(f) ELSE o + 1
             /\ g[o + 1] = y
             /\ \A i \in 1..Len(f) : i # o + 1 => g[i] = f[i]
<1> DEFINE n == IF Len(f) > o THEN Len(f) ELSE o + 1
<1>1. Len(f) \in Nat /\ n \in Nat /\ Max({Len(f), o + 1}) = n
  BY MaxOfTwo
<1>2. WriteAt(f, o, y) = [i \in 1..n |-> IF i = o + 1 THEN y ELSE IF i <= Len(f) THEN f[i] ELSE Hole]
  BY <1>1 DEF WriteAt
<1>3. o + 1 \in 1..n /\ 1..Len(f) \subseteq 1..n
  BY <1>1
<1> HIDE DEF n
<1>4. \A i \in 1..n : (IF i = o + 1 THEN y ELSE IF i <= Len(f) THEN f[i] ELSE Hole) \in Versions \cup {Hole}
  BY <1>1
<1> DEFINE g == [i \in 1..n |-> IF i = o + 1 THEN y ELSE IF i <= Len(f) THEN f[i] ELSE Hole]
<1>5. g \in Seq(Versions \cup {Hole}) /\ Len(g) = n
  BY <1>1, <1>4
<1>6. g[o + 1] = y /\ \A i \in 1..Len(f) : i # o + 1 => g[i] = f[i]
  BY <1>3
<1> QED
  BY <1>2, <1>5, <1>6 DEF n

-----------------------------------------------------------------------------
(* A stream begins again or ends *)

(* What the owner of a piece records of it. *)
LEMMA OwnerRecordsControl ==
  ASSUME Control, NEW c \in Conns, Owns(c), ConnFrame, UNCHANGED <<cache, signals>>,
         Alone(c), Owns(c)', conn'[c].piece = conn[c].piece,
         conn' = [conn EXCEPT ![c] = conn'[c]],
         pieces' \in Seq(PieceType), DOMAIN pieces' = DOMAIN pieces,
         \A j \in DOMAIN pieces \ {conn[c].piece} : pieces'[j] = pieces[j],
         pieces'[conn[c].piece].busy = pieces[conn[c].piece].busy,
         pieces'[conn[c].piece].downloaded = conn'[c].downloaded,
         pieces'[conn[c].piece].len # Unknown =>
           pieces'[conn[c].piece].downloaded <= pieces'[conn[c].piece].len,
         conn'[c].at # "written", conn'[c].at = "body" => conn'[c].from \in Versions
  PROVE  Control'
<1> DEFINE i == conn[c].piece
<1>1. i \in DOMAIN pieces /\ phase = "transfer" /\ phase' = "transfer"
  BY OwnedPiece, Transferring DEF Owns, Writing, ConnFrame, loopVars
<1>2. Owned'
  <2>1. conn'[c] \in Connection /\ conn'[c].at \in Writing
    BY DEF Alone, Owns
  <2> QED
    BY <1>1, <2>1, OwnerGoesOn
<1>3. \A l \in Conns \ {c} : Owns(l) => conn[l].piece \in DOMAIN pieces \ {i}
  BY DEF Control, Owned
<1>4. Sources'
  <2> SUFFICES ASSUME NEW l \in Conns, conn'[l].at \in {"body", "written"}
               PROVE  conn'[l].from \in Versions /\ (conn'[l].at = "written" => HasRoom(l)')
    BY DEF Sources
  <2>1. CASE l = c
    BY <2>1
  <2>2. CASE l # c
    <3>1. conn'[l] = conn[l]
      BY <2>2 DEF Alone
    <3>2. Owns(l)
      BY <3>1 DEF Owns, Writing
    <3>3. pieces'[conn[l].piece] = pieces[conn[l].piece]
      BY <1>3, <2>2, <3>2
    <3> QED
      BY <3>1, <3>3 DEF Control, Sources, HasRoom, Piece
  <2> QED
    BY <2>1, <2>2
<1>5. Fits'
  BY DEF Control, Fits
<1>6. /\ cache' \in Seq(Versions \cup {Hole}) /\ signals' \in 0..MaxSignals
      /\ conn' \in [Conns -> Connection]
  BY DEF Control, TypeOK, Alone
<1> QED
  BY <1>1, <1>2, <1>4, <1>5, <1>6, ControlKept

(* The piece that begins again has nothing. *)
LEMMA RestartedEffect ==
  ASSUME Control, NEW c \in Conns, Restarted(c)
  PROVE  LET i == conn[c].piece
         IN  /\ Owns(c) /\ Owns(c)' /\ Alone(c) /\ conn[c].at = "restart"
             /\ conn' = [conn EXCEPT ![c] = conn'[c]]
             /\ conn'[c].piece = i /\ conn'[c].downloaded = 0 /\ conn'[c].from = conn[c].from
             /\ conn'[c].error = conn[c].error
             /\ conn'[c].at = (IF conn[c].from = None THEN "request" ELSE "body")
             /\ pieces' \in Seq(PieceType) /\ DOMAIN pieces' = DOMAIN pieces
             /\ Len(pieces') = Len(pieces)
             /\ \A j \in DOMAIN pieces \ {i} : pieces'[j] = pieces[j]
             /\ pieces'[i].downloaded = 0 /\ pieces'[i].busy = pieces[i].busy
             /\ SamePlace(pieces'[i], pieces[i])
             /\ ConnFrame /\ UNCHANGED <<cache, signals>>
<1> DEFINE i == conn[c].piece
           k == [conn[c] EXCEPT !.downloaded = 0,
                                !.at = IF conn[c].from = None THEN "request" ELSE "body"]
<1>1. conn \in [Conns -> Connection] /\ conn[c] \in Connection /\ conn[c].at = "restart" /\ Owns(c)
  BY DEF Control, TypeOK, Restarted, Owns, Writing
<1>2. /\ k \in Connection /\ k.from = conn[c].from /\ k.piece = i
      /\ k.downloaded = 0 /\ k.error = conn[c].error
      /\ k.at = (IF conn[c].from = None THEN "request" ELSE "body")
  BY <1>1 DEF Connection, Writing
<1>3. conn' = [conn EXCEPT ![c] = k]
  BY DEF Restarted, Goes
<1> HIDE DEF k
<1>4. conn'[c] = k /\ Alone(c)
  BY <1>1, <1>2, <1>3, ConnReplaced DEF Alone
<1>5. Owns(c)'
  BY <1>2, <1>4 DEF Owns, Writing
<1>6. pieces \in Seq(PieceType) /\ i \in DOMAIN pieces /\ pieces' = Record(pieces, i, 0)
  BY <1>1, OwnedPiece DEF Restarted
<1> HIDE DEF i
<1>7. LET Q == Record(pieces, i, 0)
      IN  /\ Q \in Seq(PieceType) /\ DOMAIN Q = DOMAIN pieces /\ Len(Q) = Len(pieces)
          /\ \A j \in DOMAIN pieces \ {i} : Q[j] = pieces[j]
          /\ Q[i].downloaded = 0 /\ Q[i].busy = pieces[i].busy /\ SamePlace(Q[i], pieces[i])
  BY <1>6, RecordEffect
<1> QED
  BY <1>1, <1>2, <1>3, <1>4, <1>5, <1>6, <1>7
     DEF i, Restarted, OnlyPieces, ConnUnchanged, ConnFrame

(* That keeps Control. *)
LEMMA RestartedControl ==
  ASSUME Control, NEW c \in Conns, Restarted(c)
  PROVE  Control'
<1>1. LET i == conn[c].piece
      IN  /\ Owns(c) /\ Owns(c)' /\ Alone(c)
          /\ conn' = [conn EXCEPT ![c] = conn'[c]]
          /\ conn'[c].piece = i /\ conn'[c].downloaded = 0 /\ conn'[c].from = conn[c].from
          /\ conn'[c].at = (IF conn[c].from = None THEN "request" ELSE "body")
          /\ pieces' \in Seq(PieceType) /\ DOMAIN pieces' = DOMAIN pieces
          /\ \A j \in DOMAIN pieces \ {i} : pieces'[j] = pieces[j]
          /\ pieces'[i].downloaded = 0 /\ pieces'[i].busy = pieces[i].busy
          /\ SamePlace(pieces'[i], pieces[i])
          /\ ConnFrame /\ UNCHANGED <<cache, signals>>
  BY RestartedEffect
<1>2. conn[c].from \in Versions \cup {None}
  BY DEF Control, TypeOK, Connection
<1>3. pieces'[conn[c].piece].len # Unknown =>
        pieces'[conn[c].piece].downloaded <= pieces'[conn[c].piece].len
  <2>1. pieces[conn[c].piece].len \in Nat \cup {Unknown}
    BY <1>1, OwnedPiece DEF Piece
  <2> QED
    BY <1>1, <2>1 DEF SamePlace
<1> QED
  BY <1>1, <1>2, <1>3, OwnerRecordsControl

(* The body ends too early, or the piece is complete. *)
LEMMA EndOfBodyEffect ==
  ASSUME Control, NEW c \in Conns, EndOfBody(c)
  PROVE  LET i == conn[c].piece
         IN  \/ Quiet(c)
             \/ /\ Owns(c) /\ Owns(c)' /\ Alone(c) /\ conn[c].at = "body"
                /\ conn[c].from \in Versions /\ Offset(c) >= Size[conn[c].from]
                /\ conn' = [conn EXCEPT ![c] = conn'[c]]
                /\ conn'[c].piece = i /\ conn'[c].downloaded = conn[c].downloaded
                /\ conn'[c].at = "fetched" /\ conn'[c].from = None
                /\ conn'[c].error = conn[c].error
                /\ pieces[i].len \in {Unknown, conn[c].downloaded}
                /\ pieces' \in Seq(PieceType) /\ DOMAIN pieces' = DOMAIN pieces
                /\ Len(pieces') = Len(pieces)
                /\ \A j \in DOMAIN pieces \ {i} : pieces'[j] = pieces[j]
                /\ pieces'[i].busy = pieces[i].busy
                /\ pieces'[i].downloaded = pieces[i].downloaded
                /\ pieces'[i].start = pieces[i].start
                /\ pieces'[i].len = pieces[i].downloaded
                /\ ConnFrame /\ UNCHANGED <<cache, signals>>
<1> DEFINE i == conn[c].piece
<1>1. conn \in [Conns -> Connection] /\ conn[c] \in Connection /\ conn[c].at = "body" /\ Owns(c)
      /\ conn[c].from \in Versions
  BY DEF Control, TypeOK, EndOfBody, Owns, Writing, Sources
<1>2. CASE Fails(c, "transient") /\ UNCHANGED pieces
  <2> DEFINE k == [conn[c] EXCEPT !.at = "error", !.error = "transient", !.from = None]
  <2>1. /\ k \in Connection /\ k.at = "error" /\ k.error # "refused" /\ k.piece = conn[c].piece
        /\ k.downloaded = conn[c].downloaded
    BY <1>1, ErrorType
  <2>2. conn' = [conn EXCEPT ![c] = k]
    BY <1>2 DEF Fails, Goes
  <2> HIDE DEF k
  <2>3. Moves(c, k)
    BY <1>1, <2>1, <2>2 DEF Moves, Owns, Writing
  <2> QED
    BY <1>1, <1>2, <2>1, <2>3 DEF EndOfBody, OnlyPieces, ConnUnchanged, ConnFrame, Quiet
<1>3. CASE /\ Piece(c).len \in {Unknown, conn[c].downloaded}
           /\ Goes(c, [conn[c] EXCEPT !.at = "fetched", !.from = None])
           /\ pieces' = FinishStream(pieces, i)
  <2> DEFINE k == [conn[c] EXCEPT !.at = "fetched", !.from = None]
  <2>1. /\ k \in Connection /\ k.at = "fetched" /\ k.from = None /\ k.piece = i
        /\ k.downloaded = conn[c].downloaded /\ k.error = conn[c].error
    BY <1>1 DEF Connection, Writing
  <2>2. conn' = [conn EXCEPT ![c] = k]
    BY <1>3 DEF Goes
  <2> HIDE DEF k
  <2>3. conn'[c] = k /\ Alone(c)
    BY <1>1, <2>1, <2>2, ConnReplaced DEF Alone
  <2>4. Owns(c)'
    BY <2>1, <2>3 DEF Owns, Writing
  <2>5. pieces \in Seq(PieceType) /\ i \in DOMAIN pieces
    BY <1>1, OwnedPiece
  <2>6. pieces[i].len \in {Unknown, conn[c].downloaded}
    BY <1>3 DEF Piece
  <2> HIDE DEF i
  <2>7. LET Q == FinishStream(pieces, i)
        IN  /\ Q \in Seq(PieceType) /\ DOMAIN Q = DOMAIN pieces /\ Len(Q) = Len(pieces)
            /\ \A j \in DOMAIN pieces \ {i} : Q[j] = pieces[j]
            /\ Q[i].busy = pieces[i].busy /\ Q[i].downloaded = pieces[i].downloaded
            /\ Q[i].start = pieces[i].start /\ Q[i].len = pieces[i].downloaded
    BY <2>5, FinishEffect
  <2> QED
    BY <1>1, <1>3, <2>1, <2>2, <2>3, <2>4, <2>6, <2>7
       DEF i, EndOfBody, OnlyPieces, ConnUnchanged, ConnFrame
<1> QED
  BY <1>2, <1>3 DEF EndOfBody

(* The end of a body keeps Control. *)
LEMMA EndOfBodyControl ==
  ASSUME Control, NEW c \in Conns, EndOfBody(c)
  PROVE  Control'
<1>1. CASE Quiet(c)
  BY <1>1, QuietControl
<1>2. CASE ~Quiet(c)
  <2>1. LET i == conn[c].piece
         IN  /\ Owns(c) /\ Owns(c)' /\ Alone(c)
             /\ conn' = [conn EXCEPT ![c] = conn'[c]]
             /\ conn'[c].piece = i /\ conn'[c].downloaded = conn[c].downloaded
             /\ conn'[c].at = "fetched"
             /\ pieces' \in Seq(PieceType) /\ DOMAIN pieces' = DOMAIN pieces
             /\ \A j \in DOMAIN pieces \ {i} : pieces'[j] = pieces[j]
             /\ pieces'[i].busy = pieces[i].busy
             /\ pieces'[i].downloaded = pieces[i].downloaded
             /\ pieces'[i].len = pieces[i].downloaded
             /\ ConnFrame /\ UNCHANGED <<cache, signals>>
    BY <1>2, EndOfBodyEffect
  <2>2. pieces[conn[c].piece].downloaded = conn[c].downloaded /\ conn[c].downloaded \in Nat
    BY <2>1, OwnedPiece DEF Piece
  <2> QED
    BY <2>1, <2>2, OwnerRecordsControl
<1> QED
  BY <1>1, <1>2

-----------------------------------------------------------------------------
(* A block is counted *)

(* A block is counted, and the writer goes on, in its piece or in the next. *)
Counted(c) ==
  LET i == conn[c].piece
      n == conn[c].downloaded + 1
  IN  /\ Owns(c) /\ Owns(c)' /\ Alone(c) /\ conn[c].at = "written"
      /\ conn[c].from \in Versions /\ HasRoom(c)
      /\ conn' = [conn EXCEPT ![c] = conn'[c]]
      /\ conn'[c].error = conn[c].error
      /\ pieces' \in Seq(PieceType) /\ DOMAIN pieces' = DOMAIN pieces
      /\ Len(pieces') = Len(pieces)
      /\ pieces'[i].downloaded = n
      /\ \A j \in DOMAIN pieces : SamePlace(pieces'[j], pieces[j])
      /\ \A j \in DOMAIN pieces \ {i} : pieces'[j].downloaded = pieces[j].downloaded
      /\ ConnFrame /\ UNCHANGED <<cache, signals>>
(* ... there is room for more, *)
CountedOn(c) ==
  /\ Counted(c)
  /\ conn'[c].piece = conn[c].piece /\ conn'[c].downloaded = conn[c].downloaded + 1
  /\ conn'[c].at = "body" /\ conn'[c].from = conn[c].from
  /\ \A j \in DOMAIN pieces : pieces'[j].busy = pieces[j].busy
(* ... the piece is complete, *)
CountedEnd(c) ==
  /\ Counted(c)
  /\ conn'[c].piece = conn[c].piece /\ conn'[c].downloaded = conn[c].downloaded + 1
  /\ conn'[c].at = "fetched" /\ conn'[c].from = None
  /\ Piece(c).len = conn[c].downloaded + 1 /\ conn[c].piece # Len(pieces)
  /\ \A j \in DOMAIN pieces : pieces'[j].busy = pieces[j].busy
(* ... or the writer goes on in the piece behind it. *)
CountedAdvance(c) ==
  LET i == conn[c].piece
  IN  /\ Counted(c)
      /\ conn'[c].piece = i + 1 /\ conn'[c].downloaded = 0
      /\ conn'[c].at = "body" /\ conn'[c].from = conn[c].from
      /\ Piece(c).len = conn[c].downloaded + 1
      /\ i + 1 \in DOMAIN pieces /\ pieces[i + 1].downloaded = 0
      /\ ~pieces[i + 1].busy /\ pieces'[i + 1].busy /\ ~pieces'[i].busy
      /\ \A j \in DOMAIN pieces \ {i, i + 1} : pieces'[j].busy = pieces[j].busy

(* `record` after a write, with `advance`, is one of the three. *)
LEMMA CountEffect ==
  ASSUME Control, NEW c \in Conns, Count(c)
  PROVE  CountedOn(c) \/ CountedEnd(c) \/ CountedAdvance(c)
<1> DEFINE i == conn[c].piece
           n == conn[c].downloaded + 1
           counted == Record(pieces, i, n)
           grown == [conn[c] EXCEPT !.at = "body", !.downloaded = n, !.progressed = TRUE]
           kept == [grown EXCEPT !.at = "fetched", !.from = None]
           moved == [grown EXCEPT !.piece = i + 1, !.downloaded = 0]
<1>1. conn \in [Conns -> Connection] /\ conn[c] \in Connection /\ conn[c].at = "written" /\ Owns(c)
      /\ conn[c].from \in Versions /\ HasRoom(c)
  BY DEF Control, TypeOK, Count, Owns, Writing, Sources
<1>2. /\ i \in DOMAIN pieces /\ pieces \in Seq(PieceType) /\ n \in Nat /\ i \in Nat
      /\ i \in 1..Len(pieces)
  BY <1>1, OwnedPiece
<1>3. /\ grown \in Connection /\ grown.at = "body" /\ grown.piece = i /\ grown.downloaded = n
      /\ grown.from = conn[c].from /\ grown.error = conn[c].error
  BY <1>1, <1>2 DEF Connection, Writing
<1>4. /\ kept \in Connection /\ kept.at = "fetched" /\ kept.piece = i /\ kept.downloaded = n
      /\ kept.from = None /\ kept.error = conn[c].error
  BY <1>1, <1>2 DEF Connection, Writing
<1>5. /\ moved \in Connection /\ moved.at = "body" /\ moved.piece = i + 1 /\ moved.downloaded = 0
      /\ moved.from = conn[c].from /\ moved.error = conn[c].error
  <2>1. i + 1 \in Nat /\ 0 \in Nat
    BY <1>2
  <2> HIDE DEF grown, i, n
  <2>2. grown \in Connection
    BY <1>3
  <2>3. moved \in Connection
    BY <2>1, <2>2 DEF Connection
  <2>4. /\ moved.at = grown.at /\ moved.piece = i + 1 /\ moved.downloaded = 0
        /\ moved.from = grown.from /\ moved.error = grown.error
    BY <2>2 DEF Connection
  <2> QED
    BY <1>3, <2>3, <2>4
<1>6. \/ pieces' = counted /\ Goes(c, grown)
      \/ /\ counted[i].len = n /\ i # Len(pieces) /\ CanAdvance(counted, i)
         /\ pieces' = Advance(counted, i) /\ Goes(c, moved)
      \/ /\ counted[i].len = n /\ i # Len(pieces)
         /\ pieces' = counted /\ Goes(c, kept)
  BY DEF Count
<1>7. ConnFrame /\ UNCHANGED <<cache, signals>>
  BY DEF Count, OnlyPieces, ConnUnchanged, ConnFrame
<1> HIDE DEF i, n, grown, kept, moved
<1>8. /\ counted \in Seq(PieceType) /\ DOMAIN counted = DOMAIN pieces /\ Len(counted) = Len(pieces)
      /\ \A j \in DOMAIN pieces \ {i} : counted[j] = pieces[j]
      /\ counted[i].downloaded = n /\ counted[i].busy = pieces[i].busy
      /\ SamePlace(counted[i], pieces[i])
  BY <1>2, RecordEffect
<1> HIDE DEF counted
<1>9. /\ \A j \in DOMAIN pieces : SamePlace(counted[j], pieces[j])
      /\ \A j \in DOMAIN pieces : counted[j].busy = pieces[j].busy
      /\ \A j \in DOMAIN pieces \ {i} : counted[j].downloaded = pieces[j].downloaded
  BY <1>8 DEF SamePlace
<1>10. CASE pieces' = counted /\ Goes(c, grown)
  <2>1. conn' = [conn EXCEPT ![c] = grown]
    BY <1>10 DEF Goes
  <2>2. conn'[c] = grown /\ Alone(c)
    BY <1>1, <1>3, <2>1, ConnReplaced DEF Alone
  <2>3. Owns(c)'
    BY <1>3, <2>2 DEF Owns, Writing
  <2> QED
    BY <1>1, <1>3, <1>7, <1>8, <1>9, <1>10, <2>1, <2>2, <2>3 DEF CountedOn, Counted, i, n
<1>11. CASE counted[i].len = n /\ i # Len(pieces) /\ pieces' = counted /\ Goes(c, kept)
  <2>1. conn' = [conn EXCEPT ![c] = kept]
    BY <1>11 DEF Goes
  <2>2. conn'[c] = kept /\ Alone(c)
    BY <1>1, <1>4, <2>1, ConnReplaced DEF Alone
  <2>3. Owns(c)'
    BY <1>4, <2>2 DEF Owns, Writing
  <2>4. Piece(c).len = n
    BY <1>9, <1>11, <1>2 DEF Piece, i, SamePlace
  <2> QED
    BY <1>1, <1>4, <1>7, <1>8, <1>9, <1>11, <2>1, <2>2, <2>3, <2>4 DEF CountedEnd, Counted, i, n
<1>12. CASE /\ counted[i].len = n /\ i # Len(pieces) /\ CanAdvance(counted, i)
            /\ pieces' = Advance(counted, i) /\ Goes(c, moved)
  <2>1. conn' = [conn EXCEPT ![c] = moved]
    BY <1>12 DEF Goes
  <2>2. conn'[c] = moved /\ Alone(c)
    BY <1>1, <1>5, <2>1, ConnReplaced DEF Alone
  <2>3. Owns(c)'
    BY <1>5, <2>2 DEF Owns, Writing
  <2>4. Piece(c).len = n
    BY <1>9, <1>12, <1>2 DEF Piece, i, SamePlace
  <2>5. i + 1 \in DOMAIN pieces /\ i + 1 # i
    BY <1>2, <1>12
  <2>6. ~pieces[i + 1].busy /\ pieces[i + 1].downloaded = 0
    BY <1>9, <1>12, <2>5 DEF CanAdvance, Free
  <2>7. LET Q == Advance(counted, i)
        IN  /\ Q \in Seq(PieceType) /\ DOMAIN Q = DOMAIN counted /\ Len(Q) = Len(counted)
            /\ \A j \in DOMAIN counted \ {i, i + 1} : Q[j] = counted[j]
            /\ ~Q[i].busy /\ Q[i].downloaded = counted[i].downloaded /\ SamePlace(Q[i], counted[i])
            /\ Q[i + 1].busy /\ Q[i + 1].downloaded = counted[i + 1].downloaded
            /\ SamePlace(Q[i + 1], counted[i + 1])
    BY <1>2, <1>8, <2>5, AdvanceEffect
  <2>8. /\ pieces' \in Seq(PieceType) /\ DOMAIN pieces' = DOMAIN pieces /\ Len(pieces') = Len(pieces)
        /\ pieces'[i].downloaded = n
        /\ ~pieces'[i].busy /\ pieces'[i + 1].busy
        /\ \A j \in DOMAIN pieces \ {i, i + 1} : pieces'[j] = counted[j]
        /\ SamePlace(pieces'[i], counted[i]) /\ SamePlace(pieces'[i + 1], counted[i + 1])
        /\ pieces'[i + 1].downloaded = counted[i + 1].downloaded
    BY <1>8, <1>12, <2>7
  <2>9. /\ \A j \in DOMAIN pieces : SamePlace(pieces'[j], pieces[j])
        /\ \A j \in DOMAIN pieces \ {i} : pieces'[j].downloaded = pieces[j].downloaded
        /\ \A j \in DOMAIN pieces \ {i, i + 1} : pieces'[j].busy = pieces[j].busy
    BY <1>9, <2>5, <2>8 DEF SamePlace
  <2> QED
    BY <1>1, <1>5, <1>7, <2>1, <2>2, <2>3, <2>4, <2>5, <2>6, <2>8, <2>9 DEF CountedAdvance, Counted, i, n
<1> QED
  BY <1>6, <1>10, <1>11, <1>12

(* Each keeps Control: the next piece had no writer when it is taken. *)
LEMMA CountControl ==
  ASSUME Control, NEW c \in Conns, Count(c)
  PROVE  Control'
<1> DEFINE i == conn[c].piece
           n == conn[c].downloaded + 1
<1>1. Counted(c)
  BY CountEffect DEF CountedOn, CountedEnd, CountedAdvance
<1>2. /\ i \in DOMAIN pieces /\ pieces[i].downloaded = conn[c].downloaded
      /\ conn[c].downloaded \in Nat /\ pieces[i].len \in Nat \cup {Unknown}
  BY <1>1, OwnedPiece DEF Counted, Piece
<1>3. Fits'
  <2> SUFFICES ASSUME NEW j \in DOMAIN pieces', pieces'[j].len # Unknown
               PROVE  pieces'[j].downloaded <= pieces'[j].len
    BY DEF Fits
  <2>1. j \in DOMAIN pieces /\ pieces'[j].len = pieces[j].len
    BY <1>1 DEF Counted, SamePlace
  <2>2. CASE j = i
    <3>1. conn[c].downloaded < pieces[i].len
      BY <1>1, <2>1, <2>2 DEF Counted, HasRoom, Piece
    <3>2. pieces'[j].downloaded = n
      BY <1>1, <2>2 DEF Counted
    <3> QED
      BY <1>2, <2>1, <2>2, <3>1, <3>2
  <2>3. CASE j # i
    BY <1>1, <2>1, <2>3 DEF Counted, Control, Fits
  <2> QED
    BY <2>2, <2>3
<1>4. /\ phase = "transfer" /\ phase' = "transfer" /\ Owned /\ Owns(c) /\ Owns(c)'
      /\ \A l \in Conns \ {c} : conn'[l] = conn[l]
      /\ \A l \in Conns \ {c} : Owns(l)' <=> Owns(l)
  BY <1>1, Transferring DEF Counted, ConnFrame, loopVars, Control, Owns, Writing, Alone
<1>5. \A l \in Conns \ {c} : Owns(l) => conn[l].piece \in DOMAIN pieces \ {i}
  BY <1>4 DEF Owned
<1>6. Owned'
  <2>1. CASE CountedOn(c) \/ CountedEnd(c)
    <3>1. /\ conn'[c] \in Connection /\ conn'[c].at \in Writing /\ conn'[c].piece = i
          /\ conn'[c].downloaded = pieces'[i].downloaded
          /\ conn' = [conn EXCEPT ![c] = conn'[c]]
      BY <1>1, <2>1 DEF CountedOn, CountedEnd, Counted, Owns, Alone
    <3>2. /\ DOMAIN pieces' = DOMAIN pieces
          /\ \A j \in DOMAIN pieces : pieces'[j].busy = pieces[j].busy
          /\ \A j \in DOMAIN pieces \ {i} : pieces'[j].downloaded = pieces[j].downloaded
      BY <1>1, <2>1 DEF CountedOn, CountedEnd, Counted
    <3> QED
      BY <1>4, <3>1, <3>2, OwnerGoesOn
  <2>2. CASE CountedAdvance(c)
    <3>1. /\ conn'[c].piece = i + 1 /\ conn'[c].downloaded = 0
          /\ i + 1 \in DOMAIN pieces /\ i + 1 # i /\ pieces[i + 1].downloaded = 0
          /\ ~pieces[i + 1].busy /\ pieces'[i + 1].busy /\ ~pieces'[i].busy
          /\ \A j \in DOMAIN pieces \ {i, i + 1} : pieces'[j].busy = pieces[j].busy
          /\ DOMAIN pieces' = DOMAIN pieces
          /\ \A j \in DOMAIN pieces \ {i} : pieces'[j].downloaded = pieces[j].downloaded
      BY <1>1, <1>2, <2>2 DEF CountedAdvance, Counted
    <3> HIDE DEF i
    <3>2. \A l \in Conns \ {c} : Owns(l) => conn[l].piece \in DOMAIN pieces \ {i, i + 1}
      BY <1>4, <1>5, <3>1 DEF Owned
    <3>3. ASSUME NEW l \in Conns, Owns(l)'
          PROVE  /\ conn'[l].piece \in DOMAIN pieces'
                 /\ pieces'[conn'[l].piece].busy
                 /\ conn'[l].downloaded = pieces'[conn'[l].piece].downloaded
      <4>1. CASE l = c
        BY <3>1, <4>1
      <4>2. CASE l # c
        BY <1>4, <3>1, <3>2, <3>3, <4>2 DEF Owned
      <4> QED
        BY <4>1, <4>2
    <3>4. \A l, m \in Conns : Owns(l)' /\ Owns(m)' /\ conn'[l].piece = conn'[m].piece => l = m
      BY <1>4, <3>1, <3>2 DEF Owned
    <3>5. ASSUME NEW j \in DOMAIN pieces', pieces'[j].busy
          PROVE  \E l \in Conns : Owns(l)' /\ conn'[l].piece = j
      <4>1. CASE j = i + 1
        BY <1>4, <3>1, <4>1
      <4>2. CASE j # i + 1
        <5>1. j # i /\ pieces[j].busy /\ j \in DOMAIN pieces
          BY <3>1, <3>5, <4>2
        <5>2. PICK l \in Conns : Owns(l) /\ conn[l].piece = j
          BY <1>4, <5>1 DEF Owned
        <5>3. l # c
          BY <5>1, <5>2 DEF i
        <5> QED
          BY <1>4, <5>2, <5>3
      <4> QED
        BY <4>1, <4>2
    <3> QED
      BY <1>4, <3>3, <3>4, <3>5 DEF Owned, Owns
  <2> QED
    BY <2>1, <2>2, CountEffect
<1>7. Sources'
  <2> SUFFICES ASSUME NEW l \in Conns, conn'[l].at \in {"body", "written"}
               PROVE  conn'[l].from \in Versions /\ (conn'[l].at = "written" => HasRoom(l)')
    BY DEF Sources
  <2>1. CASE l = c
    <3>1. conn'[c].at = "body" /\ conn'[c].from = conn[c].from
      BY <2>1, CountEffect DEF CountedOn, CountedEnd, CountedAdvance
    <3> QED
      BY <1>1, <2>1, <3>1 DEF Counted
  <2>2. CASE l # c
    <3>1. conn'[l] = conn[l]
      BY <1>4, <2>2
    <3>2. Owns(l)
      BY <3>1 DEF Owns, Writing
    <3>3. pieces'[conn[l].piece].len = pieces[conn[l].piece].len
      BY <1>1, <1>5, <2>2, <3>2 DEF Counted, SamePlace
    <3> QED
      BY <3>1, <3>3 DEF Control, Sources, HasRoom, Piece
  <2> QED
    BY <2>1, <2>2
<1>8. /\ cache' \in Seq(Versions \cup {Hole}) /\ signals' \in 0..MaxSignals
      /\ conn' \in [Conns -> Connection] /\ pieces' \in Seq(PieceType)
      /\ DOMAIN pieces' = DOMAIN pieces /\ ConnFrame
  BY <1>1 DEF Control, TypeOK, Alone, Counted
<1> QED
  BY <1>3, <1>4, <1>6, <1>7, <1>8, ControlKept

(* The file, truncated or not, and the signals. *)
LEMMA CacheTypeKept ==
  ASSUME Control
  PROVE  cache \in Seq(Versions \cup {Hole}) /\ Truncated \in Seq(Versions \cup {Hole})
         /\ signals \in 0..MaxSignals
  BY DEF Control, TypeOK, Truncated

(* The actions of an owner that leave the pieces alone keep Control. *)
LEMMA OwnerKeepsSteps ==
  ASSUME Control, NEW c \in Conns,
         RestartFirst(c) \/ PartialContent(c) \/ WholeBody(c) \/ Write(c)
  PROVE  Control'
<1>1. CASE RestartFirst(c)
  <2>1. cache' = Truncated
    BY <1>1 DEF RestartFirst
  <2> QED
    BY <1>1, <2>1, RestartFirstEffect, CacheTypeKept, OwnerKeepsControl
<1>2. server.version \in Versions
  BY TransferAssumption DEF Control, TypeOK
<1>3. CASE PartialContent(c)
  <2>1. signals' \in 0..MaxSignals
    <3>1. signals' = signals + 1 /\ signals < MaxSignals
      BY <1>3 DEF PartialContent
    <3>2. signals \in 0..MaxSignals /\ MaxSignals \in Nat
      BY TransferAssumption DEF Control, TypeOK
    <3> QED
      BY <3>1, <3>2
  <2> QED
    BY <1>2, <1>3, <2>1, PartialContentEffect, CacheTypeKept, OwnerKeepsControl
<1>4. CASE WholeBody(c)
  <2>1. CASE Quiet(c)
    BY <2>1, QuietControl
  <2>2. CASE ~Quiet(c)
    BY <1>2, <1>4, <2>2, WholeBodyEffect, CacheTypeKept, OwnerKeepsControl
  <2> QED
    BY <2>1, <2>2
<1>5. CASE Write(c)
  <2>1. cache' \in Seq(Versions \cup {Hole})
    <3>1. /\ Offset(c) \in Nat /\ conn[c].from \in Versions
          /\ cache' = WriteAt(cache, Offset(c), conn[c].from)
      BY <1>5, WriteEffect
    <3>2. cache \in Seq(Versions \cup {Hole})
      BY CacheTypeKept
    <3>3. WriteAt(cache, Offset(c), conn[c].from) \in Seq(Versions \cup {Hole})
      BY <3>1, <3>2, WriteAtEffect
    <3> QED
      BY <3>1, <3>3
  <2>2. HasRoom(c)
    BY <1>5 DEF Write
  <2> QED
    BY <1>5, <2>1, <2>2, WriteEffect, CacheTypeKept, OwnerKeepsControl
<1> QED
  BY <1>1, <1>3, <1>4, <1>5

-----------------------------------------------------------------------------
(* The loop, the checkpoints and what happens around them *)

(* Rows as `plan_pieces` makes them: one from 0 for a body of unknown        *)
(* length, else they tile it.                                                *)
Planned(R, total) ==
  IF total = Unknown THEN Len(R) = 1 /\ R[1].start = 0 ELSE Tiles(R, total)

(* `plan_pieces` makes such rows, with nothing in them. *)
LEMMA PlanIsPlanned ==
  ASSUME NEW total \in Nat \cup {Unknown}, NEW ranged \in BOOLEAN
  PROVE  LET plan == PlanPieces(total, ranged)
         IN  /\ plan \in Seq(RowType) /\ Planned(plan, total)
             /\ ~ranged => Len(plan) <= 1
             /\ \A i \in DOMAIN plan : plan[i].downloaded = 0
<1>1. CASE total = Unknown
  <2>1. PlanPieces(total, ranged) = <<Row(0, 0)>>
    BY <1>1 DEF PlanPieces
  <2>2. Row(0, 0) \in RowType /\ Row(0, 0).start = 0 /\ Row(0, 0).downloaded = 0
    BY DEF Row, RowType
  <2> QED
    BY <1>1, <2>1, <2>2 DEF Planned
<1>2. CASE total \in Nat
  <2>1. total # Unknown
    BY <1>2 DEF Unknown
  <2> QED
    BY <1>2, <2>1, PlanPiecesTile DEF Planned
<1> QED
  BY <1>1, <1>2

(* Whatever a crash leaves of a block was there before. *)
Mixed(now, synced, n, kept) ==
  [i \in 1..n |-> IF i \in kept /\ i <= Len(now) THEN now[i]
                  ELSE IF i <= Len(synced) THEN synced[i] ELSE Hole]

(* Every file a crash may leave is one of these. *)
LEMMA MixedSurvive ==
  ASSUME NEW now, NEW synced, NEW f \in Survivors(now, synced)
  PROVE  \E n \in {Len(now), Len(synced)}, kept \in SUBSET DOMAIN now :
           f = Mixed(now, synced, n, kept)
<1>1. Survivors(now, synced) =
        {Mixed(now, synced, n, kept) :
           n \in {Len(now), Len(synced)}, kept \in SUBSET DOMAIN now}
  BY DEF Survivors, Mixed
<1>2. f \in Survivors(now, synced)
  OBVIOUS
<1>3. f \in {Mixed(now, synced, n, kept) :
              n \in {Len(now), Len(synced)}, kept \in SUBSET DOMAIN now}
  BY ONLY <1>1, <1>2
<1> QED
  BY ONLY <1>3

(* Each block of such a file is the one the system showed or the one last    *)
(* synced.                                                                   *)
LEMMA SurvivorsEffect ==
  ASSUME NEW now \in Seq(Versions \cup {Hole}), NEW synced \in Seq(Versions \cup {Hole}),
         NEW f \in Survivors(now, synced)
  PROVE  /\ f \in Seq(Versions \cup {Hole})
         /\ Len(f) \in {Len(now), Len(synced)}
         /\ \A i \in 1..Len(f) :
              \/ i <= Len(now) /\ f[i] = now[i]
              \/ f[i] = IF i <= Len(synced) THEN synced[i] ELSE Hole
<1>1. PICK n \in {Len(now), Len(synced)}, kept \in SUBSET DOMAIN now : f = Mixed(now, synced, n, kept)
  BY MixedSurvive
<1> USE DEF Mixed
<1>2. n \in Nat /\ Len(now) \in Nat /\ Len(synced) \in Nat
  OBVIOUS
<1>3. ASSUME NEW i \in 1..n
      PROVE  /\ f[i] \in Versions \cup {Hole}
             /\ \/ i <= Len(now) /\ f[i] = now[i]
                \/ f[i] = IF i <= Len(synced) THEN synced[i] ELSE Hole
  <2>1. i <= Len(now) => now[i] \in Versions \cup {Hole}
    BY <1>2
  <2>2. i <= Len(synced) => synced[i] \in Versions \cup {Hole}
    BY <1>2
  <2> QED
    BY <1>1, <2>1, <2>2
<1>4. f = [i \in 1..n |-> f[i]]
  BY <1>1
<1>5. f \in Seq(Versions \cup {Hole}) /\ Len(f) = n
  <2> DEFINE V == Versions \cup {Hole}
  <2>1. \A i \in 1..n : f[i] \in V
    BY <1>3
  <2> HIDE DEF V
  <2>2. f \in [1..n -> V]
    BY <1>4, <2>1
  <2>3. f \in Seq(V) /\ Len(f) = n
    BY <1>2, <2>2
  <2> QED
    BY <2>3 DEF V
<1> QED
  BY <1>3, <1>5

(* Pieces and connections stay. *)
LEMMA SameConnections ==
  ASSUME Control, UNCHANGED <<pieces, conn>>,
         phase' # "transfer" => phase # "transfer" \/ Connections = {}
  PROVE  Owned' /\ Sources' /\ Fits'
<1>1. Connections = {} => \A k \in Conns : conn[k].at = "off"
  BY DEF Connections
<1> QED
  BY <1>1 DEF Control, Owned, Owns, Sources, HasRoom, Piece, Fits

(* A worker that ends leaves nothing in memory. *)
LEMMA DroppedControl ==
  ASSUME Control, NEW p \in {"off", "done"}, Dropped(p), UNCHANGED <<outside, rows, meta, ticks>>,
         {cache', disk'} \subseteq Seq(Versions \cup {Hole}),
         delivered' \subseteq Seq(Versions \cup {Hole})
  PROVE  Control'
<1>1. NoConnection \in Connection /\ NoConnection.at = "off"
  BY DEF NoConnection, Connection, Errors
<1>2. conn' \in [Conns -> Connection] /\ \A k \in Conns : conn'[k].at = "off"
  BY <1>1 DEF Dropped
<1>3. Cardinality(Conns) \in Nat
  BY TransferAssumption, FS_CardinalityType
<1>4. /\ phase' = p /\ pieces' = <<>> /\ saving' = "idle" /\ snapshot' = <<>>
      /\ target' = 0 /\ signals' = 0 /\ failure' = None /\ cancelled' = FALSE /\ stop' = FALSE
      /\ probe' = [identity |-> NoIdentity, ranged |-> FALSE]
  BY DEF Dropped
<1>5. probe' \in [identity : [tag : Tagged \cup {None}, length : Nat \cup {Unknown}],
                  ranged : BOOLEAN]
  BY <1>4 DEF NoIdentity
<1>6. TypeOK'
  <2>1. /\ target' \in (IF phase' = "transfer" THEN 1 ELSE 0)..Cardinality(Conns)
        /\ signals' \in 0..MaxSignals /\ phase' \in Phases
    BY <1>3, <1>4, TransferAssumption DEF Phases
  <2>2. /\ pieces' \in Seq([start : Nat, len : Nat \cup {Unknown}, downloaded : Nat,
                           persisted : Nat, busy : BOOLEAN])
        /\ DOMAIN snapshot' \subseteq DOMAIN pieces'
    BY <1>4
  <2>3. /\ server' \in Servers /\ gone' \subseteq Versions /\ returned' \in BOOLEAN
        /\ rows' \in Seq([start : Nat, end : Nat, downloaded : Nat])
        /\ meta' \in [tag : Tagged \cup {None}, length : Nat \cup {Unknown}]
        /\ {runs', changes', ticks'} \subseteq Nat
    BY DEF Control, TypeOK, outside, serverVars
  <2> QED
    BY <1>2, <1>4, <1>5, <2>1, <2>2, <2>3 DEF TypeOK
<1>7. SnapshotTyped' /\ Idle' /\ Fits' /\ RowsTile'
  BY <1>4 DEF SnapshotTyped, Idle, Fits, RowsTile
<1>8. Owned' /\ Sources'
  BY <1>2, <1>4 DEF Owned, Owns, Writing, Sources
<1> QED
  BY <1>6, <1>7, <1>8 DEF Control

(* `download_payload` begins. *)
LEMMA BeginControl ==
  ASSUME Control, Begin
  PROVE  Control'
<1>1. Owned' /\ Sources' /\ Fits'
  BY SameConnections DEF Begin, transferVars
<1>2. server.version \in Versions /\ server.ranges \in BOOLEAN
  BY TransferAssumption DEF Control, TypeOK
<1>3. Identity \in [tag : Tagged \cup {None}, length : Nat \cup {Unknown}]
  BY <1>2, TransferAssumption DEF Identity, Tag
<1>4. probe' \in [identity : [tag : Tagged \cup {None}, length : Nat \cup {Unknown}],
                  ranged : BOOLEAN]
  BY <1>2, <1>3 DEF Begin
<1>5. TypeOK'
  <2>1. /\ UNCHANGED <<server, gone, returned, changes, rows, meta, cache, disk, delivered>>
        /\ UNCHANGED <<target, failure, cancelled, stop, pieces, conn, signals, saving, snapshot, ticks>>
        /\ phase = "off" /\ phase' = "prepare" /\ runs' = runs + 1
    BY DEF Begin, serverVars, diskVars, transferVars, saveVars
  <2>2. TypeOK
    BY DEF Control
  <2>3. phase' \in Phases /\ runs' \in Nat
    BY <2>1, <2>2 DEF TypeOK, Phases
  <2>4. target' \in (IF phase' = "transfer" THEN 1 ELSE 0)..Cardinality(Conns)
    BY <2>1, <2>2 DEF TypeOK
  <2> QED
    BY <1>4, <2>1, <2>2, <2>3, <2>4 DEF TypeOK
<1>6. SnapshotTyped' /\ Idle' /\ RowsTile'
  BY DEF Control, SnapshotTyped, Idle, RowsTile, Running, Begin, transferVars, saveVars
<1> QED
  BY <1>1, <1>5, <1>6 DEF Control

(* `prepare_payload`: rows that are resumed were checked, rows that are made *)
(* tile the body.                                                            *)
LEMMA PrepareControl ==
  ASSUME Control, Resume \/ ResetRows \/ Create
  PROVE  Control'
<1>1. Owned' /\ Sources' /\ Fits'
  BY SameConnections DEF Resume, ResetRows, Create, transferVars, Goto
<1>2. rows \in Seq(RowType) /\ Total \in Nat \cup {Unknown} /\ probe.ranged \in BOOLEAN
      /\ cache \in Seq(Versions \cup {Hole})
  BY DEF Control, TypeOK, RowType, Total
<1>3. CASE Resume
  <2>1. Total = Unknown => rows[1].downloaded \in 1..Len(cache)
    BY <1>3 DEF Resume, Resumes, Resumable
  <2>2. cache' \in Seq(Versions \cup {Hole})
    BY <1>2, <1>3, <2>1 DEF Resume
  <2>3. TypeOK'
    BY <1>3, <2>2 DEF Control, TypeOK, Resume, Goto, outside, serverVars, transferVars, saveVars, Phases
  <2>4. RowsTile'
    BY <1>3 DEF RowsTile, Resume, Resumes, Resumable, Goto, Total
  <2>5. SnapshotTyped' /\ Idle'
    BY <1>3 DEF Control, SnapshotTyped, Idle, Running, Resume, Goto, transferVars, saveVars
  <2> QED
    BY <1>1, <2>3, <2>4, <2>5 DEF Control
<1>4. CASE ResetRows
  <2>1. rows' \in Seq(RowType) /\ (Total # Unknown => Tiles(rows', Total))
    BY <1>2, <1>4, PlanIsPlanned DEF ResetRows, Planned
  <2>3. TypeOK'
    BY <1>4, <2>1 DEF Control, TypeOK, ResetRows, Goto, outside, serverVars, transferVars, saveVars, Phases, RowType
  <2>4. RowsTile'
    BY <1>4, <2>1 DEF RowsTile, ResetRows, Goto, Total
  <2>5. SnapshotTyped' /\ Idle'
    BY <1>4 DEF Control, SnapshotTyped, Idle, Running, ResetRows, Goto, transferVars, saveVars
  <2> QED
    BY <1>1, <2>3, <2>4, <2>5 DEF Control
<1>5. CASE Create
  <2>3. TypeOK'
    BY <1>5 DEF Control, TypeOK, Create, Goto, outside, serverVars, transferVars, saveVars, Phases
  <2>4. RowsTile'
    BY <1>5 DEF Control, RowsTile, Create, Goto, Total
  <2>5. SnapshotTyped' /\ Idle'
    BY <1>5 DEF Control, SnapshotTyped, Idle, Running, Create, Goto, transferVars, saveVars
  <2> QED
    BY <1>1, <2>3, <2>4, <2>5 DEF Control
<1> QED
  BY <1>3, <1>4, <1>5

(* The pieces a transfer begins with are the rows. *)
LEMMA IdentifyEffect ==
  ASSUME Control, Identify
  PROVE  /\ pieces' \in Seq(PieceType) /\ DOMAIN pieces' = DOMAIN rows /\ Len(pieces') = Len(rows)
         /\ \A i \in DOMAIN rows :
              /\ pieces'[i].start = rows[i].start /\ pieces'[i].downloaded = rows[i].downloaded
              /\ pieces'[i].len = IF Total = Unknown THEN Unknown
                                  ELSE rows[i].end - rows[i].start + 1
              /\ ~pieces'[i].busy
              /\ pieces'[i].len # Unknown => pieces'[i].downloaded <= pieces'[i].len
         /\ \A k \in Conns : conn'[k].at = "off"
         /\ \A k \in Conns : conn[k].at = "off"
<1>1. rows \in Seq(RowType) /\ Total \in Nat \cup {Unknown}
  BY DEF Control, TypeOK, RowType, Total
<1>2. Total # Unknown => Tiles(rows, Total)
  BY DEF Control, RowsTile, Identify
<1>3. pieces' = Load(rows, Total)
  BY DEF Identify
<1>4. \A k \in Conns : conn[k].at = "off" /\ conn'[k].at = "off"
  BY DEF Control, Owned, Identify
<1> QED
  BY <1>1, <1>2, <1>3, <1>4, LoadEffect

(* The transfer begins. *)
LEMMA IdentifyControl ==
  ASSUME Control, Identify
  PROVE  Control'
<1>1. /\ pieces' \in Seq(PieceType) /\ DOMAIN pieces' = DOMAIN rows
      /\ \A i \in DOMAIN rows :
           ~pieces'[i].busy /\ (pieces'[i].len # Unknown => pieces'[i].downloaded <= pieces'[i].len)
      /\ \A k \in Conns : conn'[k].at = "off"
  BY IdentifyEffect
<1>2. Cardinality(Conns) \in Nat \ {0}
  BY TransferAssumption, FS_CardinalityType, FS_EmptySet
<1>3. DOMAIN snapshot' = {}
  BY DEF Control, Idle, Running, Identify, saveVars
<1>4. target' \in (IF phase' = "transfer" THEN 1 ELSE 0)..Cardinality(Conns)
  BY <1>2 DEF Identify
<1>5. meta' \in [tag : Tagged \cup {None}, length : Nat \cup {Unknown}]
  BY DEF Control, TypeOK, Identify
<1>6. TypeOK'
  BY <1>1, <1>3, <1>4, <1>5
     DEF Control, TypeOK, Identify, PieceType, outside, serverVars, saveVars, Phases
<1>7. SnapshotTyped' /\ Idle' /\ RowsTile' /\ Fits'
  BY <1>1, <1>3 DEF SnapshotTyped, Idle, Running, RowsTile, Fits, Identify
<1>8. Owned' /\ Sources'
  BY <1>1 DEF Owned, Owns, Writing, Sources, Identify
<1> QED
  BY <1>6, <1>7, <1>8 DEF Control

(* `join_next` takes a connection that owns nothing. *)
LEMMA JoinEffect ==
  ASSUME Control, NEW c \in Conns, Join(c)
  PROVE  /\ Alone(c) /\ conn'[c] = NoConnection /\ conn'[c].at = "off"
         /\ ~Owns(c) /\ ~Owns(c)' /\ NoConnection \in Connection
<1>1. NoConnection \in Connection /\ NoConnection.at = "off"
  BY DEF NoConnection, Connection, Errors
<1>2. conn \in [Conns -> Connection] /\ conn' = [conn EXCEPT ![c] = NoConnection]
  BY DEF Control, TypeOK, Join
<1>3. Alone(c) /\ conn'[c] = NoConnection
  BY <1>1, <1>2, ConnReplaced DEF Alone
<1> QED
  BY <1>1, <1>3 DEF Join, Owns, Writing, Ends

(* `join_next` keeps Control. *)
LEMMA JoinControl ==
  ASSUME Control, NEW c \in Conns, Join(c)
  PROVE  Control'
<1>1. /\ Alone(c) /\ conn'[c] = NoConnection /\ conn'[c].at = "off"
      /\ ~Owns(c) /\ NoConnection \in Connection /\ NoConnection.at \notin Writing
  BY JoinEffect DEF Owns
<1>2. phase = "transfer" /\ phase' = "transfer" /\ pieces' = pieces
      /\ conn' = [conn EXCEPT ![c] = NoConnection]
  BY DEF Join
<1>3. Owned'
  BY <1>1, <1>2, OthersGoOn
<1>4. Sources' /\ Fits'
  BY <1>1, <1>2 DEF Control, Sources, Fits, Alone, HasRoom, Piece
<1>5. target' \in 1..Cardinality(Conns)
  <2>1. target \in 1..Cardinality(Conns) /\ Cardinality(Conns) \in Nat
    BY <1>2, TransferAssumption, FS_CardinalityType DEF Control, TypeOK
  <2>2. Fewer(target) \in 1..Cardinality(Conns)
    BY <2>1, MaxOfTwo DEF Fewer
  <2> QED
    BY <2>1, <2>2 DEF Join
<1>6. failure' \in {None, "failed", "cancelled"} /\ stop' \in BOOLEAN
  BY DEF Control, TypeOK, Join
<1>7. TypeOK'
  BY <1>1, <1>2, <1>5, <1>6
     DEF Control, TypeOK, Join, Alone, outside, serverVars, diskVars, saveVars
<1>8. SnapshotTyped' /\ Idle' /\ RowsTile'
  BY DEF Control, SnapshotTyped, Idle, Running, RowsTile, Join, saveVars
<1> QED
  BY <1>3, <1>4, <1>7, <1>8 DEF Control

(* One more connection, or none. *)
LEMMA RampUpControl ==
  ASSUME Control, RampUp
  PROVE  Control'
<1>1. signals' \in 0..MaxSignals
  <2>1. signals \in 0..MaxSignals /\ MaxSignals \in Nat
    BY TransferAssumption DEF Control, TypeOK
  <2>2. signals > 0 /\ signals' = signals - 1
    BY DEF RampUp
  <2> QED
    BY <2>1, <2>2
<1>2. CASE \E c \in Conns : Spawn(c)
  <2>1. PICK c \in Conns : Spawn(c)
    BY <1>2
  <2>2. Claims(c)
    BY <2>1, ClaimSteps DEF RampUp
  <2> QED
    BY <1>1, <2>2, ClaimsControl
<1>3. CASE UNCHANGED <<pieces, conn>>
  <2>1. Owned' /\ Sources' /\ Fits'
    BY <1>3, SameConnections DEF RampUp, loopVars
  <2>2. TypeOK'
    BY <1>1, <1>3 DEF Control, TypeOK, RampUp, outside, serverVars, diskVars, loopVars, saveVars
  <2>3. SnapshotTyped' /\ Idle' /\ RowsTile'
    BY <1>3 DEF Control, SnapshotTyped, Idle, RowsTile, Running, RampUp, loopVars, saveVars, diskVars
  <2> QED
    BY <2>1, <2>2, <2>3 DEF Control
<1> QED
  BY <1>2, <1>3 DEF RampUp

(* A snapshot is what the pieces have now. *)
LEMMA SnapshotEffect ==
  ASSUME Control, TakeSnapshot
  PROVE  /\ DOMAIN snapshot' \subseteq DOMAIN pieces
         /\ \A i \in DOMAIN snapshot' : snapshot'[i] = pieces[i].downloaded /\ snapshot'[i] \in Nat
         /\ saving' \in {"idle", "taken"}
<1>1. pieces \in Seq(PieceType)
  BY DEF Control, TypeOK, PieceType
<1>2. \A i \in DOMAIN pieces : pieces[i].downloaded \in Nat
  BY <1>1, PieceFields
<1> QED
  BY <1>2 DEF TakeSnapshot, Unsaved

(* The steps of the loop that only move it on. *)
LEMMA LoopControl ==
  ASSUME Control, Leave \/ FinalCheckpoint \/ Verify \/ Tick
  PROVE  Control'
<1>1. Owned' /\ Sources' /\ Fits'
  BY SameConnections DEF Leave, FinalCheckpoint, Verify, Tick, Goto, loopVars, transferVars
<1>2. phase \in {"transfer", "drain", "final"} /\ phase' \in {"transfer", "drain", "final", "verify"}
  BY DEF Leave, FinalCheckpoint, Verify, Tick, Goto, loopVars
<1>3. Cardinality(Conns) \in Nat
  BY TransferAssumption, FS_CardinalityType
<1>4. CASE Leave \/ Verify
  <2>1. /\ target' \in (IF phase' = "transfer" THEN 1 ELSE 0)..Cardinality(Conns)
        /\ signals' \in 0..MaxSignals /\ phase' \in Phases
    <3>1. phase' \in {"drain", "verify"} /\ target' = target /\ signals' \in {0, signals}
      BY <1>4 DEF Leave, Verify, Goto, transferVars
    <3>2. target \in (IF phase = "transfer" THEN 1 ELSE 0)..Cardinality(Conns)
      BY DEF Control, TypeOK
    <3>3. target \in 0..Cardinality(Conns)
      BY <1>3, <3>2
    <3>4. MaxSignals \in Nat /\ signals \in 0..MaxSignals
      BY TransferAssumption DEF Control, TypeOK
    <3> QED
      BY <3>1, <3>3, <3>4 DEF Phases
  <2>2. TypeOK'
    BY <1>4, <2>1
       DEF Control, TypeOK, Leave, Verify, Goto, outside, serverVars, diskVars, transferVars, saveVars
  <2>3. SnapshotTyped' /\ Idle' /\ RowsTile'
    BY <1>2, <1>4 DEF Control, SnapshotTyped, Idle, RowsTile, Running, Leave, Verify, saveVars, transferVars
  <2> QED
    BY <1>1, <2>2, <2>3 DEF Control
<1>5. CASE FinalCheckpoint \/ Tick
  <2>1. /\ DOMAIN snapshot' \subseteq DOMAIN pieces
        /\ \A i \in DOMAIN snapshot' : snapshot'[i] \in Nat
        /\ saving' \in {"idle", "taken"}
    BY <1>5, SnapshotEffect DEF FinalCheckpoint, Tick
  <2>2. TypeOK'
    BY <1>3, <1>5, <2>1
       DEF Control, TypeOK, FinalCheckpoint, Tick, Goto, outside, serverVars, diskVars, loopVars, Phases
  <2>3. SnapshotTyped' /\ Idle' /\ RowsTile'
    BY <1>2, <2>1 DEF SnapshotTyped, Idle, RowsTile, Running
  <2> QED
    BY <1>1, <2>2, <2>3 DEF Control
<1> QED
  BY <1>4, <1>5

(* The steps of a checkpoint. *)
LEMMA SavingControl ==
  ASSUME Control, Sync \/ Update \/ CheckpointFails
  PROVE  Control'
<1>1. Owned' /\ Sources' /\ Fits'
  BY SameConnections DEF Sync, Update, CheckpointFails, loopVars
<1>2. Running /\ phase' = phase
  BY DEF Control, Idle, Sync, Update, CheckpointFails, loopVars
<1>3. rows' \in Seq(RowType)
  <2>1. rows \in Seq(RowType) /\ \A i \in DOMAIN snapshot : snapshot[i] \in Nat
    BY DEF Control, TypeOK, RowType, SnapshotTyped
  <2> QED
    BY <2>1, UpdateEffect DEF Sync, Update, CheckpointFails, diskVars
<1>4. DOMAIN snapshot' \subseteq DOMAIN pieces /\ SnapshotTyped'
  BY DEF Control, TypeOK, SnapshotTyped, Sync, Update, CheckpointFails
<1>5. TypeOK'
  BY <1>3, <1>4
     DEF Control, TypeOK, RowType, Sync, Update, CheckpointFails, outside, serverVars, loopVars, diskVars
<1>6. Idle' /\ RowsTile'
  BY <1>2 DEF Idle, Running, RowsTile
<1> QED
  BY <1>1, <1>4, <1>5, <1>6 DEF Control

(* The end of a checkpoint changes nothing but what counts as saved. *)
LEMMA MarkSavedEffect ==
  ASSUME Control, MarkSaved
  PROVE  /\ pieces' \in Seq(PieceType) /\ DOMAIN pieces' = DOMAIN pieces /\ Len(pieces') = Len(pieces)
         /\ \A j \in DOMAIN pieces : /\ pieces'[j].busy = pieces[j].busy
                                     /\ pieces'[j].downloaded = pieces[j].downloaded
                                     /\ SamePlace(pieces'[j], pieces[j])
<1>1. pieces \in Seq(PieceType) /\ \A i \in DOMAIN snapshot : snapshot[i] \in Nat
  BY DEF Control, TypeOK, PieceType, SnapshotTyped
<1> QED
  BY <1>1, SavedEffect DEF MarkSaved

(* The end of a checkpoint keeps Control. *)
LEMMA MarkSavedControl ==
  ASSUME Control, MarkSaved
  PROVE  Control'
<1>1. /\ pieces' \in Seq(PieceType) /\ DOMAIN pieces' = DOMAIN pieces
      /\ \A j \in DOMAIN pieces : /\ pieces'[j].busy = pieces[j].busy
                                  /\ pieces'[j].downloaded = pieces[j].downloaded
                                  /\ SamePlace(pieces'[j], pieces[j])
  BY MarkSavedEffect
<1>2. Running /\ phase' = phase /\ conn' = conn /\ Owned
  BY DEF Control, Idle, MarkSaved, loopVars
<1>3. Owned'
  BY <1>1, <1>2 DEF Owned, Owns
<1>4. Fits'
  BY <1>1 DEF Control, Fits, SamePlace
<1>5. Sources'
  <2> SUFFICES ASSUME NEW l \in Conns, conn[l].at \in {"body", "written"}
               PROVE  conn[l].from \in Versions /\ (conn[l].at = "written" => HasRoom(l)')
    BY <1>2 DEF Sources
  <2>1. Owns(l)
    BY DEF Owns, Writing
  <2>2. pieces'[conn[l].piece].len = pieces[conn[l].piece].len
    BY <1>1, <1>2, <2>1 DEF Owned, SamePlace
  <2> QED
    BY <1>2, <2>2 DEF Control, Sources, HasRoom, Piece
<1>6. TypeOK'
  BY <1>1 DEF Control, TypeOK, PieceType, MarkSaved, outside, serverVars, loopVars, diskVars
<1>7. SnapshotTyped' /\ Idle' /\ RowsTile'
  BY <1>2 DEF SnapshotTyped, Idle, Running, RowsTile, MarkSaved
<1> QED
  BY <1>3, <1>4, <1>5, <1>6, <1>7 DEF Control

(* A worker ends, or the process or the machine stops: any file a crash may  *)
(* leave is one.                                                             *)
LEMMA EndControl ==
  ASSUME Control, Publish \/ GiveUp \/ Crash
  PROVE  Control'
<1>1. /\ cache \in Seq(Versions \cup {Hole}) /\ disk \in Seq(Versions \cup {Hole})
      /\ delivered \subseteq Seq(Versions \cup {Hole})
  BY DEF Control, TypeOK
<1>2. CASE Publish
  BY <1>1, <1>2, DroppedControl DEF Publish
<1>3. CASE GiveUp
  <2>1. UNCHANGED <<outside, rows, meta, ticks, cache, disk, delivered>> /\ Dropped("off")
    BY <1>3 DEF GiveUp, diskVars
  <2> QED
    BY <1>1, <2>1, DroppedControl
<1>4. CASE Crash
  <2>1. PICK f \in Survivors(cache, disk) : cache' = f /\ disk' = f
    BY <1>4 DEF Crash
  <2>2. f \in Seq(Versions \cup {Hole})
    BY <1>1, SurvivorsEffect
  <2> QED
    BY <1>1, <1>4, <2>1, <2>2, DroppedControl DEF Crash
<1> QED
  BY <1>2, <1>3, <1>4

(* What happens around the worker. *)
LEMMA AroundControl ==
  ASSUME Control, Cancel \/ ServerChanges \/ UNCHANGED vars
  PROVE  Control'
<1>1. /\ UNCHANGED <<rows, meta, cache, disk, delivered, phase, probe, target, failure, runs>>
      /\ UNCHANGED <<pieces, conn, signals, saving, snapshot, ticks>>
  BY DEF Cancel, ServerChanges, vars, outside, serverVars, diskVars, loopVars, transferVars, saveVars
<1>2. Owned' /\ Sources' /\ Fits'
  BY <1>1, SameConnections
<1>3. server' \in Servers /\ gone' \subseteq Versions /\ returned' \in BOOLEAN /\ changes' \in Nat
      /\ {cancelled', stop'} \subseteq BOOLEAN
  <2>1. server.version \in Versions
    BY TransferAssumption DEF Control, TypeOK
  <2>2. CASE ServerChanges
    <3>1. PICK s \in Servers :
            /\ server' = s /\ gone' = gone \cup ({server.version} \ {s.version})
            /\ returned' = (returned \/ s.version \in gone)
      BY <2>2 DEF ServerChanges
    <3>2. changes' = changes + 1 /\ cancelled' = cancelled /\ stop' = stop
      BY <2>2 DEF ServerChanges, loopVars
    <3>3. /\ gone \subseteq Versions /\ changes \in Nat /\ {cancelled, stop} \subseteq BOOLEAN
      BY DEF Control, TypeOK
    <3>4. gone' \subseteq Versions /\ server' \in Servers
      BY <2>1, <3>1, <3>3
    <3>5. returned' \in BOOLEAN
      BY <3>1
    <3>6. changes' \in Nat /\ {cancelled', stop'} \subseteq BOOLEAN
      BY <3>2, <3>3
    <3> QED
      BY <3>4, <3>5, <3>6
  <2>3. CASE Cancel
    BY <2>3 DEF Cancel, Control, TypeOK, outside, serverVars
  <2>4. CASE UNCHANGED vars
    BY <2>4 DEF Control, TypeOK, vars, serverVars, loopVars
  <2> QED
    BY <2>2, <2>3, <2>4
<1>4. TypeOK'
  BY <1>1, <1>3 DEF Control, TypeOK
<1>5. SnapshotTyped' /\ Idle' /\ RowsTile'
  BY <1>1 DEF Control, SnapshotTyped, Idle, RowsTile, Running, Total
<1> QED
  BY <1>2, <1>4, <1>5 DEF Control

(* Every step of a connection. *)
LEMMA ConnControl ==
  ASSUME Control, NEW c \in Conns, ConnStep(c) \/ ConnFault(c)
  PROVE  Control'
<1>1. CASE QuietStep(c)
  BY <1>1, QuietSteps, QuietControl
<1>2. CASE RestartFirst(c) \/ PartialContent(c) \/ WholeBody(c) \/ Write(c)
  BY <1>2, OwnerKeepsSteps
<1>3. CASE GiveBack(c) \/ Quit(c)
  BY <1>3, ReleaseSteps, ReleasesControl
<1>4. CASE ClaimNext(c)
  <2>1. signals' \in 0..MaxSignals
    BY <1>4 DEF ClaimNext, OnlyPieces, Control, TypeOK
  <2> QED
    BY <1>4, <2>1, ClaimSteps, ClaimsControl
<1> QED
  BY <1>1, <1>2, <1>3, <1>4, RestartedControl, CountControl, EndOfBodyControl
     DEF ConnStep, ConnFault, QuietStep

(* Control holds at first. *)
LEMMA InitControl ==
  ASSUME Init
  PROVE  Control
<1>1. NoConnection \in Connection /\ NoConnection.at = "off"
  BY DEF NoConnection, Connection, Errors
<1>2. conn \in [Conns -> Connection] /\ \A k \in Conns : conn[k].at = "off"
  BY <1>1 DEF Init
<1>3. Cardinality(Conns) \in Nat
  BY TransferAssumption, FS_CardinalityType
<1>4. NoIdentity \in [tag : Tagged \cup {None}, length : Nat \cup {Unknown}]
  BY DEF NoIdentity
<1>5. TypeOK
  <2>1. /\ target \in (IF phase = "transfer" THEN 1 ELSE 0)..Cardinality(Conns)
        /\ signals \in 0..MaxSignals /\ phase \in Phases
    BY <1>3, TransferAssumption DEF Init, Phases
  <2>2. probe \in [identity : [tag : Tagged \cup {None}, length : Nat \cup {Unknown}],
                   ranged : BOOLEAN]
    BY <1>4 DEF Init
  <2>3. /\ rows = <<>> /\ cache = <<>> /\ disk = <<>> /\ pieces = <<>> /\ snapshot = <<>>
        /\ delivered = {} /\ meta = NoIdentity /\ server \in Servers /\ gone = {} /\ returned = FALSE
        /\ failure = None /\ cancelled = FALSE /\ stop = FALSE /\ saving = "idle"
        /\ runs = 0 /\ changes = 0 /\ ticks = 0
    BY DEF Init
  <2>4. /\ \A S : <<>> \in Seq(S)
        /\ DOMAIN snapshot \subseteq DOMAIN pieces
    BY <2>3
  <2>5. /\ {cache, disk} \subseteq Seq(Versions \cup {Hole})
        /\ delivered \subseteq Seq(Versions \cup {Hole})
        /\ rows \in Seq([start : Nat, end : Nat, downloaded : Nat])
        /\ pieces \in Seq([start : Nat, len : Nat \cup {Unknown}, downloaded : Nat,
                           persisted : Nat, busy : BOOLEAN])
    BY <2>3, <2>4
  <2>6. /\ server \in Servers /\ gone \subseteq Versions /\ returned \in BOOLEAN
        /\ meta \in [tag : Tagged \cup {None}, length : Nat \cup {Unknown}]
        /\ failure \in {None, "failed", "cancelled"} /\ {cancelled, stop} \subseteq BOOLEAN
        /\ saving \in {"idle", "taken", "synced", "updated"} /\ {runs, changes, ticks} \subseteq Nat
    <3>1. server \in Servers /\ gone \subseteq Versions /\ returned \in BOOLEAN
      BY <2>3
    <3>2. meta \in [tag : Tagged \cup {None}, length : Nat \cup {Unknown}]
      BY <1>4, <2>3
    <3>3. failure \in {None, "failed", "cancelled"} /\ saving \in {"idle", "taken", "synced", "updated"}
      BY <2>3
    <3>4. {cancelled, stop} \subseteq BOOLEAN
      BY <2>3
    <3>5. {runs, changes, ticks} \subseteq Nat
      BY <2>3
    <3> QED
      BY <3>1, <3>2, <3>3, <3>4, <3>5
  <2> QED
    BY <1>2, <2>1, <2>2, <2>4, <2>5, <2>6 DEF TypeOK
<1> QED
  BY <1>2, <1>5
     DEF Control, Init, SnapshotTyped, Idle, Owned, Owns, Writing, Sources, Fits, RowsTile

(* Every step keeps Control. *)
LEMMA NextControl ==
  ASSUME Control, [Next]_vars
  PROVE  Control'
<1>1. ASSUME NEW c \in Conns, SpawnFirst(c) PROVE Control'
  <2>1. signals' \in 0..MaxSignals
    BY <1>1 DEF SpawnFirst, Control, TypeOK
  <2> QED
    BY <1>1, <2>1, ClaimSteps, ClaimsControl
<1>2. CASE LoopStep
  BY <1>1, <1>2, PrepareControl, IdentifyControl, JoinControl, RampUpControl, LoopControl, EndControl
     DEF LoopStep, Prepare
<1>3. CASE Tick \/ Checkpoint \/ CheckpointFails
  BY <1>3, LoopControl, SavingControl, MarkSavedControl DEF Checkpoint
<1>4. CASE \E c \in Conns : ConnStep(c) \/ ConnFault(c)
  BY <1>4, ConnControl
<1> QED
  BY <1>2, <1>3, <1>4, BeginControl, EndControl, AroundControl DEF Next

(* Control is an inductive invariant, for any number of connections, pieces  *)
(* and versions and any bounds.                                              *)
THEOREM ControlIsInvariant == Spec => []Control
  BY InitControl, NextControl, PTL DEF Spec

(* Every state of a transfer has the types that TypeOK gives it. *)
THEOREM TransferTyped == Spec => []TypeOK
<1>1. Control => TypeOK
  BY DEF Control
<1> QED
  BY <1>1, ControlIsInvariant, PTL

(* No two connections ever write the same piece, however `claim`, `advance`, *)
(* `release`, a failed connection and a cancelled job interleave (chunk.rs). *)
THEOREM OneWriter == Spec => []OneWriterPerPiece
<1>1. ASSUME Control, NEW i \in DOMAIN pieces
      PROVE  Cardinality(Writers(i)) = IF pieces[i].busy THEN 1 ELSE 0
  <2>1. \A k, l \in Writers(i) : k = l
    BY <1>1 DEF Control, Owned, Writers, Owns
  <2>2. CASE pieces[i].busy
    <3>1. PICK k \in Conns : Owns(k) /\ conn[k].piece = i
      BY <1>1, <2>2 DEF Control, Owned
    <3>2. Writers(i) = {k}
      BY <2>1, <3>1 DEF Writers, Owns
    <3> QED
      BY <2>2, <3>2, FS_Singleton
  <2>3. CASE ~pieces[i].busy
    <3>1. Writers(i) = {}
      BY <1>1, <2>3 DEF Control, Owned, Writers, Owns
    <3> QED
      BY <2>3, <3>1, FS_EmptySet
  <2> QED
    BY <2>2, <2>3
<1>2. Control => OneWriterPerPiece
  BY <1>1 DEF OneWriterPerPiece
<1> QED
  BY <1>2, ControlIsInvariant, PTL

-----------------------------------------------------------------------------
(* The kinds of steps *)

(* A whole body is taken. *)
Takes(c) ==
  /\ OwnerKeeps(c) /\ conn[c].at = "asked" /\ conn'[c].from = server.version
  /\ conn'[c].at = IF Ranged(c) THEN "restart" ELSE "body"
  /\ cache' = IF Ranged(c) THEN Truncated ELSE cache
  /\ ConnFrame /\ UNCHANGED signals
  /\ ~ServesRange(c) /\ ~RequireRange

(* A body ends where its piece does. *)
Finishes(c) ==
  LET i == conn[c].piece
  IN  /\ Owns(c) /\ Owns(c)' /\ Alone(c) /\ conn[c].at = "body"
      /\ conn[c].from \in Versions /\ Offset(c) >= Size[conn[c].from]
      /\ conn'[c].piece = i /\ conn'[c].downloaded = conn[c].downloaded
      /\ conn'[c].at = "fetched" /\ conn'[c].from = None
      /\ conn'[c].error = conn[c].error
      /\ pieces[i].len \in {Unknown, conn[c].downloaded}
      /\ pieces' \in Seq(PieceType) /\ DOMAIN pieces' = DOMAIN pieces
      /\ Len(pieces') = Len(pieces)
      /\ \A j \in DOMAIN pieces \ {i} : pieces'[j] = pieces[j]
      /\ pieces'[i].busy = pieces[i].busy
      /\ pieces'[i].downloaded = pieces[i].downloaded
      /\ pieces'[i].start = pieces[i].start
      /\ pieces'[i].len = pieces[i].downloaded
      /\ ConnFrame /\ UNCHANGED <<cache, signals>>

(* The steps of the connections, and what is common to them. *)
ConnKind(c) ==
  \/ Quiet(c) \/ Claims(c) \/ Releases(c)
  \/ RestartFirst(c) \/ Restarted(c) \/ PartialContent(c) \/ Takes(c)
  \/ Write(c) \/ CountedOn(c) \/ CountedEnd(c) \/ CountedAdvance(c) \/ Finishes(c)

(* Every step of a connection is one of them. *)
LEMMA ConnKinds ==
  ASSUME Control, NEW c \in Conns, ConnStep(c) \/ ConnFault(c)
  PROVE  ConnKind(c)
<1>1. WholeBody(c) => Quiet(c) \/ Takes(c)
  BY WholeBodyEffect DEF Takes, WholeBody, Asks
<1>2. EndOfBody(c) => Quiet(c) \/ Finishes(c)
  BY EndOfBodyEffect DEF Finishes
<1> QED
  BY <1>1, <1>2, QuietSteps, ClaimSteps, ReleaseSteps, CountEffect
     DEF ConnStep, ConnFault, QuietStep, ConnKind

(* Nothing but the signals changes. *)
Idles ==
  UNCHANGED <<serverVars, diskVars, loopVars, pieces, conn, saveVars, runs, ticks>>

(* The next-state relation by such kinds. *)
LEMMA NextKinds ==
  ASSUME Control, [Next]_vars
  PROVE  \/ Begin \/ Resume \/ ResetRows \/ Create \/ Identify \/ Leave \/ FinalCheckpoint
         \/ Verify \/ Publish \/ GiveUp \/ Tick \/ Sync \/ Update \/ MarkSaved
         \/ CheckpointFails \/ Cancel \/ Crash \/ ServerChanges \/ Idles
         \/ \E c \in Conns : Join(c) \/ ConnKind(c)
<1>1. UNCHANGED vars => Idles
  BY DEF vars, Idles
<1>2. RampUp => Idles \/ \E c \in Conns : Claims(c)
  BY ClaimSteps DEF RampUp, Idles, outside
<1>3. ASSUME NEW c \in Conns, SpawnFirst(c) PROVE Claims(c)
  BY <1>3, ClaimSteps
<1> QED
  BY <1>1, <1>2, <1>3, ConnKinds DEF Next, LoopStep, Prepare, Checkpoint, ConnKind

(* What they have in common. *)
LEMMA ConnKindFrame ==
  ASSUME Control, NEW c \in Conns, ConnKind(c)
  PROVE  /\ ConnFrame /\ phase = "transfer" /\ phase' = "transfer" /\ Alone(c)
         /\ pieces' \in Seq(PieceType) /\ DOMAIN pieces' = DOMAIN pieces
         /\ Len(pieces') = Len(pieces)
         /\ \A j \in DOMAIN pieces :
              /\ pieces'[j].start = pieces[j].start
              /\ pieces'[j].len = IF Finishes(c) /\ j = conn[c].piece
                                  THEN pieces[j].downloaded ELSE pieces[j].len
<1>0. pieces \in Seq(PieceType)
  BY DEF Control, TypeOK, PieceType
<1>1. ConnFrame
  BY RestartFirstEffect, PartialContentEffect, RestartedEffect, WriteEffect
     DEF ConnKind, Quiet, Claims, Releases, Takes, CountedOn, CountedEnd, CountedAdvance, Counted, Finishes
<1>2. Alone(c)
  BY QuietEffect, ClaimsEffect, ReleasesEffect, RestartFirstEffect, PartialContentEffect,
     RestartedEffect, WriteEffect
     DEF ConnKind, Takes, OwnerKeeps, CountedOn, CountedEnd, CountedAdvance, Counted, Finishes, Alone
<1>3. phase = "transfer"
  <2>1. conn[c].at # "off" \/ Claims(c)
    BY DEF ConnKind, Quiet, Moves, Releases, RestartFirst, Restarted, PartialContent, Asks, Takes, Write,
           CountedOn, CountedEnd, CountedAdvance, Counted, Finishes
  <2> QED
    BY <2>1, Transferring DEF Claims
<1>4. CASE Quiet(c) \/ RestartFirst(c) \/ PartialContent(c) \/ Takes(c) \/ Write(c)
  <2>1. pieces' = pieces
    BY <1>4, RestartFirstEffect, PartialContentEffect, WriteEffect DEF Quiet, Takes, OwnerKeeps
  <2>2. ~Finishes(c)
    BY <1>4, QuietEffect, RestartFirstEffect, PartialContentEffect, WriteEffect
       DEF Finishes, Takes, RestartFirst, PartialContent, Asks, Write
  <2> QED
    BY <1>0, <1>1, <1>2, <1>3, <2>1, <2>2 DEF ConnFrame, loopVars
<1>5. CASE Claims(c) \/ Releases(c) \/ Restarted(c)
  <2>1. /\ pieces' \in Seq(PieceType) /\ DOMAIN pieces' = DOMAIN pieces
        /\ Len(pieces') = Len(pieces)
        /\ \A j \in DOMAIN pieces : SamePlace(pieces'[j], pieces[j])
    BY <1>5, ClaimsEffect, ReleasesEffect, RestartedEffect DEF SamePlace
  <2>2. ~Finishes(c)
    BY <1>5 DEF Finishes, Claims, Releases, Restarted
  <2> QED
    BY <1>1, <1>2, <1>3, <2>1, <2>2 DEF ConnFrame, loopVars, SamePlace
<1>6. CASE CountedOn(c) \/ CountedEnd(c) \/ CountedAdvance(c)
  <2>1. Counted(c)
    BY <1>6 DEF CountedOn, CountedEnd, CountedAdvance
  <2> QED
    BY <1>1, <1>2, <1>3, <2>1 DEF ConnFrame, loopVars, SamePlace, Counted, Finishes
<1>7. CASE Finishes(c)
  BY <1>1, <1>2, <1>3, <1>7 DEF ConnFrame, loopVars, Finishes
<1> QED
  BY <1>4, <1>5, <1>6, <1>7 DEF ConnKind

-----------------------------------------------------------------------------
(* The pieces are the rows *)

(* The length of a row. *)
RowLen(i) == rows[i].end - rows[i].start + 1
(* No row has anything. *)
NothingCounted == \A i \in DOMAIN rows : rows[i].downloaded = 0
(* The pieces in memory are the rows in the database, cut as planned; more   *)
(* than one piece only with a validator to ask for.                          *)
Shape ==
  /\ phase \in {"create", "identify"} \/ Running =>
       Planned(rows, Total) /\ (Len(rows) > 1 => IfRange # None)
  /\ phase = "create" => NothingCounted
  /\ Running =>
       /\ meta = probe.identity
       /\ DOMAIN pieces = DOMAIN rows
       /\ \A i \in DOMAIN pieces : pieces[i].start = rows[i].start
       /\ Total # Unknown => \A i \in DOMAIN pieces : pieces[i].len = RowLen(i)
       /\ Total # Unknown => \A i \in DOMAIN snapshot : snapshot[i] <= RowLen(i)
  /\ phase = "prepare" /\ probe.ranged => IfRange # None
  /\ 1 \in DOMAIN rows => rows[1].start = 0

(* The types of what the database and the disk hold. *)
LEMMA ShapeTypes ==
  ASSUME Control
  PROVE  /\ rows \in Seq(RowType) /\ pieces \in Seq(PieceType)
         /\ Total \in Nat \cup {Unknown} /\ Unknown \notin Nat
         /\ IfRange \in Tagged \cup {None} /\ probe.ranged \in BOOLEAN
         /\ cache \in Seq(Versions \cup {Hole}) /\ disk \in Seq(Versions \cup {Hole})
         /\ DOMAIN snapshot \subseteq DOMAIN pieces
         /\ \A i \in DOMAIN snapshot : snapshot[i] \in Nat
         /\ meta.tag \in Tagged \cup {None} /\ meta.length \in Nat \cup {Unknown}
         /\ server.version \in Versions /\ server.ranges \in BOOLEAN
         /\ gone \subseteq Versions /\ returned \in BOOLEAN
         /\ None \notin Versions /\ Hole \notin Versions
  BY TransferAssumption, TransferNames
     DEF Control, TypeOK, RowType, PieceType, SnapshotTyped, Total, IfRange, Unknown

(* A step of a connection. *)
LEMMA ShapeConn ==
  ASSUME Control, Shape, NEW c \in Conns, ConnKind(c)
  PROVE  Shape'
<1>1. /\ ConnFrame /\ phase = "transfer" /\ phase' = "transfer"
      /\ DOMAIN pieces' = DOMAIN pieces
      /\ \A j \in DOMAIN pieces :
           /\ pieces'[j].start = pieces[j].start
           /\ pieces'[j].len = IF Finishes(c) /\ j = conn[c].piece
                               THEN pieces[j].downloaded ELSE pieces[j].len
  BY ConnKindFrame
<1>2. UNCHANGED <<rows, meta, probe, snapshot>>
  BY <1>1 DEF ConnFrame, loopVars, saveVars
<1>3. Total # Unknown => \A j \in DOMAIN pieces : pieces'[j].len = pieces[j].len
  <2> SUFFICES ASSUME Total # Unknown, NEW j \in DOMAIN pieces, Finishes(c), j = conn[c].piece
               PROVE  pieces[j].downloaded = pieces[j].len
    BY <1>1
  <2>1. pieces[j].len # Unknown
    <3>1. pieces[j].len = RowLen(j)
      BY <1>1 DEF Shape, Running
    <3>2. rows[j] \in RowType /\ rows[j].end >= rows[j].start
      BY <1>1, ShapeTypes DEF Shape, Running, Planned, Tiles
    <3> QED
      BY <3>1, <3>2 DEF RowLen, RowType, Unknown
  <2>2. pieces[j].len \in {Unknown, conn[c].downloaded} /\ conn[c].downloaded = pieces[j].downloaded
    BY OwnedPiece DEF Finishes, Piece
  <2> QED
    BY <2>1, <2>2
<1> QED
  BY <1>1, <1>2, <1>3 DEF Shape, Running, Total, IfRange, Planned, RowLen, NothingCounted

(* The rows, the metadata and the pieces stay, except what counts as saved. *)
LEMMA ShapeStays ==
  ASSUME Control, Shape, UNCHANGED <<rows, meta, probe>>,
         phase' = phase \/ (Running /\ Running'),
         \A i \in DOMAIN snapshot' : i \in DOMAIN snapshot /\ snapshot'[i] = snapshot[i],
         DOMAIN pieces' = DOMAIN pieces,
         \A j \in DOMAIN pieces : SamePlace(pieces'[j], pieces[j])
  PROVE  Shape'
<1>1. Running' => Running
  BY DEF Running
<1> QED
  BY <1>1 DEF Shape, Running, Total, IfRange, Planned, RowLen, NothingCounted, SamePlace

(* Every step keeps Shape. *)
LEMMA ShapeNext ==
  ASSUME Control, Shape, [Next]_vars
  PROVE  Shape'
<1>0. \A j \in DOMAIN pieces : SamePlace(pieces[j], pieces[j])
  BY DEF SamePlace
<1>1. CASE Begin
  <2>1. phase' = "prepare" /\ probe'.ranged = (server.ranges /\ Identity.tag # None)
        /\ probe'.identity = Identity
    BY <1>1 DEF Begin
  <2>2. rows' = rows
    BY <1>1 DEF Begin, diskVars
  <2> QED
    BY <2>1, <2>2 DEF Shape, Running, IfRange
<1>2. CASE Resume
  <2>1. phase' = "identify" /\ UNCHANGED <<rows, probe>>
        /\ Resumable(rows, Total, probe.ranged, Len(cache)) /\ SameResource(meta, probe.identity)
    BY <1>2 DEF Resume, Resumes, Goto
  <2>2. IfRange # None
    BY <2>1 DEF SameResource, IfRange
  <2>3. Total = Unknown => Len(rows) = 1
    BY <2>1 DEF Resumable
  <2>4. Planned(rows, Total)
    <3>1. Total = Unknown => 1 \in DOMAIN rows
      BY <2>3, ShapeTypes
    <3> QED
      BY <2>1, <2>3, <3>1 DEF Resumable, Planned, Shape
  <2> QED
    BY <2>1, <2>2, <2>4 DEF Shape, Running, IfRange, Total
<1>3. CASE ResetRows
  <2>1. phase = "prepare" /\ phase' = "create" /\ rows' = PlanPieces(Total, probe.ranged) /\ probe' = probe
    BY <1>3 DEF ResetRows, Goto
  <2>2. /\ Planned(rows', Total) /\ NothingCounted' /\ (~probe.ranged => Len(rows') <= 1)
        /\ rows' \in Seq(RowType)
    BY <2>1, PlanIsPlanned, ShapeTypes DEF NothingCounted
  <2>3. Len(rows') > 1 => IfRange # None
    BY <2>1, <2>2 DEF Shape
  <2>4. 1 \in DOMAIN rows' => rows'[1].start = 0
    BY <2>1, <2>2, ShapeTypes DEF Planned, Tiles
  <2> QED
    BY <2>1, <2>2, <2>3, <2>4 DEF Shape, Running, IfRange, Total
<1>4. CASE Create
  BY <1>4 DEF Create, Goto, Shape, Running, IfRange, Total
<1>5. CASE Identify
  <2>1. /\ DOMAIN pieces' = DOMAIN rows
        /\ \A i \in DOMAIN rows :
              /\ pieces'[i].start = rows[i].start
              /\ pieces'[i].len = IF Total = Unknown THEN Unknown
                                  ELSE rows[i].end - rows[i].start + 1
    BY <1>5, IdentifyEffect
  <2>2. /\ phase = "identify" /\ phase' = "transfer" /\ UNCHANGED <<rows, probe, snapshot>>
        /\ meta' = probe.identity
    BY <1>5 DEF Identify, saveVars
  <2>3. DOMAIN snapshot' = {}
    BY <2>2 DEF Control, Idle, Running
  <2> QED
    BY <2>1, <2>2, <2>3 DEF Shape, Running, Total, IfRange, RowLen
<1>6. CASE Leave \/ Verify \/ Sync \/ CheckpointFails \/ Cancel \/ Idles
  <2>1. UNCHANGED <<rows, meta, probe, pieces>>
    BY <1>6 DEF Leave, Verify, Sync, CheckpointFails, Cancel, Idles, Goto, diskVars, loopVars, transferVars
  <2>2. phase' = phase \/ (Running /\ Running')
    BY <1>6 DEF Leave, Verify, Sync, CheckpointFails, Cancel, Idles, Goto, loopVars, Running
  <2>3. \A i \in DOMAIN snapshot' : i \in DOMAIN snapshot /\ snapshot'[i] = snapshot[i]
    BY <1>6 DEF Leave, Verify, Sync, CheckpointFails, Cancel, Idles, saveVars, transferVars
  <2> QED
    BY <1>0, <2>1, <2>2, <2>3, ShapeStays
<1>7. CASE ServerChanges
  <2>1. UNCHANGED <<rows, meta, probe, pieces, phase, snapshot>>
    BY <1>7 DEF ServerChanges, diskVars, loopVars, transferVars, saveVars
  <2> QED
    BY <1>0, <2>1, ShapeStays
<1>8. CASE MarkSaved
  <2>1. UNCHANGED <<rows, meta, probe, phase>> /\ snapshot' = <<>>
    BY <1>8 DEF MarkSaved, diskVars, loopVars
  <2> QED
    BY <1>8, <2>1, MarkSavedEffect, ShapeStays
<1>9. CASE FinalCheckpoint \/ Tick
  <2>1. /\ DOMAIN snapshot' \subseteq DOMAIN pieces
        /\ \A i \in DOMAIN snapshot' : snapshot'[i] = pieces[i].downloaded
    BY <1>9, SnapshotEffect DEF FinalCheckpoint, Tick
  <2>2. UNCHANGED <<rows, meta, probe, pieces>> /\ Running /\ Running'
    BY <1>9 DEF FinalCheckpoint, Tick, Goto, diskVars, loopVars, Running
  <2>3. ASSUME Total # Unknown, NEW i \in DOMAIN snapshot' PROVE snapshot'[i] <= RowLen(i)
    <3>1. pieces[i].len = RowLen(i)
      BY <2>1, <2>2, <2>3 DEF Shape
    <3>2. rows[i] \in RowType /\ rows[i].end >= rows[i].start
      BY <2>1, <2>2, <2>3, ShapeTypes DEF Shape, Planned, Tiles
    <3>3. pieces[i].len # Unknown
      BY <3>1, <3>2 DEF RowLen, RowType, Unknown
    <3> QED
      BY <2>1, <3>1, <3>3 DEF Control, Fits
  <2> QED
    BY <2>2, <2>3 DEF Shape, Running, Total, IfRange, RowLen, NothingCounted
<1>10. CASE Update
  <2>1. UNCHANGED <<meta, probe, pieces, phase, snapshot>> /\ rows' = UpdateChunks(rows, snapshot)
    BY <1>10 DEF Update, loopVars
  <2>2. Running
    BY <1>10 DEF Update, Control, Idle
  <2>3. /\ rows' \in Seq(RowType) /\ DOMAIN rows' = DOMAIN rows /\ Len(rows') = Len(rows)
        /\ \A j \in DOMAIN rows :
                  /\ rows'[j].start = rows[j].start /\ rows'[j].end = rows[j].end
                  /\ rows'[j].downloaded = IF j \in DOMAIN snapshot THEN snapshot[j] ELSE rows[j].downloaded
    BY <2>1, ShapeTypes, UpdateEffect
  <2>4. Planned(rows', Total)
    <3>1. CASE Total = Unknown
      BY <2>2, <2>3, <3>1 DEF Shape, Planned
    <3>2. CASE Total # Unknown
      <4>1. Tiles(rows, Total) /\ \A i \in DOMAIN snapshot : snapshot[i] <= RowLen(i)
        BY <2>2, <3>2 DEF Shape, Planned
      <4>2. ASSUME NEW i \in DOMAIN rows'
            PROVE  /\ rows'[i].start = IF i = 1 THEN 0 ELSE rows'[i - 1].end + 1
                   /\ rows'[i].end >= rows'[i].start
                   /\ rows'[i].downloaded <= rows'[i].end - rows'[i].start + 1
        <5>1. i # 1 => i - 1 \in DOMAIN rows
          BY <2>3, ShapeTypes
        <5> QED
          BY <2>3, <4>1, <5>1 DEF Tiles, RowLen
      <4>3. rows = <<>> <=> rows' = <<>>
        BY <2>3, ShapeTypes
      <4>4. rows # <<>> => Len(rows) \in DOMAIN rows
        BY ShapeTypes
      <4>5. Total = IF rows' = <<>> THEN 0 ELSE rows'[Len(rows')].end + 1
        BY <2>3, <4>1, <4>3, <4>4 DEF Tiles
      <4> QED
        BY <3>2, <4>2, <4>5 DEF Planned, Tiles
    <3> QED
      BY <3>1, <3>2
  <2>5. phase # "create" /\ phase # "prepare"
    BY <2>2 DEF Running
  <2>6. /\ meta' = probe'.identity /\ DOMAIN pieces' = DOMAIN rows'
        /\ \A i \in DOMAIN pieces' : pieces'[i].start = rows'[i].start
        /\ Len(rows') > 1 => IfRange' # None
        /\ Total' = Total /\ Planned(rows', Total')
    BY <2>1, <2>2, <2>3, <2>4 DEF Shape, Total, IfRange
  <2>7. \A i \in DOMAIN rows : RowLen(i)' = RowLen(i)
    BY <2>3 DEF RowLen
  <2>8. ASSUME Total # Unknown
        PROVE  /\ \A i \in DOMAIN pieces' : pieces'[i].len = RowLen(i)'
               /\ \A i \in DOMAIN snapshot' : snapshot'[i] <= RowLen(i)'
    BY <2>1, <2>2, <2>7, <2>8, ShapeTypes DEF Shape
  <2>9. 1 \in DOMAIN rows' => rows'[1].start = 0
    BY <2>3 DEF Shape
  <2> QED
    BY <2>1, <2>5, <2>6, <2>8, <2>9 DEF Shape
<1>11. CASE Publish \/ GiveUp \/ Crash
  <2>1. phase' \in {"off", "done"} /\ rows' = rows
    BY <1>11 DEF Publish, GiveUp, Crash, Dropped, diskVars
  <2> QED
    BY <2>1 DEF Shape, Running
<1>12. ASSUME NEW c \in Conns, Join(c) PROVE Shape'
  <2>1. UNCHANGED <<rows, meta, probe, pieces, phase, snapshot>>
    BY <1>12 DEF Join, diskVars, saveVars
  <2> QED
    BY <1>0, <2>1, ShapeStays
<1> QED
  BY <1>1, <1>2, <1>3, <1>4, <1>5, <1>6, <1>7, <1>8, <1>9, <1>10, <1>11, <1>12, ShapeConn, NextKinds

-----------------------------------------------------------------------------
(* Requests and answers *)

(* One piece, for which whole bodies do. *)
Single == Len(pieces) = 1
(* What a connection may be doing: where it is in the body it reads, whose   *)
(* body that is, and when its piece is complete.                             *)
Asked(k) ==
  /\ conn[k].at = "asked" => ~MustRestart(k)
  /\ conn[k].at = "restart" => Single /\ (conn[k].from = None => IfRange = None)
  /\ conn[k].at = "written" => Offset(k) < Size[conn[k].from]
  /\ conn[k].at = "body" => Offset(k) <= Size[conn[k].from]
  /\ conn[k].at \in {"body", "written"} /\ Len(pieces) > 1 => conn[k].from = IfRange
  /\ conn[k].at \in {"restart", "body", "written"} /\ conn[k].from # None /\ IfRange # None =>
       conn[k].from = IfRange \/ IfRange \in gone
  /\ Owns(k) /\ Total = Unknown /\ Piece(k).len # Unknown => conn[k].at = "fetched"
  /\ Single => ~(Owns(k) /\ conn[k].error = "refused") /\ conn[k].at # "refused"
  /\ conn[k].at = "fetched" => Complete(Piece(k))
(* ... for every connection. *)
Requests == \A k \in Conns : Asked(k)
(* A stream of unknown length has one only when it ended. *)
StreamEnds ==
  Running /\ Total = Unknown => \A i \in DOMAIN pieces : pieces[i].len = Unknown \/ Complete(pieces[i])
(* A probe tells the length of what it names, or none. *)
HonestLength(id) ==
  id.tag # None => id.length = IF id.tag \in Announced THEN Size[id.tag] ELSE Unknown
(* What is known of the server and what it held before. *)
Identities ==
  /\ server.version \in gone => returned
  /\ HonestLength(meta) /\ HonestLength(probe.identity)
  /\ phase \notin {"off", "done"} /\ IfRange # None /\ server.version # IfRange => IfRange \in gone
  /\ Total # Unknown => \E y \in Versions : Size[y] = Total
(* A loop that ends without a failure leaves complete pieces. *)
Stopping ==
  /\ stop => cancelled \/ failure # None
  /\ phase \in {"drain", "final", "verify"} /\ failure = None /\ ~cancelled => AllComplete(pieces)
(* What the connections have agreed on with the server. *)
Talks == Requests /\ StreamEnds /\ Identities /\ Stopping

-----------------------------------------------------------------------------
(* Every step keeps Identities. *)
LEMMA IdentitiesNext ==
  ASSUME Control, Identities, [Next]_vars
  PROVE  Identities'
<1>1. CASE Begin
  <2>1. /\ probe' = [identity |-> Identity, ranged |-> server.ranges /\ Identity.tag # None]
        /\ UNCHANGED <<server, gone, returned, meta>>
    BY <1>1 DEF Begin, serverVars, diskVars
  <2>2. IfRange' = Tag(server.version) /\ probe'.identity = Identity
    BY <2>1 DEF IfRange, Identity
  <2>3. HonestLength(Identity)
    BY DEF HonestLength, Identity, Tag
  <2>4. Total' # Unknown => Size[server.version] = Total'
    BY <2>1 DEF Total, Identity
  <2> QED
    BY <2>1, <2>2, <2>3, <2>4, ShapeTypes DEF Identities, HonestLength, Tag
<1>2. CASE Identify
  <2>1. UNCHANGED <<server, gone, returned, probe>> /\ meta' = probe.identity /\ phase = "identify"
    BY <1>2 DEF Identify, outside, serverVars
  <2> QED
    BY <2>1 DEF Identities, HonestLength, IfRange, Total
<1>3. CASE Publish \/ GiveUp \/ Crash
  <2>1. /\ UNCHANGED <<server, gone, returned, meta>> /\ probe'.identity = NoIdentity
        /\ phase' \in {"off", "done"}
    BY <1>3 DEF Publish, GiveUp, Crash, Dropped, outside, serverVars, diskVars
  <2> QED
    BY <2>1 DEF Identities, HonestLength, NoIdentity, Total
<1>4. CASE ServerChanges
  <2>1. UNCHANGED <<meta, probe, phase>>
    BY <1>4 DEF ServerChanges, diskVars, loopVars
  <2>2. PICK s \in Servers : /\ s # server /\ server' = s
                             /\ gone' = gone \cup ({server.version} \ {s.version})
                             /\ returned' = (returned \/ s.version \in gone)
    BY <1>4 DEF ServerChanges
  <2> QED
    BY <2>1, <2>2 DEF Identities, HonestLength, IfRange, Total
<1>5. CASE \/ Resume \/ ResetRows \/ Create \/ Leave \/ FinalCheckpoint \/ Verify \/ Tick \/ Sync
           \/ Update \/ MarkSaved \/ CheckpointFails \/ Cancel \/ Idles
  <2>1. UNCHANGED <<server, gone, returned, meta, probe>>
    BY <1>5 DEF Resume, ResetRows, Create, Leave, FinalCheckpoint, Verify, Tick, Sync, Update,
                MarkSaved, CheckpointFails, Cancel, Idles, Goto, outside, serverVars, diskVars, loopVars
  <2>2. phase' \notin {"off", "done"} => phase \notin {"off", "done"}
    BY <1>5 DEF Resume, ResetRows, Create, Leave, FinalCheckpoint, Verify, Tick, Sync, Update,
                MarkSaved, CheckpointFails, Cancel, Idles, Goto, loopVars
  <2> QED
    BY <2>1, <2>2 DEF Identities, HonestLength, IfRange, Total
<1>6. ASSUME NEW c \in Conns, Join(c) \/ ConnKind(c) PROVE Identities'
  <2>1. ConnKind(c) => UNCHANGED <<server, gone, returned, meta, probe, phase>>
    BY ConnKindFrame DEF ConnFrame, outside, serverVars, loopVars
  <2>2. Join(c) => UNCHANGED <<server, gone, returned, meta, probe, phase>>
    BY DEF Join, outside, serverVars, diskVars
  <2> QED
    BY <1>6, <2>1, <2>2 DEF Identities, HonestLength, IfRange, Total
<1> QED
  BY <1>1, <1>2, <1>3, <1>4, <1>5, <1>6, NextKinds

(* Every step keeps Stopping: `join_next` sees every failure before the loop *)
(* breaks.                                                                   *)
LEMMA StoppingNext ==
  ASSUME Control, Stopping, [Next]_vars
  PROVE  Stopping'
<1>1. CASE Leave
  <2>1. /\ Connections = {} /\ (Over \/ ~Claimable(pieces))
        /\ UNCHANGED <<stop, cancelled, failure, pieces>>
    BY <1>1 DEF Leave, Goto
  <2>2. ~Claimable(pieces) => AllComplete(pieces)
    <3> SUFFICES ASSUME ~Claimable(pieces), NEW i \in DOMAIN pieces PROVE Complete(pieces[i])
      BY DEF AllComplete
    <3>1. ASSUME NEW k \in Conns, Owns(k) PROVE FALSE
      <4>1. conn[k].at # "off"
        BY <3>1 DEF Owns, Writing
      <4>2. k \in Connections
        BY <4>1 DEF Connections
      <4> QED
        BY <2>1, <4>2
    <3>2. ~pieces[i].busy
      BY <3>1 DEF Control, Owned
    <3> QED
      BY <3>2 DEF Claimable, FreePieces, Free
  <2> QED
    BY <2>1, <2>2 DEF Stopping, Over
<1>2. CASE MarkSaved
  <2>1. UNCHANGED <<stop, cancelled, failure, phase>>
    BY <1>2 DEF MarkSaved, loopVars
  <2>2. AllComplete(pieces) => AllComplete(pieces')
    BY <1>2, MarkSavedEffect DEF AllComplete, Complete, SamePlace
  <2> QED
    BY <2>1, <2>2 DEF Stopping
<1>3. CASE Begin \/ Resume \/ ResetRows \/ Create \/ Sync \/ Update \/ CheckpointFails
           \/ Tick \/ ServerChanges \/ Idles \/ FinalCheckpoint \/ Verify
  <2>1. UNCHANGED <<stop, cancelled, failure, pieces>>
    BY <1>3 DEF Begin, Resume, ResetRows, Create, Sync, Update, CheckpointFails, Tick,
                ServerChanges, Idles, FinalCheckpoint, Verify, Goto, loopVars, transferVars
  <2>2. phase' \in {"drain", "final", "verify"} => phase \in {"drain", "final", "verify"}
    BY <1>3 DEF Begin, Resume, ResetRows, Create, Sync, Update, CheckpointFails, Tick,
                ServerChanges, Idles, FinalCheckpoint, Verify, Goto, loopVars
  <2> QED
    BY <2>1, <2>2 DEF Stopping
<1>4. CASE Identify
  BY <1>4 DEF Identify, Stopping
<1>5. CASE Publish \/ GiveUp \/ Crash
  BY <1>5 DEF Publish, GiveUp, Crash, Dropped, Stopping
<1>6. CASE Cancel
  BY <1>6 DEF Cancel, Stopping
<1>7. ASSUME NEW c \in Conns, Join(c) PROVE Stopping'
  <2>1. /\ phase = "transfer" /\ phase' = "transfer" /\ cancelled' = cancelled
        /\ stop' = (stop \/ conn[c].at = "failed")
        /\ failure' = IF /\ conn[c].at \in {"failed", "cancelled"}
                         /\ failure \in {None, "cancelled"}
                      THEN conn[c].at ELSE failure
    BY <1>7 DEF Join
  <2>2. failure \in {None, "failed", "cancelled"} /\ "failed" # None /\ "cancelled" # None
    BY DEF Control, TypeOK, None
  <2> QED
    BY <2>1, <2>2 DEF Stopping
<1>8. ASSUME NEW c \in Conns, ConnKind(c) PROVE Stopping'
  BY <1>8, ConnKindFrame DEF ConnFrame, loopVars, Stopping
<1> QED
  BY <1>1, <1>2, <1>3, <1>4, <1>5, <1>6, <1>7, <1>8, NextKinds

(* A connection that a step leaves alone, with its piece. *)
LEMMA AskedStays ==
  ASSUME NEW k \in Conns, Asked(k), conn'[k] = conn[k], probe' = probe,
         Len(pieces') = Len(pieces), gone \subseteq gone',
         Owns(k) => /\ pieces'[conn[k].piece].downloaded = pieces[conn[k].piece].downloaded
                    /\ pieces'[conn[k].piece].start = pieces[conn[k].piece].start
                    /\ pieces'[conn[k].piece].len = pieces[conn[k].piece].len
  PROVE  Asked(k)'
<1>1. /\ conn'[k] = conn[k] /\ (Owns(k)' <=> Owns(k)) /\ IfRange' = IfRange /\ Total' = Total
      /\ (Single' <=> Single) /\ (MustRestart(k)' <=> MustRestart(k))
  BY DEF Owns, IfRange, Total, Single, MustRestart
<1>2. ASSUME Owns(k)
      PROVE  /\ Offset(k)' = Offset(k) /\ Piece(k)'.len = Piece(k).len
             /\ (Complete(Piece(k))' <=> Complete(Piece(k)))
  BY <1>1, <1>2 DEF Offset, Piece, Complete
<1>3. conn[k].at \in {"asked", "restart", "written", "body", "fetched"} => Owns(k)
  BY DEF Owns, Writing
<1>4. conn'[k].at = "written" => Offset(k)' < Size[conn'[k].from]
  BY <1>1, <1>2, <1>3 DEF Asked
<1>5. conn'[k].at = "body" => Offset(k)' <= Size[conn'[k].from]
  BY <1>1, <1>2, <1>3 DEF Asked
<1>6. conn'[k].at = "fetched" => Complete(Piece(k))'
  BY <1>1, <1>2, <1>3 DEF Asked
<1>7. Owns(k)' /\ Total' = Unknown /\ Piece(k)'.len # Unknown => conn'[k].at = "fetched"
  BY <1>1, <1>2 DEF Asked
<1>8. /\ conn'[k].at = "asked" => ~MustRestart(k)'
      /\ conn'[k].at = "restart" => Single' /\ (conn'[k].from = None => IfRange' = None)
      /\ conn'[k].at \in {"body", "written"} /\ Len(pieces') > 1 => conn'[k].from = IfRange'
      /\ conn'[k].at \in {"restart", "body", "written"} /\ conn'[k].from # None /\ IfRange' # None =>
         conn'[k].from = IfRange' \/ IfRange' \in gone'
      /\ Single' => ~(Owns(k)' /\ conn'[k].error = "refused") /\ conn'[k].at # "refused"
  BY <1>1 DEF Asked
<1> QED
  BY <1>4, <1>5, <1>6, <1>7, <1>8 DEF Asked

(* A connection that does not move. *)
LEMMA AskedNothing ==
  ASSUME NEW k \in Conns, conn'[k].at \in {"off", "claim", "complete", "failed", "cancelled"}
  PROVE  Asked(k)'
  BY DEF Asked, Owns, Writing

(* A step of one connection leaves the pieces of the others. *)
LEMMA OthersKept ==
  ASSUME Control, NEW c \in Conns, ConnKind(c), NEW j \in DOMAIN pieces,
         Owns(c) => j # conn[c].piece
  PROVE  /\ pieces'[j].downloaded = pieces[j].downloaded
         /\ pieces'[j].start = pieces[j].start /\ pieces'[j].len = pieces[j].len
<1>1. pieces'[j].start = pieces[j].start /\ pieces'[j].len = pieces[j].len
  BY ConnKindFrame DEF Finishes
<1>2. CASE Quiet(c) \/ RestartFirst(c) \/ PartialContent(c) \/ Takes(c) \/ Write(c)
  <2>1. pieces' = pieces
    BY <1>2, RestartFirstEffect, PartialContentEffect, WriteEffect DEF Quiet, Takes, OwnerKeeps
  <2> QED
    BY <1>1, <2>1
<1>3. CASE Claims(c) \/ Releases(c)
  BY <1>1, <1>3, ClaimsEffect, ReleasesEffect
<1>4. CASE Restarted(c)
  BY <1>1, <1>4, RestartedEffect
<1>5. CASE CountedOn(c) \/ CountedEnd(c) \/ CountedAdvance(c)
  BY <1>1, <1>5 DEF CountedOn, CountedEnd, CountedAdvance, Counted
<1>6. CASE Finishes(c)
  BY <1>1, <1>6 DEF Finishes
<1> QED
  BY <1>2, <1>3, <1>4, <1>5, <1>6 DEF ConnKind

(* Only a piece of several is refused. *)
LEMMA AloneIsNotRefused ==
  ASSUME Control, Single
  PROVE  ~HasOtherWriters(pieces)
<1>1. BusyPieces(pieces) \subseteq {1}
  BY ShapeTypes DEF BusyPieces, Single
<1>2. BusyPieces(pieces) = {} \/ BusyPieces(pieces) = {1}
  BY <1>1
<1>3. Cardinality({}) = 0 /\ Cardinality({1}) = 1
  BY FS_EmptySet, FS_Singleton
<1> QED
  BY <1>2, <1>3 DEF HasOtherWriters

(* Sequences of the same domain are equally long. *)
LEMMA SameDomain ==
  ASSUME NEW A, NEW B, NEW s \in Seq(A), NEW t \in Seq(B), DOMAIN s = DOMAIN t
  PROVE  Len(s) = Len(t)
  OBVIOUS

(* The elements of a sequence. *)
LEMMA Indices ==
  ASSUME NEW A, NEW s \in Seq(A), NEW i \in DOMAIN s
  PROVE  /\ i \in Nat /\ 1 <= i /\ i <= Len(s) /\ s[i] \in A /\ Len(s) \in Nat
         /\ Len(s) > 1 \/ Len(s) = 1
         /\ Len(s) = 1 => i = 1
  OBVIOUS

(* A step of a connection keeps Asked, of itself and of the others: what is  *)
(* busy is written by its owner alone.                                       *)
LEMMA AskedConn ==
  ASSUME Control, Shape, Requests, Identities, StreamEnds, NEW c \in Conns, ConnKind(c)
  PROVE  Asked(c)'
<1>0. /\ ConnFrame /\ phase = "transfer" /\ phase' = "transfer" /\ Alone(c)
      /\ Len(pieces') = Len(pieces) /\ DOMAIN pieces' = DOMAIN pieces
      /\ pieces' \in Seq(PieceType)
  BY ConnKindFrame
<1>1. /\ probe' = probe /\ gone' = gone /\ IfRange' = IfRange /\ Total' = Total
      /\ (Single' <=> Single)
  BY <1>0 DEF ConnFrame, loopVars, outside, serverVars, IfRange, Total, Single
<1>2. Asked(c)
  BY DEF Requests
<1>3. /\ Len(pieces) > 1 => IfRange # None /\ Total # Unknown
      /\ Running /\ DOMAIN rows = DOMAIN pieces /\ Len(rows) = Len(pieces)
  <2>1. Running
    BY <1>0 DEF Running
  <2>2. DOMAIN rows = DOMAIN pieces
    BY <2>1 DEF Shape
  <2>3. Len(rows) = Len(pieces)
    BY <2>2, ShapeTypes, SameDomain
  <2>4. Len(pieces) > 1 => Len(rows) # 1
    BY <2>3
  <2> QED
    BY <2>1, <2>2, <2>3, <2>4 DEF Shape, Planned
<1>4. Owns(c) => /\ Len(pieces) > 1 \/ Single
                 /\ Single => conn[c].piece = 1 /\ Piece(c).start = 0
  <2> SUFFICES ASSUME Owns(c) PROVE /\ Len(pieces) > 1 \/ Single
                                    /\ Single => conn[c].piece = 1 /\ Piece(c).start = 0
    OBVIOUS
  <2>1. conn[c].piece \in DOMAIN pieces
    BY OwnedPiece
  <2>2. Len(pieces) > 1 \/ Single
    BY <2>1, ShapeTypes, Indices DEF Single
  <2>3. Single => conn[c].piece = 1
    BY <2>1, ShapeTypes, Indices DEF Single
  <2> QED
    BY <2>1, <2>2, <2>3, <1>3 DEF Shape, Piece
<1>5. CASE Quiet(c)
  <2>1. /\ Owns(c)' <=> Owns(c)
        /\ Owns(c) => SamePiece(c)
        /\ conn'[c].at \in {"request", "asked", "error", "pause", "quit", "complete"}
        /\ conn'[c].at = "asked" => ~MustRestart(c) /\ Owns(c)
        /\ conn[c].at \in {"request", "asked", "body", "error", "pause", "claim"}
        /\ conn'[c].error = "refused" => HasOtherWriters(pieces) \/ conn'[c].error = conn[c].error
    BY <1>5, QuietEffect DEF Owns, Writing
  <2>2. pieces' = pieces
    BY <1>5 DEF Quiet
  <2>3. conn'[c].at = "asked" => ~MustRestart(c)'
    BY <2>1, <1>1 DEF MustRestart, SamePiece
  <2>4. Owns(c)' /\ Total' = Unknown /\ Piece(c)'.len # Unknown => conn'[c].at = "fetched"
    <3> SUFFICES ASSUME Owns(c)', Total' = Unknown, Piece(c)'.len # Unknown PROVE FALSE
      OBVIOUS
    <3>1. Piece(c)' = Piece(c)
      BY <2>1, <2>2 DEF Piece, SamePiece
    <3> QED
      BY <1>1, <1>2, <2>1, <3>1 DEF Asked
  <2>5. Single' => ~(Owns(c)' /\ conn'[c].error = "refused") /\ conn'[c].at # "refused"
    BY <1>1, <1>2, <2>1, AloneIsNotRefused DEF Asked
  <2> QED
    BY <2>1, <2>3, <2>4, <2>5 DEF Asked
<1>6. CASE Claims(c)
  <2>1. /\ conn'[c].at = "request" /\ conn'[c].error = None
        /\ Piece(c)'.len = pieces[ToClaim(pieces)].len
        /\ ToClaim(pieces) \in DOMAIN pieces /\ ~Complete(pieces[ToClaim(pieces)])
    BY <1>6, ClaimsEffect DEF Piece, SamePlace
  <2>2. Total = Unknown => Piece(c)'.len = Unknown
    BY <1>3, <2>1 DEF StreamEnds
  <2>3. None # "refused"
    BY DEF None
  <2> QED
    BY <1>1, <2>1, <2>2, <2>3 DEF Asked
<1>7. CASE Releases(c)
  <2>1. /\ Owns(c) /\ conn'[c].at \in {"claim", "refused", "cancelled", "failed"}
        /\ conn'[c].at = "refused" => conn[c].error = "refused"
    BY <1>7, ReleasesEffect
  <2>2. ~Owns(c)'
    BY <2>1 DEF Owns, Writing
  <2> QED
    BY <1>1, <1>2, <2>1, <2>2 DEF Asked
<1>8. CASE RestartFirst(c)
  <2>1. /\ OwnerKeeps(c) /\ conn'[c].at = "restart" /\ MustRestart(c) /\ conn[c].at = "request"
    BY <1>8, RestartFirstEffect DEF RestartFirst
  <2>2. IfRange = None /\ Single
    BY <2>1, <1>3, <1>4 DEF MustRestart, OwnerKeeps
  <2>3. Piece(c)' = Piece(c)
    BY <2>1 DEF OwnerKeeps, Piece, SamePiece
  <2> QED
    BY <1>1, <1>2, <2>1, <2>2, <2>3 DEF Asked, OwnerKeeps
<1>9. CASE Restarted(c)
  <2>1. /\ Owns(c) /\ Owns(c)' /\ conn[c].at = "restart"
        /\ conn'[c].piece = conn[c].piece /\ conn'[c].downloaded = 0 /\ conn'[c].from = conn[c].from
        /\ conn'[c].error = conn[c].error
        /\ conn'[c].at = (IF conn[c].from = None THEN "request" ELSE "body")
        /\ SamePlace(pieces'[conn[c].piece], pieces[conn[c].piece])
    BY <1>9, RestartedEffect
  <2>2. Single /\ conn[c].piece = 1 /\ Piece(c).start = 0
    BY <1>2, <1>4, <2>1 DEF Asked
  <2>3. Offset(c)' = 0 /\ Piece(c)'.len = Piece(c).len
    BY <2>1, <2>2 DEF Offset, Piece, SamePlace
  <2>4. Total = Unknown => Piece(c).len = Unknown
    BY <1>2, <2>1 DEF Asked
  <2>5. conn'[c].at = "body" => Offset(c)' <= Size[conn'[c].from]
    <3>1. CASE conn[c].from = None
      BY <2>1, <3>1
    <3>2. CASE conn[c].from # None
      <4>1. conn[c].from \in Versions
        BY <3>2 DEF Control, TypeOK, Connection
      <4> QED
        BY <2>1, <2>3, <4>1, TransferAssumption
    <3> QED
      BY <3>1, <3>2
  <2>6. ~(Len(pieces') > 1)
    BY <1>0, <2>2 DEF Single
  <2> QED
    BY <1>1, <1>2, <2>1, <2>2, <2>3, <2>4, <2>5, <2>6 DEF Asked
<1>10. CASE PartialContent(c)
  <2>1. /\ OwnerKeeps(c) /\ conn'[c].at = "body" /\ conn'[c].from = server.version
        /\ Offset(c) < Size[server.version] /\ IfRange = Tag(server.version) /\ conn[c].at = "asked"
    BY <1>10, PartialContentEffect DEF PartialContent, Asks, ServesRange
  <2>2. Piece(c)' = Piece(c) /\ Offset(c)' = Offset(c)
    BY <2>1 DEF OwnerKeeps, Piece, SamePiece, Offset
  <2>3. IfRange # None => server.version = IfRange
    BY <2>1 DEF Tag
  <2>4. Offset(c)' <= Size[conn'[c].from]
    BY <2>1, <2>2, OwnedPiece, ShapeTypes, TransferAssumption DEF OwnerKeeps
  <2> QED
    BY <1>1, <1>2, <1>3, <2>1, <2>2, <2>3, <2>4 DEF Asked, OwnerKeeps
<1>11. CASE Takes(c)
  <2>1. /\ OwnerKeeps(c) /\ conn[c].at = "asked" /\ conn'[c].from = server.version
        /\ conn'[c].at = IF Ranged(c) THEN "restart" ELSE "body"
        /\ ~RequireRange
    BY <1>11 DEF Takes
  <2>2. Single /\ conn[c].piece = 1 /\ Piece(c).start = 0
    BY <1>4, <2>1 DEF OwnerKeeps, RequireRange
  <2>3. Piece(c)' = Piece(c) /\ Offset(c)' = Offset(c)
    BY <2>1 DEF OwnerKeeps, Piece, SamePiece, Offset
  <2>4. conn'[c].at = "body" => Offset(c)' <= Size[conn'[c].from]
    <3> SUFFICES ASSUME ~Ranged(c) PROVE Offset(c)' <= Size[server.version]
      BY <2>1
    <3>1. conn[c].downloaded = 0
      BY OwnedPiece, <2>1 DEF Ranged, OwnerKeeps
    <3> QED
      BY <2>2, <2>3, <3>1, ShapeTypes, TransferAssumption DEF Offset
  <2>5. server.version # None /\ (IfRange # None => server.version = IfRange \/ IfRange \in gone)
    BY <1>0, ShapeTypes DEF Identities
  <2>6. ~(Len(pieces') > 1)
    BY <1>0, <2>2 DEF Single
  <2> QED
    BY <1>1, <1>2, <2>1, <2>2, <2>3, <2>4, <2>5, <2>6 DEF Asked, OwnerKeeps
<1>12. CASE Write(c)
  <2>1. /\ OwnerKeeps(c) /\ conn'[c].at = "written" /\ conn'[c].from = conn[c].from
        /\ conn[c].at = "body" /\ Offset(c) < Size[conn[c].from]
    BY <1>12, WriteEffect DEF Write
  <2>2. Piece(c)' = Piece(c) /\ Offset(c)' = Offset(c)
    BY <2>1 DEF OwnerKeeps, Piece, SamePiece, Offset
  <2> QED
    BY <1>0, <1>1, <1>2, <2>1, <2>2 DEF Asked, OwnerKeeps
<1>13. CASE CountedOn(c) \/ CountedEnd(c)
  <2>1. /\ Owns(c) /\ Owns(c)' /\ conn[c].at = "written" /\ conn'[c].error = conn[c].error
        /\ conn'[c].piece = conn[c].piece /\ conn'[c].downloaded = conn[c].downloaded + 1
        /\ SamePlace(pieces'[conn[c].piece], pieces[conn[c].piece])
        /\ pieces'[conn[c].piece].downloaded = conn[c].downloaded + 1
        /\ \/ conn'[c].at = "body" /\ conn'[c].from = conn[c].from
           \/ conn'[c].at = "fetched" /\ Piece(c).len = conn[c].downloaded + 1
    BY <1>13, OwnedPiece DEF CountedOn, CountedEnd, Counted
  <2>2. Offset(c)' = Offset(c) + 1 /\ Piece(c)'.len = Piece(c).len
    BY <2>1, OwnedPiece DEF Offset, Piece, SamePlace
  <2>3. Offset(c) < Size[conn[c].from] /\ conn[c].from \in Versions
    BY <1>2, <2>1 DEF Asked, Control, Sources
  <2>4. Offset(c) + 1 <= Size[conn[c].from]
    BY <2>1, <2>3, OwnedPiece, TransferAssumption
  <2>5. conn'[c].at = "fetched" => Complete(Piece(c)')
    BY <2>1, <2>2 DEF Complete, Piece
  <2> QED
    BY <1>0, <1>1, <1>2, <2>1, <2>2, <2>4, <2>5 DEF Asked
<1>14. CASE CountedAdvance(c)
  <2> DEFINE i == conn[c].piece
  <2>1. /\ Owns(c) /\ Owns(c)' /\ conn[c].at = "written" /\ conn'[c].error = conn[c].error
        /\ conn'[c].piece = i + 1 /\ conn'[c].downloaded = 0
        /\ conn'[c].at = "body" /\ conn'[c].from = conn[c].from
        /\ Piece(c).len = conn[c].downloaded + 1
        /\ i + 1 \in DOMAIN pieces
        /\ SamePlace(pieces'[i + 1], pieces[i + 1])
    BY <1>14 DEF CountedAdvance, Counted
  <2>2. i \in DOMAIN pieces /\ i \in Nat /\ Len(pieces) > 1 /\ Total # Unknown
    BY <1>3, <2>1, OwnedPiece, ShapeTypes
  <2>3. pieces[i + 1].start = Offset(c) + 1
    <3>1. rows[i + 1].start = rows[i].end + 1 /\ i + 1 # 1
      BY <1>3, <2>1, <2>2 DEF Shape, Planned, Tiles
    <3>2. pieces[i].len = rows[i].end - rows[i].start + 1 /\ pieces[i].start = rows[i].start
          /\ pieces[i + 1].start = rows[i + 1].start
      BY <1>3, <2>1, <2>2 DEF Shape, RowLen
    <3>3. rows[i].end \in Nat /\ rows[i].start \in Nat
      <4>1. rows[i] \in RowType
        BY <1>3, <2>2, ShapeTypes, Indices
      <4> QED
        BY <4>1 DEF RowType
    <3>4. Offset(c) = pieces[i].start + conn[c].downloaded /\ conn[c].downloaded \in Nat
          /\ pieces[i].len = conn[c].downloaded + 1
      BY <2>1, OwnedPiece DEF Offset, Piece
    <3> HIDE DEF i
    <3> QED
      BY ONLY <3>1, <3>2, <3>3, <3>4
  <2>4. Offset(c)' = Offset(c) + 1
    BY <2>1, <2>3, OwnedPiece DEF Offset, Piece, SamePlace
  <2>5. Offset(c) < Size[conn[c].from] /\ conn[c].from \in Versions
    BY <1>2, <2>1 DEF Asked, Control, Sources
  <2>6. Offset(c) + 1 <= Size[conn[c].from]
    BY <2>1, <2>5, OwnedPiece, TransferAssumption
  <2> QED
    BY <1>0, <1>1, <1>2, <2>1, <2>2, <2>4, <2>6 DEF Asked
<1>15. CASE Finishes(c)
  <2>1. /\ Owns(c) /\ Owns(c)' /\ conn'[c].at = "fetched" /\ conn'[c].error = conn[c].error
        /\ conn'[c].piece = conn[c].piece
        /\ pieces'[conn[c].piece].len = pieces'[conn[c].piece].downloaded
    BY <1>15 DEF Finishes
  <2>2. Complete(Piece(c)')
    BY <2>1 DEF Complete, Piece
  <2> QED
    BY <1>1, <1>2, <2>1, <2>2 DEF Asked
<1> QED
  BY <1>5, <1>6, <1>7, <1>8, <1>9, <1>10, <1>11, <1>12, <1>13, <1>14, <1>15 DEF ConnKind

(* A step of a connection keeps StreamEnds. *)
LEMMA StreamConn ==
  ASSUME Control, Requests, StreamEnds, NEW c \in Conns, ConnKind(c)
  PROVE  StreamEnds'
<1>0. /\ ConnFrame /\ phase = "transfer" /\ phase' = "transfer"
      /\ DOMAIN pieces' = DOMAIN pieces
      /\ \A j \in DOMAIN pieces :
              /\ pieces'[j].len = IF Finishes(c) /\ j = conn[c].piece
                                  THEN pieces[j].downloaded ELSE pieces[j].len
  BY ConnKindFrame
<1>1. Total' = Total /\ Running
  BY <1>0 DEF ConnFrame, loopVars, Total, Running
<1> SUFFICES ASSUME Total = Unknown, NEW j \in DOMAIN pieces
             PROVE  pieces'[j].len = Unknown \/ Complete(pieces'[j])
  BY <1>0, <1>1 DEF StreamEnds
<1>2. pieces[j].len = Unknown \/ Complete(pieces[j])
  BY <1>1 DEF StreamEnds
<1>3. CASE Owns(c) => j # conn[c].piece
  BY <1>2, <1>3, OthersKept DEF Complete
<1>4. CASE Owns(c) /\ j = conn[c].piece
  <2>1. pieces[j].len # Unknown => conn[c].at = "fetched"
    BY <1>4 DEF Requests, Asked, Piece
  <2>2. CASE Finishes(c)
    BY <1>4, <2>2 DEF Finishes, Complete
  <2>3. CASE ~Finishes(c) /\ conn[c].at # "fetched"
    BY <1>0, <2>1, <2>3
  <2>4. CASE ~Finishes(c) /\ conn[c].at = "fetched"
    <3>1. Releases(c)
      BY <2>4, QuietEffect
         DEF ConnKind, Claims, RestartFirst, Restarted, PartialContent, Asks, Takes, Write,
             CountedOn, CountedEnd, CountedAdvance, Counted
    <3>2. pieces'[j].downloaded = pieces[j].downloaded /\ pieces'[j].len = pieces[j].len
      BY <3>1, ReleasesEffect DEF SamePlace
    <3> QED
      BY <1>2, <3>2 DEF Complete
  <2> QED
    BY <2>2, <2>3, <2>4
<1> QED
  BY <1>3, <1>4

(* Every step keeps StreamEnds. *)
LEMMA StreamNext ==
  ASSUME Control, Requests, StreamEnds, [Next]_vars
  PROVE  StreamEnds'
<1>1. CASE Identify
  BY <1>1, IdentifyEffect DEF StreamEnds, Identify, Total
<1>2. CASE MarkSaved
  <2>1. UNCHANGED <<phase, probe>>
    BY <1>2 DEF MarkSaved, loopVars
  <2> QED
    BY <1>2, <2>1, MarkSavedEffect DEF StreamEnds, Running, Total, Complete, SamePlace
<1>3. CASE Resume \/ ResetRows \/ Create \/ Leave \/ FinalCheckpoint
           \/ Verify \/ Tick \/ Sync \/ Update
           \/ CheckpointFails \/ Cancel \/ ServerChanges \/ Idles
  <2>1. UNCHANGED <<probe, pieces>>
    BY <1>3 DEF Resume, ResetRows, Create, Sync, Update, CheckpointFails, Tick, Leave, Cancel,
                ServerChanges, Idles, FinalCheckpoint, Verify, Goto, loopVars, transferVars
  <2>2. Running' => Running
    BY <1>3 DEF Resume, ResetRows, Create, Sync, Update, CheckpointFails, Tick, Leave, Cancel,
                ServerChanges, Idles, FinalCheckpoint, Verify, Goto, loopVars, Running
  <2> QED
    BY <2>1, <2>2 DEF StreamEnds, Total
<1>4. CASE Begin \/ Publish \/ GiveUp \/ Crash
  BY <1>4 DEF Begin, Publish, GiveUp, Crash, Dropped, StreamEnds, Running
<1>5. ASSUME NEW c \in Conns, Join(c) PROVE StreamEnds'
  BY <1>5 DEF Join, StreamEnds, Running, Total
<1> QED
  BY <1>1, <1>2, <1>3, <1>4, <1>5, StreamConn, NextKinds

(* Every step keeps Requests. *)
LEMMA RequestsNext ==
  ASSUME Control, Shape, Requests, StreamEnds, Identities, [Next]_vars
  PROVE  Requests'
<1>1. ASSUME NEW c \in Conns, ConnKind(c), NEW k \in Conns PROVE Asked(k)'
  <2>1. /\ ConnFrame /\ Alone(c) /\ Len(pieces') = Len(pieces)
    BY <1>1, ConnKindFrame
  <2>2. probe' = probe /\ gone' = gone
    BY <2>1 DEF ConnFrame, loopVars, outside, serverVars
  <2>3. CASE k = c
    BY <1>1, <2>3, AskedConn
  <2>4. CASE k # c
    <3>1. conn'[k] = conn[k] /\ Asked(k)
      BY <2>1, <2>4 DEF Alone, Requests
    <3>2. ASSUME Owns(k)
          PROVE  /\ conn[k].piece \in DOMAIN pieces
                 /\ Owns(c) => conn[k].piece # conn[c].piece
      BY <2>4, <3>2 DEF Control, Owned
    <3> QED
      BY <1>1, <2>1, <2>2, <3>1, <3>2, OthersKept, AskedStays
  <2> QED
    BY <2>3, <2>4
<1>2. ASSUME NEW c \in Conns, Join(c), NEW k \in Conns PROVE Asked(k)'
  <2>1. /\ Alone(c) /\ conn'[c].at = "off" /\ UNCHANGED <<pieces, probe, gone>>
    BY <1>2, JoinEffect DEF Join, outside, serverVars
  <2>2. k # c => conn'[k] = conn[k] /\ Asked(k)
    BY <2>1 DEF Alone, Requests
  <2> QED
    BY <2>1, <2>2, AskedStays, AskedNothing
<1>3. ASSUME MarkSaved, NEW k \in Conns PROVE Asked(k)'
  <2>1. UNCHANGED <<conn, probe, gone>>
    BY <1>3 DEF MarkSaved, loopVars, outside, serverVars
  <2>2. Owns(k) => conn[k].piece \in DOMAIN pieces
    BY DEF Control, Owned
  <2> QED
    BY <1>3, <2>1, <2>2, MarkSavedEffect, AskedStays DEF SamePlace, Requests
<1>4. ASSUME \/ Resume \/ ResetRows \/ Create \/ Leave \/ FinalCheckpoint \/ Verify \/ Tick \/ Sync
             \/ Update \/ CheckpointFails \/ Cancel \/ ServerChanges \/ Idles,
             NEW k \in Conns
      PROVE  Asked(k)'
  <2>1. UNCHANGED <<conn, probe, pieces>> /\ gone \subseteq gone'
    BY <1>4 DEF Resume, ResetRows, Create, Sync, Update, CheckpointFails, Tick, Leave, Cancel,
                ServerChanges, Idles, FinalCheckpoint, Verify, Goto, loopVars, transferVars,
                outside, serverVars
  <2> QED
    BY <2>1, AskedStays DEF Requests
<1>5. ASSUME Begin \/ Identify \/ Publish \/ GiveUp \/ Crash, NEW k \in Conns PROVE Asked(k)'
  <2>1. conn'[k].at = "off"
    <3>1. CASE Begin \/ Identify
      <4>1. conn' = conn /\ phase # "transfer"
        BY <3>1 DEF Begin, Identify, transferVars
      <4> QED
        BY <4>1 DEF Control, Owned
    <3>2. CASE Publish \/ GiveUp \/ Crash
      BY <3>2 DEF Publish, GiveUp, Crash, Dropped, NoConnection
    <3> QED
      BY <1>5, <3>1, <3>2
  <2> QED
    BY <2>1, AskedNothing
<1> QED
  BY <1>1, <1>2, <1>3, <1>4, <1>5, NextKinds DEF Requests

(* Every step keeps Talks. *)
LEMMA TalksNext ==
  ASSUME Control, Shape, Talks, [Next]_vars
  PROVE  Talks'
  BY RequestsNext, StreamNext, IdentitiesNext, StoppingNext DEF Talks

(* Shape and Talks hold at first. *)
LEMMA TalksInit ==
  ASSUME Init
  PROVE  Shape /\ Talks
<1>1. Control
  BY InitControl
<1>2. Shape
  BY DEF Init, Shape, Running
<1>3. Requests
  BY DEF Init, Requests, Asked, NoConnection, Owns, Writing
<1>4. StreamEnds /\ Stopping
  BY DEF Init, StreamEnds, Stopping, Running
<1>5. Identities
  BY DEF Init, Identities, HonestLength, NoIdentity, Total
<1> QED
  BY <1>2, <1>3, <1>4, <1>5 DEF Talks

(* Control, Shape and Talks together are inductive. *)
THEOREM TalksIsInvariant == Spec => [](Control /\ Shape /\ Talks)
<1>1. Init => Control /\ Shape /\ Talks
  BY InitControl, TalksInit
<1>2. Control /\ Shape /\ Talks /\ [Next]_vars => (Control /\ Shape /\ Talks)'
  BY NextControl, ShapeNext, TalksNext
<1> QED
  BY <1>1, <1>2, PTL DEF Spec

(* The loop ends without a failure only when every piece is complete: no     *)
(* refused connection leaves one behind (worker.rs, `run_transfer`).         *)
THEOREM NothingIsLeftBehind == Spec => []NothingLeftBehind
<1>1. Talks => NothingLeftBehind
  BY DEF Talks, Stopping, NothingLeftBehind
<1> QED
  BY <1>1, TalksIsInvariant, PTL

(* No step of a transfer of several pieces takes anything from a piece. *)
LEMMA ProgressStep ==
  ASSUME Control, Shape, Talks, [Next]_vars, phase' = "transfer", Len(pieces) > 1,
         NEW i \in DOMAIN pieces
  PROVE  pieces'[i].downloaded >= pieces[i].downloaded
<1>0. pieces[i].downloaded \in Nat /\ ~Single
  <2>1. pieces[i] \in PieceType
    BY ShapeTypes, Indices
  <2>2. Len(pieces) \in Nat
    BY ShapeTypes, Indices
  <2>3. ~Single
    <3>1. ASSUME NEW n \in Nat, n > 1 PROVE n # 1
      BY <3>1
    <3> QED
      BY ONLY <2>2, <3>1, Len(pieces) > 1 DEF Single
  <2> QED
    BY <2>1, <2>3 DEF PieceType
<1>1. ASSUME NEW c \in Conns, ConnKind(c) PROVE pieces'[i].downloaded >= pieces[i].downloaded
  <2>1. CASE Owns(c) => i # conn[c].piece
    BY <1>0, <1>1, <2>1, OthersKept
  <2>2. CASE Owns(c) /\ i = conn[c].piece
    <3>1. ~Restarted(c)
      BY <1>0, RestartedEffect DEF Talks, Requests, Asked
    <3>2. CASE Quiet(c) \/ RestartFirst(c) \/ PartialContent(c) \/ Takes(c) \/ Write(c)
      BY <1>0, <3>2, RestartFirstEffect, PartialContentEffect, WriteEffect DEF Quiet, Takes, OwnerKeeps
    <3>3. CASE Claims(c) \/ Releases(c) \/ Finishes(c)
      BY <1>0, <2>2, <3>3, ClaimsEffect, ReleasesEffect DEF Finishes
    <3>4. CASE CountedOn(c) \/ CountedEnd(c) \/ CountedAdvance(c)
      BY <1>0, <2>2, <3>4, OwnedPiece DEF CountedOn, CountedEnd, CountedAdvance, Counted, Piece
    <3> QED
      BY <1>1, <3>1, <3>2, <3>3, <3>4 DEF ConnKind
  <2> QED
    BY <2>1, <2>2
<1>2. CASE MarkSaved
  BY <1>0, <1>2, MarkSavedEffect
<1>3. CASE \/ Begin \/ Resume \/ ResetRows \/ Create \/ Leave \/ FinalCheckpoint \/ Verify \/ Tick \/ Sync
           \/ Update \/ CheckpointFails \/ Cancel \/ ServerChanges \/ Idles
  <2>1. pieces' = pieces
    BY <1>3 DEF Begin, Resume, ResetRows, Create, Sync, Update, CheckpointFails, Tick, Leave, Cancel,
                ServerChanges, Idles, FinalCheckpoint, Verify, transferVars
  <2> QED
    BY <1>0, <2>1
<1>4. ASSUME NEW c \in Conns, Join(c) PROVE pieces' = pieces
  BY <1>4 DEF Join
<1>5. ~Identify
  BY DEF Identify, Control, Idle, Running
<1>6. ~(Publish \/ GiveUp \/ Crash)
  BY DEF Publish, GiveUp, Crash, Dropped
<1> QED
  BY <1>0, <1>1, <1>2, <1>3, <1>4, <1>5, <1>6, NextKinds

(* Several pieces never lose what they have while a transfer runs: only a    *)
(* single stream begins again (chunk.rs, `restart`).                         *)
THEOREM ProgressNeverGoesBack == Spec => ProgressIsKept
<1>1. Control /\ Shape /\ Talks /\ [Next]_vars =>
        [phase' = "transfer" /\ Len(pieces) > 1 =>
           \A i \in DOMAIN pieces : pieces'[i].downloaded >= pieces[i].downloaded]_vars
  BY ProgressStep
<1> QED
  BY <1>1, TalksIsInvariant, PTL DEF Spec, ProgressIsKept

-----------------------------------------------------------------------------
(* Blocks of the file *)

(* A piece of rows that tile a body lies in it. *)
LEMMA TilesBounded ==
  ASSUME NEW R \in Seq(RowType), NEW total \in Nat, Tiles(R, total), NEW i \in DOMAIN R
  PROVE  R[i].start <= R[i].end /\ R[i].end + 1 <= total
<1>0. \A j \in DOMAIN R : R[j].start \in Nat /\ R[j].end \in Nat /\ R[j].start <= R[j].end
  <2> SUFFICES ASSUME NEW j \in DOMAIN R PROVE R[j].start \in Nat /\ R[j].end \in Nat /\ R[j].start <= R[j].end
    OBVIOUS
  <2>1. R[j] \in RowType
    OBVIOUS
  <2> QED
    BY <2>1 DEF RowType, Tiles
<1> DEFINE T == {j \in DOMAIN R : R[j].end + 1 > total}
<1> SUFFICES ASSUME T # {} PROVE FALSE
  BY <1>0
<1>1. T \in SUBSET Nat /\ Len(R) \in Nat /\ \A j \in T : j <= Len(R)
  OBVIOUS
<1>2. PICK g \in T : \A m \in T : m <= g
  BY <1>1, GreatestNatural
<1>3. g \in Nat /\ g \in DOMAIN R /\ R[g].end + 1 > total /\ 1 <= g /\ g <= Len(R)
  BY <1>2
<1>4. g # Len(R)
  BY <1>3 DEF Tiles
<1>5. g + 1 \in DOMAIN R
  BY <1>3, <1>4
<1>6. R[g + 1].start = R[g].end + 1
  <2>1. g + 1 # 1 /\ (g + 1) - 1 = g
    BY <1>3
  <2> QED
    BY <1>5, <2>1 DEF Tiles
<1>7. R[g + 1].end + 1 > total
  BY <1>0, <1>3, <1>5, <1>6
<1>8. g + 1 \in T
  BY <1>5, <1>7
<1> QED
  BY <1>2, <1>3, <1>8

(* Every block of the body is in a piece. *)
LEMMA TilesCover ==
  ASSUME NEW R \in Seq(RowType), NEW total \in Nat, Tiles(R, total), NEW o \in Nat, o < total
  PROVE  \E i \in DOMAIN R : R[i].start <= o /\ o <= R[i].end
<1>0. \A j \in DOMAIN R : R[j].start \in Nat /\ R[j].end \in Nat
  <2> SUFFICES ASSUME NEW j \in DOMAIN R PROVE R[j].start \in Nat /\ R[j].end \in Nat
    OBVIOUS
  <2>1. R[j] \in RowType
    OBVIOUS
  <2> QED
    BY <2>1 DEF RowType
<1> DEFINE T == {j \in DOMAIN R : o <= R[j].end}
<1>1. R # <<>> /\ total = R[Len(R)].end + 1
  BY DEF Tiles
<1>2. Len(R) \in DOMAIN R
  BY <1>1
<1>3. Len(R) \in T
  BY <1>0, <1>1, <1>2
<1>4. PICK g \in T : \A m \in T : g <= m
  <2>1. T \in SUBSET Nat
    OBVIOUS
  <2> QED
    BY <1>3, <2>1, LeastNatural
<1>5. g \in DOMAIN R /\ o <= R[g].end /\ g \in Nat /\ 1 <= g
  BY <1>4
<1>6. CASE g = 1
  <2>1. R[g].start = 0
    BY <1>5, <1>6 DEF Tiles
  <2> QED
    BY <1>5, <2>1
<1>7. CASE g # 1
  <2>1. g - 1 \in DOMAIN R /\ g - 1 \notin T
    BY <1>4, <1>5, <1>7
  <2>2. R[g].start = R[g - 1].end + 1
    BY <1>5, <1>7 DEF Tiles
  <2>3. R[g - 1].end < o
    BY <1>0, <2>1
  <2> QED
    BY <1>0, <1>5, <2>1, <2>2, <2>3
<1> QED
  BY <1>6, <1>7

(* A block that somebody wrote. *)
In(f, o) == o \in DOMAIN f /\ f[o] # Hole

(* A written block leaves the others, and may replace one by its own         *)
(* version.                                                                  *)
LEMMA WriteKeeps ==
  ASSUME NEW f \in Seq(Versions \cup {Hole}), NEW o \in Nat, NEW y \in Versions,
         NEW p \in DOMAIN f
  PROVE  LET g == WriteAt(f, o, y)
         IN  p \in DOMAIN g /\ (g[p] = f[p] \/ g[p] = y)
<1> DEFINE g == WriteAt(f, o, y)
<1>1. /\ g \in Seq(Versions \cup {Hole}) /\ Len(g) = (IF Len(f) > o THEN Len(f) ELSE o + 1)
      /\ g[o + 1] = y /\ \A i \in 1..Len(f) : i # o + 1 => g[i] = f[i]
  BY WriteAtEffect
<1> HIDE DEF g
<1>2. p \in 1..Len(f) /\ Len(f) \in Nat /\ DOMAIN g = 1..Len(g)
  BY <1>1
<1>3. p \in DOMAIN g
  BY <1>1, <1>2
<1>4. g[p] = f[p] \/ g[p] = y
  BY <1>1, <1>2
<1> QED
  BY <1>3, <1>4 DEF g

(* What a step of a connection does to the file. *)
Truncates(c) ==
  /\ cache' = Truncated /\ conn'[c].at = "restart" /\ Owns(c) /\ SamePiece(c) /\ pieces' = pieces
  /\ \/ conn[c].at = "request" /\ IfRange = None
     \/ /\ conn[c].at = "asked" /\ conn'[c].from = server.version
        /\ Ranged(c) /\ ~ServesRange(c) /\ ~RequireRange

(* A step of a connection leaves the file, writes a block of it or truncates *)
(* it.                                                                       *)
LEMMA ConnFile ==
  ASSUME Control, Shape, Talks, NEW c \in Conns, ConnKind(c)
  PROVE  cache' = cache \/ Write(c) \/ Truncates(c)
<1>1. RestartFirst(c) => Truncates(c)
  BY RestartFirstEffect DEF RestartFirst, MustRestart, Truncates, OwnerKeeps
<1>2. Takes(c) => cache' = cache \/ Truncates(c)
  BY DEF Takes, Truncates, OwnerKeeps
<1> QED
  BY <1>1, <1>2, RestartedEffect, PartialContentEffect
     DEF ConnKind, Quiet, Claims, Releases, CountedOn, CountedEnd, CountedAdvance, Counted, Finishes

(* What else such a step leaves alone. *)
LEMMA ConnFacts ==
  ASSUME Control, Shape, Talks, NEW c \in Conns, ConnKind(c)
  PROVE  /\ UNCHANGED <<rows, meta, disk, probe, gone, returned, server, saving, snapshot, phase, failure>>
         /\ phase = "transfer" /\ Running /\ Running' /\ Alone(c)
         /\ Len(pieces') = Len(pieces) /\ DOMAIN pieces' = DOMAIN pieces
         /\ pieces' \in Seq(PieceType)
         /\ IfRange' = IfRange /\ Total' = Total /\ (Single' <=> Single)
         /\ meta = probe.identity /\ meta.tag = IfRange /\ meta.length = Total
         /\ DOMAIN rows = DOMAIN pieces /\ Len(rows) = Len(pieces)
         /\ Len(pieces) > 1 => IfRange # None
         /\ Total = Unknown => Single
<1>1. /\ ConnFrame /\ phase = "transfer" /\ phase' = "transfer" /\ Alone(c)
      /\ Len(pieces') = Len(pieces) /\ DOMAIN pieces' = DOMAIN pieces
      /\ pieces' \in Seq(PieceType)
  BY ConnKindFrame
<1>2. UNCHANGED <<rows, meta, disk, probe, gone, returned, server, saving, snapshot, phase, failure>>
  BY <1>1 DEF ConnFrame, loopVars, outside, serverVars, saveVars
<1>3. Running /\ Running' /\ IfRange' = IfRange /\ Total' = Total /\ (Single' <=> Single)
  BY <1>1, <1>2 DEF Running, IfRange, Total, Single
<1>4. meta = probe.identity /\ DOMAIN rows = DOMAIN pieces /\ Planned(rows, Total)
      /\ (Len(rows) > 1 => IfRange # None)
  BY <1>3 DEF Shape
<1>5. Len(rows) = Len(pieces)
  BY <1>4, ShapeTypes, SameDomain
<1>6. Total = Unknown => Single
  BY <1>4, <1>5 DEF Planned, Single
<1> QED
  BY <1>1, <1>2, <1>3, <1>4, <1>5, <1>6 DEF IfRange, Total

-----------------------------------------------------------------------------
(* The invariant of the contents *)

(* A server that tags a resource, tells no length of it and serves no        *)
(* ranges: what is resumed from it begins again, and its file is cut before  *)
(* the rows say so.                                                          *)
Regrows == \E s \in Servers : s.version \in Tagged \ Announced /\ ~s.ranges
(* A stream whose file is as long as its rows say. *)
Sound == Total # Unknown \/ (~Regrows /\ ~returned)
(* ... and is still the one that was identified. *)
Steady == Sound /\ ~returned
(* A worker resumes what the metadata names. *)
ResumedSame == phase = "identify" /\ ~NothingCounted => SameResource(meta, probe.identity)
(* How long the file is. *)
FileLength ==
  /\ phase = "identify" /\ Total = Unknown => Len(cache) = rows[1].downloaded
  /\ (phase = "identify" \/ Running) /\ Total # Unknown => Len(cache) <= Total
  /\ Running /\ Total = Unknown =>
       /\ \A k \in Conns : conn[k].at = "restart" => Len(cache) = 0
       /\ \A k \in Conns : conn[k].at = "written" => Len(cache) = conn[k].downloaded + 1
       /\ (\A k \in Conns : conn[k].at \notin {"restart", "written"}) => Len(cache) = pieces[1].downloaded
(* Several pieces: everything counted is of the version asked for. *)
PiecesHold ==
  Len(pieces) > 1 => \A i \in DOMAIN pieces : \A n \in 1..pieces[i].downloaded :
     pieces[i].start + n \in DOMAIN cache /\ cache[pieces[i].start + n] = IfRange
(* A block just written is there. *)
Fresh ==
  \A k \in Conns : conn[k].at = "written" =>
    Offset(k) + 1 \in DOMAIN cache /\ cache[Offset(k) + 1] = conn[k].from
(* Everything counted was written. *)
PiecesWritten ==
  Sound => \A i \in DOMAIN pieces : \A n \in 1..pieces[i].downloaded :
    \/ In(cache, pieces[i].start + n)
    \/ Total = Unknown /\ \E k \in Conns : conn[k].at = "restart" /\ conn[k].piece = i
(* The first n blocks are of one version. *)
HoldsOnly(n, y) == \A m \in 1..n : m \in DOMAIN cache /\ cache[m] = y
(* A single stream: everything counted is of the version being read. *)
OneSource ==
  Single /\ Steady =>
    /\ \A k \in Conns : conn[k].at \in {"body", "written"} => HoldsOnly(conn[k].downloaded, conn[k].from)
    /\ IfRange # None /\ IfRange \notin gone => HoldsOnly(pieces[1].downloaded, IfRange)
(* The file is one version, from its first block to its last. *)
Whole == \E y \in Versions : pieces[1].downloaded = Size[y] /\ HoldsOnly(Size[y], y)
(* A complete stream is whole, unless somebody still works on it or it       *)
(* failed.                                                                   *)
Finished ==
  Single /\ Steady /\ Complete(pieces[1]) =>
    \/ Whole
    \/ failure # None
    \/ \E k \in Conns : conn[k].at \in (Writing \ {"fetched"}) \cup {"failed", "cancelled"}
(* What the file in memory holds. *)
Contents == FileLength /\ PiecesHold /\ Fresh /\ PiecesWritten /\ OneSource /\ Finished
(* A version the next worker cannot meet again. *)
Lost(t) == returned \/ (t \in gone /\ ~(phase \in {"prepare", "identify"} /\ IfRange = t))
(* A block that a worker may resume behind: it has to be there and of the    *)
(* saved version, unless that version is lost.                               *)
Kept(f, o) ==
  \/ meta.tag = None
  \/ Len(rows) = 1 /\ meta.length = Unknown /\ (Lost(meta.tag) \/ Regrows)
  \/ In(f, o) /\ (f[o] = meta.tag \/ (Len(rows) = 1 /\ Lost(meta.tag)))
(* The rows in the database promise such blocks, on disk as well as in       *)
(* memory.                                                                   *)
RowsKept ==
  ~NothingCounted =>
    /\ Planned(rows, meta.length)
    /\ meta.length # Unknown => Len(cache) <= meta.length /\ Len(disk) <= meta.length
    /\ \A i \in DOMAIN rows : \A n \in 1..rows[i].downloaded :
         Kept(cache, rows[i].start + n) /\ Kept(disk, rows[i].start + n)
(* So does a checkpoint: before the sync of the file, and after it of the    *)
(* disk.                                                                     *)
SnapshotKept ==
  /\ saving # "idle" => \A i \in DOMAIN snapshot : \A n \in 1..snapshot[i] : Kept(cache, rows[i].start + n)
  /\ saving \in {"synced", "updated"} =>
       /\ Total # Unknown => Len(disk) <= Total
       /\ \A i \in DOMAIN snapshot : \A n \in 1..snapshot[i] : Kept(disk, rows[i].start + n)
(* What a crash has to leave: the rows never promise more than the disk      *)
(* holds.                                                                    *)
Storage == ResumedSame /\ RowsKept /\ SnapshotKept

-----------------------------------------------------------------------------
(* More than one. *)
LEMMA Several ==
  ASSUME NEW n \in Nat, n > 1
  PROVE  n # 1
  OBVIOUS

(* More than one piece is not one piece. *)
LEMMA SeveralPieces ==
  ASSUME Control, Len(pieces) > 1
  PROVE  ~Single
<1>1. Len(pieces) \in Nat
  BY ShapeTypes
<1> QED
  BY ONLY <1>1, Several, Len(pieces) > 1 DEF Single

(* A piece of several, or the only one. *)
LEMMA PieceFacts ==
  ASSUME Control, Shape, Talks, NEW i \in DOMAIN pieces
  PROVE  /\ pieces[i].start \in Nat /\ pieces[i].downloaded \in Nat /\ i \in Nat
         /\ Len(pieces) > 1 \/ Single
         /\ Single => i = 1 /\ pieces[i].start = 0
<1>1. pieces[i] \in PieceType /\ i \in Nat /\ (Len(pieces) > 1 \/ Len(pieces) = 1)
      /\ (Len(pieces) = 1 => i = 1)
  BY ShapeTypes, Indices
<1>2. Running
  <2>1. pieces # <<>>
    OBVIOUS
  <2> QED
    BY <2>1 DEF Control, Idle
<1>3. i \in DOMAIN rows /\ pieces[i].start = rows[i].start
  BY <1>2 DEF Shape
<1> QED
  BY <1>1, <1>3 DEF PieceType, Single, Shape

(* Whoever writes writes what belongs there. *)
LEMMA WriteFacts ==
  ASSUME Control, Shape, Talks, NEW c \in Conns, Write(c)
  PROVE  /\ OwnerKeeps(c) /\ conn[c].at = "body" /\ conn'[c].at = "written"
         /\ conn'[c].from = conn[c].from
         /\ conn[c].from \in Versions /\ conn[c].from # None /\ conn[c].from # Hole
         /\ Offset(c) \in Nat /\ Offset(c) < Size[conn[c].from] /\ HasRoom(c)
         /\ cache' \in Seq(Versions \cup {Hole})
         /\ Len(cache') = IF Len(cache) > Offset(c) THEN Len(cache) ELSE Offset(c) + 1
         /\ Offset(c) + 1 \in DOMAIN cache' /\ cache'[Offset(c) + 1] = conn[c].from
         /\ \A p \in DOMAIN cache : /\ p \in DOMAIN cache' /\ (cache'[p] = cache[p] \/ cache'[p] = conn[c].from)
                                    /\ p # Offset(c) + 1 => cache'[p] = cache[p]
         /\ Len(pieces) > 1 => conn[c].from = IfRange
         /\ IfRange # None => conn[c].from = IfRange \/ IfRange \in gone
<1>1. /\ OwnerKeeps(c) /\ conn[c].at = "body" /\ conn'[c].at = "written"
      /\ conn'[c].from = conn[c].from /\ conn[c].from \in Versions
      /\ Offset(c) \in Nat /\ Offset(c) < Size[conn[c].from] /\ HasRoom(c)
      /\ cache' = WriteAt(cache, Offset(c), conn[c].from)
  BY WriteEffect DEF Write
<1>2. conn[c].from # None /\ conn[c].from # Hole /\ cache \in Seq(Versions \cup {Hole})
  BY <1>1, ShapeTypes
<1>3. Asked(c)
  BY DEF Talks, Requests
<1>4. /\ cache' \in Seq(Versions \cup {Hole})
      /\ Len(cache') = (IF Len(cache) > Offset(c) THEN Len(cache) ELSE Offset(c) + 1)
      /\ cache'[Offset(c) + 1] = conn[c].from
      /\ \A p \in 1..Len(cache) : p # Offset(c) + 1 => cache'[p] = cache[p]
  BY <1>1, <1>2, WriteAtEffect
<1>5. Offset(c) + 1 \in DOMAIN cache'
  BY <1>1, <1>2, <1>4
<1>6. \A p \in DOMAIN cache : p \in DOMAIN cache' /\ (cache'[p] = cache[p] \/ cache'[p] = conn[c].from)
  BY <1>1, <1>2, WriteKeeps
<1>7. \A p \in DOMAIN cache : p # Offset(c) + 1 => cache'[p] = cache[p]
  BY <1>2, <1>4
<1> QED
  BY <1>1, <1>2, <1>3, <1>4, <1>5, <1>6, <1>7 DEF Asked

(* The file is given up for another resource only. *)
LEMMA TruncateFacts ==
  ASSUME Control, Shape, Talks, NEW c \in Conns, ConnKind(c), Truncates(c)
  PROVE  /\ Single /\ conn[c].piece = 1
         /\ Total # Unknown => cache' = cache
         /\ Total = Unknown => cache' = <<>>
         /\ Total = Unknown /\ IfRange # None => IfRange \in gone \/ Regrows
<1>1. Owns(c) /\ conn[c].piece \in DOMAIN pieces
  BY OwnedPiece DEF Truncates
<1>2. Single
  <2>1. ~(Len(pieces) > 1)
    BY ConnFacts DEF Truncates, RequireRange
  <2> QED
    BY <1>1, <2>1, PieceFacts
<1>3. ASSUME Total = Unknown, IfRange # None, IfRange \notin gone PROVE Regrows
  <2>1. Ranged(c) /\ ~ServesRange(c) /\ phase = "transfer"
    BY <1>3, ConnFacts DEF Truncates
  <2>2. server.version = IfRange
    BY <1>3, <2>1 DEF Talks, Identities
  <2>3. IfRange \in Tagged
    BY <1>3, ShapeTypes
  <2>4. IfRange = Tag(server.version)
    BY <2>2, <2>3 DEF Tag
  <2>5. ~server.ranges
    BY <2>1, <2>4 DEF ServesRange
  <2>6. IfRange \notin Announced
    <3>1. HonestLength(probe.identity)
      BY DEF Talks, Identities
    <3>2. Unknown \notin Nat /\ IfRange \in Versions /\ Size[IfRange] \in Nat
      BY <2>3, TransferAssumption, ShapeTypes
    <3> QED
      BY <1>3, <3>1, <3>2 DEF HonestLength, Total, IfRange
  <2>7. server \in Servers
    BY DEF Control, TypeOK
  <2> QED
    BY <2>2, <2>3, <2>5, <2>6, <2>7 DEF Regrows
<1> QED
  BY <1>1, <1>2, <1>3, PieceFacts DEF Truncates, Truncated

-----------------------------------------------------------------------------
(* A step of a connection *)

(* How a step of a connection changes what a piece has. *)
LEMMA DownloadedConn ==
  ASSUME Control, Shape, Talks, NEW c \in Conns, ConnKind(c), NEW i \in DOMAIN pieces
  PROVE  /\ pieces'[i].start = pieces[i].start
         /\ \/ pieces'[i].downloaded = pieces[i].downloaded
            \/ /\ Counted(c) /\ i = conn[c].piece /\ cache' = cache
               /\ conn[c].at = "written" /\ conn[c].downloaded = pieces[i].downloaded
               /\ pieces'[i].downloaded = pieces[i].downloaded + 1
               /\ Offset(c) = pieces[i].start + pieces[i].downloaded
            \/ /\ Restarted(c) /\ i = conn[c].piece /\ cache' = cache /\ conn[c].at = "restart"
               /\ pieces'[i].downloaded = 0
<1>1. pieces'[i].start = pieces[i].start
  BY ConnKindFrame
<1>2. CASE Owns(c) => i # conn[c].piece
  BY <1>1, <1>2, OthersKept
<1>3. CASE Owns(c) /\ i = conn[c].piece
  <2>1. CASE Quiet(c) \/ RestartFirst(c) \/ PartialContent(c) \/ Takes(c) \/ Write(c)
    BY <1>1, <2>1, RestartFirstEffect, PartialContentEffect, WriteEffect DEF Quiet, Takes, OwnerKeeps
  <2>2. CASE Claims(c) \/ Releases(c) \/ Finishes(c)
    BY <1>1, <1>3, <2>2, ClaimsEffect, ReleasesEffect DEF Finishes
  <2>3. CASE CountedOn(c) \/ CountedEnd(c) \/ CountedAdvance(c)
    <3>1. Counted(c)
      BY <2>3 DEF CountedOn, CountedEnd, CountedAdvance
    <3> QED
      BY <1>1, <1>3, <3>1, OwnedPiece DEF Counted, Piece, Offset
  <2>4. CASE Restarted(c)
    BY <1>1, <1>3, <2>4, RestartedEffect
  <2> QED
    BY <2>1, <2>2, <2>3, <2>4 DEF ConnKind
<1> QED
  BY <1>2, <1>3

(* What was kept in the file stays kept while connections write. *)
LEMMA KeptConn ==
  ASSUME Control, Shape, Talks, NEW c \in Conns, ConnKind(c), NEW o, Kept(cache, o)
  PROVE  Kept(cache, o)'
<1>1. /\ UNCHANGED <<rows, meta, gone, returned, phase>> /\ phase = "transfer" /\ IfRange' = IfRange
      /\ meta.tag = IfRange /\ meta.length = Total /\ Len(rows) = Len(pieces)
  BY ConnFacts
<1>2. \A t : (Lost(t)' <=> Lost(t)) /\ (Lost(t) <=> returned \/ t \in gone)
  BY <1>1 DEF Lost
<1>3. CASE meta.tag = None
  BY <1>1, <1>3 DEF Kept
<1>4. CASE Len(rows) = 1 /\ meta.length = Unknown /\ (Lost(meta.tag) \/ Regrows)
  BY <1>1, <1>2, <1>4 DEF Kept, Regrows
<1>5. CASE /\ In(cache, o) /\ (cache[o] = meta.tag \/ (Len(rows) = 1 /\ Lost(meta.tag)))
           /\ meta.tag # None
  <2>1. CASE cache' = cache
    BY <1>1, <1>2, <1>5, <2>1 DEF Kept, In
  <2>2. CASE Write(c)
    <3>1. /\ Owns(c) /\ conn[c].from # Hole
          /\ o \in DOMAIN cache' /\ (cache'[o] = cache[o] \/ cache'[o] = conn[c].from)
      BY <1>5, <2>2, WriteFacts DEF In, OwnerKeeps
    <3>2. In(cache', o)
      BY <1>5, <3>1 DEF In
    <3>3. conn[c].from = meta.tag \/ (Len(rows) = 1 /\ Lost(meta.tag))
      <4>1. Len(pieces) > 1 \/ Single
        BY <3>1, OwnedPiece, PieceFacts
      <4> QED
        BY <1>1, <1>2, <1>5, <2>2, <4>1, WriteFacts DEF Single
    <3> QED
      BY <1>1, <1>2, <1>5, <3>1, <3>2, <3>3 DEF Kept
  <2>3. CASE Truncates(c)
    <3>1. CASE Total = Unknown
      BY <1>1, <1>2, <1>5, <2>3, <3>1, TruncateFacts DEF Kept, Single, Regrows
    <3>2. CASE Total # Unknown
      BY <1>1, <1>2, <1>5, <2>3, <3>2, TruncateFacts DEF Kept, In
    <3> QED
      BY <3>1, <3>2
  <2> QED
    BY <2>1, <2>2, <2>3, ConnFile
<1> QED
  BY <1>3, <1>4, <1>5 DEF Kept

(* ... and on the disk, which they do not touch. *)
LEMMA KeptDiskConn ==
  ASSUME Control, Shape, Talks, NEW c \in Conns, ConnKind(c), NEW o, Kept(disk, o)
  PROVE  Kept(disk, o)'
<1>1. UNCHANGED <<rows, meta, disk, gone, returned, phase>> /\ IfRange' = IfRange
  BY ConnFacts
<1> QED
  BY <1>1 DEF Kept, Lost, In, Regrows

(* Several pieces stay of one version: each 206 is of the tag that was asked *)
(* for.                                                                      *)
LEMMA HoldConn ==
  ASSUME Control, Shape, Talks, PiecesHold, Fresh, NEW c \in Conns, ConnKind(c)
  PROVE  PiecesHold'
<1>1. Len(pieces') = Len(pieces) /\ DOMAIN pieces' = DOMAIN pieces /\ IfRange' = IfRange
  BY ConnFacts
<1> SUFFICES ASSUME Len(pieces) > 1, NEW i \in DOMAIN pieces, NEW n \in 1..pieces'[i].downloaded
             PROVE  pieces'[i].start + n \in DOMAIN cache' /\ cache'[pieces'[i].start + n] = IfRange
  BY <1>1 DEF PiecesHold
<1>2. ~Single
  BY SeveralPieces
<1>3. pieces'[i].start = pieces[i].start
  BY DownloadedConn
<1>4. CASE pieces'[i].downloaded = pieces[i].downloaded
  <2> DEFINE p == pieces[i].start + n
  <2>1. p \in DOMAIN cache /\ cache[p] = IfRange
    BY <1>4 DEF PiecesHold
  <2> HIDE DEF p
  <2>2. ~Truncates(c)
    BY <1>2, TruncateFacts
  <2>3. Write(c) => p \in DOMAIN cache' /\ cache'[p] = IfRange
    BY <2>1, WriteFacts
  <2> QED
    BY <1>3, <2>1, <2>2, <2>3, ConnFile DEF p
<1>5. CASE /\ Counted(c) /\ i = conn[c].piece /\ cache' = cache
           /\ conn[c].at = "written" /\ conn[c].downloaded = pieces[i].downloaded
           /\ pieces'[i].downloaded = pieces[i].downloaded + 1
           /\ Offset(c) = pieces[i].start + pieces[i].downloaded
  <2>1. pieces[i].downloaded \in Nat /\ pieces[i].start \in Nat
    BY PieceFacts
  <2>2. CASE n \in 1..pieces[i].downloaded
    BY <1>3, <1>5, <2>2 DEF PiecesHold
  <2>3. CASE n = pieces[i].downloaded + 1
    <3>1. conn[c].from = IfRange
      BY <1>5 DEF Talks, Requests, Asked
    <3>2. pieces[i].start + n = Offset(c) + 1
      BY <1>5, <2>1, <2>3
    <3> QED
      BY <1>3, <1>5, <3>1, <3>2 DEF Fresh
  <2> QED
    BY <1>5, <2>1, <2>2, <2>3
<1>6. CASE Restarted(c) /\ conn[c].at = "restart"
  BY <1>2, <1>6 DEF Talks, Requests, Asked
<1> QED
  BY <1>4, <1>5, <1>6, DownloadedConn

(* A block just written stays until it is counted: no other connection       *)
(* writes there.                                                             *)
LEMMA FreshConn ==
  ASSUME Control, Shape, Talks, Fresh, NEW c \in Conns, ConnKind(c)
  PROVE  Fresh'
<1> SUFFICES ASSUME NEW k \in Conns, conn'[k].at = "written"
             PROVE  Offset(k)' + 1 \in DOMAIN cache' /\ cache'[Offset(k)' + 1] = conn'[k].from
  BY DEF Fresh
<1>1. CASE k = c
  <2>1. Write(c)
    BY <1>1, QuietEffect, ClaimsEffect, ReleasesEffect, RestartFirstEffect, RestartedEffect,
       PartialContentEffect
       DEF ConnKind, Takes, CountedOn, CountedEnd, CountedAdvance, Finishes
  <2>2. Offset(c)' = Offset(c)
    BY <2>1, WriteFacts DEF OwnerKeeps, SamePiece, Offset, Piece
  <2> QED
    BY <1>1, <2>1, <2>2, WriteFacts
<1>2. CASE k # c
  <2>1. conn'[k] = conn[k]
    BY <1>2, ConnFacts DEF Alone
  <2>2. Owns(k)
    BY <2>1 DEF Owns, Writing
  <2>3. conn[k].piece \in DOMAIN pieces /\ (Owns(c) => conn[k].piece # conn[c].piece)
    BY <1>2, <2>2 DEF Control, Owned
  <2>4. Offset(k)' = Offset(k)
    BY <2>1, <2>3, ConnKindFrame DEF Offset, Piece
  <2>5. Offset(k) + 1 \in DOMAIN cache /\ cache[Offset(k) + 1] = conn[k].from
    BY <2>1 DEF Fresh
  <2>6. ~Truncates(c)
    <3> SUFFICES ASSUME Truncates(c) PROVE FALSE
      OBVIOUS
    <3>1. Single /\ conn[c].piece = 1 /\ Owns(c)
      BY TruncateFacts DEF Truncates
    <3>2. conn[k].piece = 1
      BY <2>3, <3>1, PieceFacts
    <3> QED
      BY <2>3, <3>1, <3>2
  <2>7. ASSUME Write(c) PROVE Offset(k) + 1 \in DOMAIN cache' /\ cache'[Offset(k) + 1] = conn[k].from
    <3>1. Owns(c)
      BY <2>7, WriteFacts DEF OwnerKeeps
    <3>2. ~Single
      <4> SUFFICES ASSUME Single PROVE FALSE
        OBVIOUS
      <4>1. conn[k].piece = 1
        BY <2>3, PieceFacts
      <4>2. conn[c].piece = 1
        BY <3>1, OwnedPiece, PieceFacts
      <4> QED
        BY <2>3, <3>1, <4>1, <4>2
    <3>3. Len(pieces) > 1
      BY <2>3, <3>2, PieceFacts
    <3>4. conn[c].from = IfRange /\ conn[k].from = IfRange
      BY <2>1, <2>7, <3>3, WriteFacts DEF Talks, Requests, Asked
    <3> QED
      BY <2>5, <2>7, <3>4, WriteFacts
  <2> QED
    BY <2>1, <2>4, <2>5, <2>6, <2>7, ConnFile
<1> QED
  BY <1>1, <1>2

(* A step of a connection changes nothing about the server. *)
LEMMA SoundConn ==
  ASSUME Control, Shape, Talks, NEW c \in Conns, ConnKind(c)
  PROVE  (Sound' <=> Sound) /\ (Steady' <=> Steady)
  BY ConnFacts DEF Sound, Steady, Regrows

(* A block is counted after it was written, and a piece begins again before  *)
(* its file is read.                                                         *)
LEMMA WrittenConn ==
  ASSUME Control, Shape, Talks, PiecesWritten, Fresh, NEW c \in Conns, ConnKind(c)
  PROVE  PiecesWritten'
<1>1. DOMAIN pieces' = DOMAIN pieces /\ Total' = Total /\ Alone(c)
  BY ConnFacts
<1> SUFFICES ASSUME Sound, NEW i \in DOMAIN pieces, NEW n \in 1..pieces'[i].downloaded
             PROVE  \/ In(cache', pieces'[i].start + n)
                    \/ Total = Unknown /\ \E k \in Conns : conn'[k].at = "restart" /\ conn'[k].piece = i
  BY <1>1, SoundConn DEF PiecesWritten
<1>2. pieces'[i].start = pieces[i].start
  BY DownloadedConn
<1>3. CASE pieces'[i].downloaded = pieces[i].downloaded
  <2> DEFINE p == pieces[i].start + n
  <2>1. \/ In(cache, p)
        \/ Total = Unknown /\ \E k \in Conns : conn[k].at = "restart" /\ conn[k].piece = i
    BY <1>3 DEF PiecesWritten
  <2> HIDE DEF p
  <2>2. CASE In(cache, p)
    <3>1. Write(c) => In(cache', p)
      BY <2>2, WriteFacts DEF In
    <3>2. Truncates(c) /\ Total # Unknown => In(cache', p)
      BY <2>2, TruncateFacts DEF In
    <3>3. Truncates(c) => conn'[c].at = "restart" /\ conn'[c].piece = i
      <4> SUFFICES ASSUME Truncates(c) PROVE conn'[c].at = "restart" /\ conn'[c].piece = i
        OBVIOUS
      <4>1. Single /\ conn[c].piece = 1 /\ i = 1
        BY TruncateFacts, PieceFacts
      <4> QED
        BY <4>1 DEF Truncates, SamePiece
    <3>4. cache' = cache => In(cache', p)
      BY <2>2 DEF In
    <3> QED
      BY <1>2, <3>1, <3>2, <3>3, <3>4, ConnFile DEF p
  <2>3. ASSUME Total = Unknown, NEW k \in Conns, conn[k].at = "restart", conn[k].piece = i
        PROVE  (conn'[k].at = "restart" /\ conn'[k].piece = i) \/ Restarted(c)
    <3>1. CASE k # c
      BY <1>1, <2>3, <3>1 DEF Alone
    <3>2. CASE k = c
      BY <2>3, <3>2, QuietEffect
         DEF ConnKind, Claims, Releases, RestartFirst, PartialContent, Asks, Takes, Write,
             CountedOn, CountedEnd, CountedAdvance, Counted, Finishes
    <3> QED
      BY <3>1, <3>2
  <2>4. ASSUME NEW k \in Conns, conn[k].at = "restart", conn[k].piece = i, Restarted(c), Total = Unknown
        PROVE  (conn'[k].at = "restart" /\ conn'[k].piece = i)
    <3>1. CASE k # c
      BY <1>1, <2>4, <3>1 DEF Alone
    <3>2. CASE k = c
      <4>1. pieces'[i].downloaded = 0
        BY <2>4, <3>2, RestartedEffect
      <4> QED
        BY <4>1
    <3> QED
      BY <3>1, <3>2
  <2> QED
    BY <1>2, <2>1, <2>2, <2>3, <2>4
<1>4. CASE /\ Counted(c) /\ i = conn[c].piece /\ cache' = cache
           /\ conn[c].at = "written" /\ conn[c].downloaded = pieces[i].downloaded
           /\ pieces'[i].downloaded = pieces[i].downloaded + 1
           /\ Offset(c) = pieces[i].start + pieces[i].downloaded
  <2>1. pieces[i].downloaded \in Nat /\ pieces[i].start \in Nat
    BY PieceFacts
  <2>2. CASE n \in 1..pieces[i].downloaded
    <3>1. ASSUME NEW k \in Conns, conn[k].at = "restart", conn[k].piece = i PROVE FALSE
      <4>1. Owns(k) /\ Owns(c)
        BY <1>4, <3>1 DEF Owns, Writing
      <4>2. k = c
        BY <1>4, <3>1, <4>1 DEF Control, Owned
      <4> QED
        BY <1>4, <3>1, <4>2
    <3> QED
      BY <1>2, <1>4, <2>2, <3>1 DEF PiecesWritten
  <2>3. CASE n = pieces[i].downloaded + 1
    <3>1. pieces[i].start + n = Offset(c) + 1
      BY <1>4, <2>1, <2>3
    <3>2. conn[c].from # Hole
      BY <1>4, ShapeTypes DEF Control, Sources
    <3> QED
      BY <1>2, <1>4, <3>1, <3>2 DEF Fresh, In
  <2> QED
    BY <1>4, <2>1, <2>2, <2>3
<1>5. CASE pieces'[i].downloaded = 0
  BY <1>5
<1> QED
  BY <1>3, <1>4, <1>5, DownloadedConn

(* The file grows with what is counted. *)
LEMMA LengthConn ==
  ASSUME Control, Shape, Talks, FileLength, NEW c \in Conns, ConnKind(c)
  PROVE  FileLength'
<1>1. /\ Len(pieces') = Len(pieces) /\ DOMAIN pieces' = DOMAIN pieces /\ Total' = Total
      /\ phase = "transfer" /\ Running /\ Running' /\ Alone(c) /\ (Total = Unknown => Single) /\ phase' = phase
  BY ConnFacts
<1>2. cache \in Seq(Versions \cup {Hole})
  BY ShapeTypes
<1>3. ASSUME Total # Unknown PROVE Len(cache') <= Total
  <2>1. Len(cache) <= Total /\ Total \in Nat /\ Len(cache) \in Nat
    BY <1>1, <1>2, <1>3, ShapeTypes DEF FileLength
  <2>2. CASE Write(c)
    <3> DEFINE i == conn[c].piece
    <3>1. Owns(c) /\ HasRoom(c) /\ Offset(c) \in Nat
          /\ Len(cache') = IF Len(cache) > Offset(c) THEN Len(cache) ELSE Offset(c) + 1
      BY <2>2, WriteFacts DEF OwnerKeeps
    <3>2. i \in DOMAIN rows /\ rows \in Seq(RowType) /\ Tiles(rows, Total)
          /\ pieces[i].start = rows[i].start /\ pieces[i].len = RowLen(i)
      BY <1>1, <1>3, <3>1, OwnedPiece, ShapeTypes DEF Shape, Planned
    <3>3. rows[i].start <= rows[i].end /\ rows[i].end + 1 <= Total
      BY <2>1, <3>2, TilesBounded
    <3>4. rows[i].start \in Nat /\ rows[i].end \in Nat
      <4>1. rows[i] \in RowType
        BY <3>2, Indices
      <4> QED
        BY <4>1 DEF RowType
    <3>5. conn[c].downloaded < rows[i].end - rows[i].start + 1 /\ conn[c].downloaded \in Nat
      <4>1. Piece(c).len # Unknown
        BY <3>2, <3>3, <3>4 DEF Piece, RowLen, Unknown
      <4> QED
        BY <3>1, <3>2, <4>1, OwnedPiece DEF HasRoom, Piece, RowLen
    <3>6. Offset(c) = rows[i].start + conn[c].downloaded
      BY <3>2 DEF Offset, Piece
    <3> HIDE DEF i
    <3>7. Offset(c) + 1 <= Total
      BY <2>1, <3>3, <3>4, <3>5, <3>6
    <3>8. Len(cache') = Len(cache) \/ Len(cache') = Offset(c) + 1
      BY <3>1
    <3> QED
      BY <2>1, <3>7, <3>8
  <2> QED
    BY <1>3, <2>1, <2>2, ConnFile, TruncateFacts
<1>4. ASSUME Total = Unknown
      PROVE  /\ \A k \in Conns : conn'[k].at = "restart" => Len(cache') = 0
             /\ \A k \in Conns : conn'[k].at = "written" => Len(cache') = conn'[k].downloaded + 1
             /\ (\A k \in Conns : conn'[k].at \notin {"restart", "written"}) => Len(cache') = pieces'[1].downloaded
  <2>1. Single /\ 1 \in DOMAIN pieces
    BY <1>1, <1>4, ShapeTypes DEF Single
  <2>2. \A k \in Conns : conn[k].at \in {"restart", "written"} => Owns(k)
    BY DEF Owns, Writing
  <2>3. \A k \in Conns : Owns(k) => conn[k].piece = 1 /\ (Owns(c) => k = c)
    <3>1. \A k \in Conns : Owns(k) => conn[k].piece = 1
      BY <2>1, OwnedPiece, PieceFacts
    <3> QED
      BY <3>1 DEF Control, Owned
  <2>4. CASE Write(c)
    <3>1. /\ Owns(c) /\ Offset(c) \in Nat /\ conn[c].at = "body" /\ conn'[c].at = "written"
          /\ Len(cache') = (IF Len(cache) > Offset(c) THEN Len(cache) ELSE Offset(c) + 1)
          /\ conn'[c].downloaded = conn[c].downloaded
      BY <2>4, WriteFacts DEF OwnerKeeps, SamePiece
    <3>2. \A k \in Conns : k # c => conn'[k].at \notin {"restart", "written"}
      BY <1>1, <2>2, <2>3, <3>1 DEF Alone
    <3>3. Len(cache) = pieces[1].downloaded
      <4>1. \A k \in Conns : conn[k].at \notin {"restart", "written"}
        BY <2>2, <2>3, <3>1
      <4> QED
        BY <1>1, <1>4, <4>1 DEF FileLength
    <3>4. Offset(c) = conn[c].downloaded /\ conn[c].downloaded = pieces[1].downloaded /\ conn[c].downloaded \in Nat
      BY <2>1, <2>3, <3>1, OwnedPiece, PieceFacts DEF Offset, Piece
    <3> QED
      BY <3>1, <3>2, <3>3, <3>4
  <2>5. CASE Truncates(c)
    <3>1. Len(cache') = 0 /\ Owns(c) /\ conn'[c].at = "restart"
      BY <1>4, <2>5, TruncateFacts DEF Truncates
    <3>2. \A k \in Conns : k # c => conn'[k].at \notin {"restart", "written"}
      BY <1>1, <2>2, <2>3, <3>1 DEF Alone
    <3> QED
      BY <3>1, <3>2
  <2>6. CASE cache' = cache /\ ~Write(c) /\ ~Truncates(c)
    <3>1. CASE conn[c].at \notin {"restart", "written"}
      <4>1. conn'[c].at \notin {"restart", "written"}
        <5>1. ~(Takes(c) /\ Ranged(c))
          BY <2>6 DEF Takes, Truncates, OwnerKeeps
        <5>2. ~RestartFirst(c)
          BY <2>6, RestartFirstEffect DEF RestartFirst, MustRestart, Truncates, OwnerKeeps
        <5> QED
          BY <2>6, <3>1, <5>1, <5>2, QuietEffect, ClaimsEffect, ReleasesEffect, PartialContentEffect
             DEF ConnKind, Restarted, Takes, CountedOn, CountedEnd, CountedAdvance, Counted, Finishes
      <4>2. pieces'[1].downloaded = pieces[1].downloaded
        BY <2>1, <3>1, DownloadedConn
      <4>3. \A k \in Conns : k # c => conn'[k] = conn[k]
        BY <1>1 DEF Alone
      <4> QED
        BY <1>1, <1>4, <2>6, <3>1, <4>1, <4>2, <4>3 DEF FileLength
    <3>2. CASE conn[c].at = "restart"
      <4>1. Restarted(c)
        BY <2>6, <3>2, QuietEffect
           DEF ConnKind, Claims, Releases, RestartFirst, PartialContent, Asks, Takes, Write,
               CountedOn, CountedEnd, CountedAdvance, Counted, Finishes
      <4>2. Owns(c) /\ conn'[c].at \in {"request", "body"} /\ pieces'[1].downloaded = 0
        BY <2>3, <4>1, RestartedEffect
      <4>3. \A k \in Conns : conn'[k].at \notin {"restart", "written"}
        BY <1>1, <2>2, <2>3, <4>2 DEF Alone
      <4>4. Len(cache) = 0
        BY <1>1, <1>4, <3>2 DEF FileLength
      <4> QED
        BY <2>6, <4>2, <4>3, <4>4
    <3>3. CASE conn[c].at = "written"
      <4>1. CountedOn(c) \/ CountedEnd(c) \/ CountedAdvance(c)
        BY <2>6, <3>3, QuietEffect
           DEF ConnKind, Claims, Releases, RestartFirst, Restarted, PartialContent, Asks, Takes, Finishes
      <4>2. Counted(c) /\ conn'[c].at \in {"body", "fetched"}
        BY <4>1 DEF CountedOn, CountedEnd, CountedAdvance
      <4>3. pieces'[1].downloaded = conn[c].downloaded + 1 /\ Owns(c)
        BY <2>3, <4>2 DEF Counted
      <4>4. \A k \in Conns : conn'[k].at \notin {"restart", "written"}
        BY <1>1, <2>2, <2>3, <4>2, <4>3 DEF Alone
      <4>5. Len(cache) = conn[c].downloaded + 1
        BY <1>1, <1>4, <3>3 DEF FileLength
      <4> QED
        BY <2>6, <4>3, <4>4, <4>5
    <3> QED
      BY <3>1, <3>2, <3>3
  <2> QED
    BY <2>4, <2>5, <2>6, ConnFile
<1> QED
  BY <1>1, <1>3, <1>4 DEF FileLength

(* A single stream stays of one version: a body is taken from its beginning  *)
(* or behind what is of the same version.                                    *)
LEMMA SourceConn ==
  ASSUME Control, Shape, Talks, OneSource, Fresh, NEW c \in Conns, ConnKind(c)
  PROVE  OneSource'
<1>0. /\ Alone(c) /\ (Single' <=> Single) /\ IfRange' = IfRange /\ gone' = gone /\ returned' = returned /\ phase = "transfer"
      /\ DOMAIN pieces' = DOMAIN pieces
  BY ConnFacts
<1> SUFFICES ASSUME Single, Steady
             PROVE  /\ \A k \in Conns : conn'[k].at \in {"body", "written"} =>
                         HoldsOnly(conn[k].downloaded, conn[k].from)'
                    /\ IfRange # None /\ IfRange \notin gone => HoldsOnly(pieces[1].downloaded, IfRange)'
  BY <1>0, SoundConn DEF OneSource
<1>1. 1 \in DOMAIN pieces /\ pieces[1].downloaded \in Nat /\ pieces[1].start = 0
  <2>1. 1 \in DOMAIN pieces
    BY ShapeTypes DEF Single
  <2> QED
    BY <2>1, PieceFacts
<1>2. \A k \in Conns : Owns(k) => /\ conn[k].piece = 1 /\ Offset(k) = conn[k].downloaded
                                  /\ conn[k].downloaded = pieces[1].downloaded
                                  /\ (Owns(c) => k = c)
  <2>1. \A k \in Conns : Owns(k) => conn[k].piece = 1
    BY OwnedPiece, PieceFacts
  <2>2. \A k \in Conns : Owns(k) => conn[k].downloaded = pieces[1].downloaded
    BY <2>1, OwnedPiece DEF Piece
  <2> QED
    BY <1>1, <2>1, <2>2 DEF Control, Owned, Offset, Piece
<1>3. ASSUME NEW k \in Conns, conn'[k].at \in {"body", "written"}, k # c
      PROVE  HoldsOnly(conn[k].downloaded, conn[k].from)'
  <2>1. conn'[k] = conn[k] /\ Owns(k)
    BY <1>0, <1>3 DEF Alone, Owns, Writing
  <2>2. ~Owns(c)
    BY <1>2, <1>3, <2>1
  <2>3. cache' = cache
    BY <2>2, ConnFile, WriteFacts DEF Truncates, OwnerKeeps
  <2> QED
    BY <1>3, <2>1, <2>3 DEF OneSource, HoldsOnly
<1>4. ASSUME conn'[c].at \in {"body", "written"}
      PROVE  HoldsOnly(conn[c].downloaded, conn[c].from)'
  <2>1. CASE PartialContent(c)
    <3>1. /\ OwnerKeeps(c) /\ conn[c].at = "asked" /\ conn'[c].from = server.version
          /\ Ranged(c) /\ IfRange = Tag(server.version) /\ cache' = cache
      BY <2>1, PartialContentEffect DEF PartialContent, Asks, ServesRange
    <3>2. conn[c].downloaded > 0
      <4>1. ~RequireRange
        BY SeveralPieces DEF RequireRange
      <4> QED
        BY <3>1, <4>1 DEF Ranged
    <3>3. ~MustRestart(c)
      BY <3>1 DEF Talks, Requests, Asked
    <3>4. IfRange # None
      BY <3>2, <3>3 DEF MustRestart
    <3>5. IfRange = server.version /\ IfRange \notin gone
      BY <3>1, <3>4 DEF Tag, Talks, Identities, Steady
    <3>6. HoldsOnly(pieces[1].downloaded, IfRange)
      BY <3>4, <3>5 DEF OneSource
    <3>7. conn'[c].downloaded = pieces[1].downloaded
      BY <1>2, <3>1 DEF OwnerKeeps, SamePiece
    <3> QED
      BY <3>1, <3>5, <3>6, <3>7 DEF HoldsOnly
  <2>2. CASE Takes(c)
    <3>1. ~Ranged(c) /\ conn'[c].downloaded = conn[c].downloaded /\ Owns(c)
      BY <1>4, <2>2 DEF Takes, OwnerKeeps, SamePiece
    <3>2. conn'[c].downloaded = 0
      BY <1>1, <1>2, <3>1 DEF Ranged
    <3> QED
      BY <3>2 DEF HoldsOnly
  <2>3. CASE Restarted(c)
    <3>1. conn'[c].downloaded = 0
      BY <2>3, RestartedEffect
    <3> QED
      BY <3>1 DEF HoldsOnly
  <2>4. CASE Write(c)
    <3>1. /\ Owns(c) /\ conn[c].at = "body" /\ conn'[c].from = conn[c].from
          /\ conn'[c].downloaded = conn[c].downloaded /\ Offset(c) = conn[c].downloaded
      BY <1>2, <2>4, WriteFacts DEF OwnerKeeps, SamePiece
    <3>2. HoldsOnly(conn[c].downloaded, conn[c].from)
      BY <3>1 DEF OneSource
    <3>3. \A p \in DOMAIN cache : p # Offset(c) + 1 => p \in DOMAIN cache' /\ cache'[p] = cache[p]
      BY <2>4, WriteFacts
    <3>4. \A p \in 1..conn[c].downloaded : p # Offset(c) + 1
      BY <1>1, <1>2, <3>1
    <3> QED
      BY <3>1, <3>2, <3>3, <3>4 DEF HoldsOnly
  <2>5. CASE CountedOn(c)
    <3>1. /\ Owns(c) /\ conn[c].at = "written" /\ conn'[c].from = conn[c].from
          /\ conn'[c].downloaded = conn[c].downloaded + 1 /\ cache' = cache
      BY <2>5 DEF CountedOn, Counted
    <3>2. HoldsOnly(conn[c].downloaded, conn[c].from)
      BY <3>1 DEF OneSource
    <3>3. conn[c].downloaded + 1 \in DOMAIN cache /\ cache[conn[c].downloaded + 1] = conn[c].from
      BY <1>2, <3>1 DEF Fresh
    <3>4. \A p \in 1..(conn[c].downloaded + 1) : p \in 1..conn[c].downloaded \/ p = conn[c].downloaded + 1
      BY <1>1, <1>2, <3>1
    <3> QED
      BY <3>1, <3>2, <3>3, <3>4 DEF HoldsOnly
  <2>6. ~CountedAdvance(c)
    <3> SUFFICES ASSUME CountedAdvance(c) PROVE FALSE
      OBVIOUS
    <3>1. conn[c].piece = 1 /\ conn[c].piece + 1 \in DOMAIN pieces
      BY <1>2 DEF CountedAdvance, Counted
    <3>2. 1 + 1 = 1
      BY <3>1, PieceFacts
    <3> QED
      BY <3>2
  <2> QED
    BY <1>4, <2>1, <2>2, <2>3, <2>4, <2>5, <2>6, QuietEffect, ClaimsEffect, ReleasesEffect,
       RestartFirstEffect
       DEF ConnKind, CountedEnd, Finishes
<1>5. ASSUME IfRange # None, IfRange \notin gone
      PROVE  HoldsOnly(pieces[1].downloaded, IfRange)'
  <2>0. HoldsOnly(pieces[1].downloaded, IfRange)
    BY <1>5 DEF OneSource
  <2>1. CASE pieces'[1].downloaded = pieces[1].downloaded
    <3>1. CASE Write(c)
      <4>1. \A p \in DOMAIN cache : p \in DOMAIN cache' /\ (cache'[p] = cache[p] \/ cache'[p] = conn[c].from)
        BY <3>1, WriteFacts
      <4>2. conn[c].from = IfRange
        BY <1>5, <3>1, WriteFacts
      <4> QED
        BY <1>0, <2>0, <2>1, <4>1, <4>2 DEF HoldsOnly
    <3>2. CASE Truncates(c)
      <4>1. cache' = cache
        BY <1>5, <3>2, TruncateFacts DEF Sound, Steady
      <4> QED
        BY <1>0, <2>0, <2>1, <4>1 DEF HoldsOnly
    <3> QED
      BY <1>0, <2>0, <2>1, <3>1, <3>2, ConnFile DEF HoldsOnly
  <2>2. CASE /\ Counted(c) /\ cache' = cache
             /\ conn[c].at = "written"
             /\ pieces'[1].downloaded = pieces[1].downloaded + 1
    <3>1. conn[c].from = IfRange
      <4>1. conn[c].from # None
        BY <2>2, ShapeTypes DEF Counted
      <4> QED
        BY <1>5, <2>2, <4>1 DEF Talks, Requests, Asked
    <3>2. pieces[1].downloaded + 1 \in DOMAIN cache /\ cache[pieces[1].downloaded + 1] = IfRange
      BY <1>2, <2>2, <3>1 DEF Fresh, Counted
    <3>3. \A p \in 1..(pieces[1].downloaded + 1) : p \in 1..pieces[1].downloaded \/ p = pieces[1].downloaded + 1
      BY <1>1
    <3> QED
      BY <1>0, <2>0, <2>2, <3>2, <3>3 DEF HoldsOnly
  <2>3. CASE pieces'[1].downloaded = 0
    BY <2>3 DEF HoldsOnly
  <2> QED
    BY <1>1, <2>1, <2>2, <2>3, DownloadedConn
<1> QED
  BY <1>3, <1>4, <1>5

(* A stream that ends cleanly is whole. *)
LEMMA FinishedConn ==
  ASSUME Control, Shape, Talks, OneSource, Finished, NEW c \in Conns, ConnKind(c)
  PROVE  Finished'
<1>0. /\ Alone(c) /\ (Single' <=> Single) /\ IfRange' = IfRange /\ failure' = failure
      /\ DOMAIN pieces' = DOMAIN pieces
  BY ConnFacts
<1> DEFINE Going(k) == conn[k].at \in (Writing \ {"fetched"}) \cup {"failed", "cancelled"}
<1> SUFFICES ASSUME Single, Steady, Complete(pieces'[1]), ~Going(c)'
             PROVE  Whole' \/ failure # None \/ \E k \in Conns : Going(k)'
  BY <1>0, SoundConn DEF Finished
<1>1. 1 \in DOMAIN pieces /\ pieces[1].downloaded \in Nat /\ pieces[1].start = 0
  <2>1. 1 \in DOMAIN pieces
    BY ShapeTypes DEF Single
  <2> QED
    BY <2>1, PieceFacts
<1>2. Owns(c) => conn[c].piece = 1
  BY OwnedPiece, PieceFacts
<1>3. \/ Finishes(c)
      \/ Releases(c) /\ conn[c].at = "fetched"
      \/ Quiet(c) /\ conn[c].at = "claim"
  <2>1. ~Claims(c)
    BY ClaimsEffect DEF Writing
  <2>2. ~(RestartFirst(c) \/ Restarted(c) \/ PartialContent(c) \/ Takes(c) \/ Write(c))
    BY RestartFirstEffect, RestartedEffect, PartialContentEffect, WriteFacts DEF Takes, Writing
  <2>3. ~(CountedOn(c) \/ CountedAdvance(c))
    BY DEF CountedOn, CountedAdvance, Writing
  <2>4. ~CountedEnd(c)
    BY <1>2 DEF CountedEnd, Counted, Single
  <2>5. Quiet(c) => conn[c].at = "claim"
    BY QuietEffect DEF Writing
  <2>6. Releases(c) => conn[c].at = "fetched"
    <3> SUFFICES ASSUME Releases(c), conn[c].at # "fetched" PROVE FALSE
      OBVIOUS
    <3>1. /\ Owns(c) /\ conn'[c].at \in {"refused", "cancelled", "failed"}
          /\ conn'[c].at = "refused" => conn[c].error = "refused"
      BY ReleasesEffect
    <3>2. conn'[c].at # "refused"
      BY <3>1 DEF Talks, Requests, Asked
    <3> QED
      BY <3>1, <3>2
  <2> QED
    BY <2>1, <2>2, <2>3, <2>4, <2>5, <2>6 DEF ConnKind
<1>4. CASE Finishes(c)
  <2>1. /\ Owns(c) /\ conn[c].at = "body" /\ conn[c].from \in Versions /\ Offset(c) >= Size[conn[c].from]
        /\ cache' = cache /\ pieces'[1].downloaded = pieces[1].downloaded
    BY <1>2, <1>4 DEF Finishes
  <2>2. Offset(c) = pieces[1].downloaded /\ conn[c].downloaded = pieces[1].downloaded
    BY <1>1, <1>2, <2>1, OwnedPiece DEF Offset, Piece
  <2>3. Offset(c) <= Size[conn[c].from] /\ Size[conn[c].from] \in Nat
    BY <2>1, TransferAssumption DEF Talks, Requests, Asked
  <2>4. pieces[1].downloaded = Size[conn[c].from]
    BY <1>1, <2>1, <2>2, <2>3
  <2>5. HoldsOnly(Size[conn[c].from], conn[c].from)
    BY <2>1, <2>2, <2>4 DEF OneSource
  <2>6. \A m \in 1..Size[conn[c].from] : m \in DOMAIN cache' /\ cache'[m] = conn[c].from
    BY <2>1, <2>5 DEF HoldsOnly
  <2> QED
    BY <2>1, <2>4, <2>6 DEF Whole, HoldsOnly
<1>5. CASE (Releases(c) /\ conn[c].at = "fetched") \/ (Quiet(c) /\ conn[c].at = "claim")
  <2>1. /\ cache' = cache /\ pieces'[1].downloaded = pieces[1].downloaded /\ pieces'[1].len = pieces[1].len
    BY <1>1, <1>5, ReleasesEffect DEF Releases, Quiet, SamePlace
  <2>2. Whole \/ failure # None \/ \E k \in Conns : Going(k)
    BY <2>1 DEF Finished, Complete
  <2>3. Whole => Whole'
    BY <2>1 DEF Whole, HoldsOnly
  <2>4. ~Going(c)
    BY <1>5 DEF Writing
  <2>5. \A k \in Conns : Going(k) => Going(k)'
    BY <1>0, <2>4 DEF Alone
  <2> QED
    BY <2>2, <2>3, <2>5
<1> QED
  BY <1>3, <1>4, <1>5

(* What is saved stays kept while connections write. *)
LEMMA StorageConn ==
  ASSUME Control, Shape, Talks, FileLength, FileLength', Storage, NEW c \in Conns, ConnKind(c)
  PROVE  Storage'
<1>1. /\ UNCHANGED <<rows, meta, disk, probe, saving, snapshot, phase>>
      /\ phase = "transfer" /\ Running /\ meta.length = Total /\ Running'
  BY ConnFacts
<1>2. ResumedSame'
  BY <1>1 DEF ResumedSame
<1>3. ASSUME ~NothingCounted' PROVE RowsKept'
  <2>1. /\ Planned(rows, meta.length)
        /\ meta.length # Unknown => Len(disk) <= meta.length
        /\ \A i \in DOMAIN rows : \A n \in 1..rows[i].downloaded :
             Kept(cache, rows[i].start + n) /\ Kept(disk, rows[i].start + n)
    BY <1>1, <1>3 DEF Storage, RowsKept, NothingCounted
  <2>2. meta'.length # Unknown => Len(cache') <= meta'.length
    BY <1>1 DEF FileLength, Total
  <2>3. ASSUME NEW i \in DOMAIN rows', NEW n \in 1..rows'[i].downloaded
        PROVE  Kept(cache, rows[i].start + n)' /\ Kept(disk, rows[i].start + n)'
    <3> DEFINE o == rows[i].start + n
    <3>1. Kept(cache, o) /\ Kept(disk, o) /\ o' = o
      BY <1>1, <2>1, <2>3
    <3> HIDE DEF o
    <3>2. Kept(cache, o)' /\ Kept(disk, o)'
      BY <3>1, KeptConn, KeptDiskConn
    <3> QED
      BY <3>2 DEF o
  <2> QED
    BY <1>1, <2>1, <2>2, <2>3 DEF RowsKept
<1>4. SnapshotKept'
  <2>1. ASSUME saving' # "idle", NEW i \in DOMAIN snapshot', NEW n \in 1..snapshot'[i]
        PROVE  Kept(cache, rows[i].start + n)'
    <3> DEFINE o == rows[i].start + n
    <3>1. Kept(cache, o) /\ o' = o
      BY <1>1, <2>1 DEF Storage, SnapshotKept
    <3> HIDE DEF o
    <3>2. Kept(cache, o)'
      BY <3>1, KeptConn
    <3> QED
      BY <3>2 DEF o
  <2>2. ASSUME saving' \in {"synced", "updated"}, NEW i \in DOMAIN snapshot', NEW n \in 1..snapshot'[i]
        PROVE  Kept(disk, rows[i].start + n)'
    <3> DEFINE o == rows[i].start + n
    <3>1. Kept(disk, o) /\ o' = o
      BY <1>1, <2>2 DEF Storage, SnapshotKept
    <3> HIDE DEF o
    <3>2. Kept(disk, o)'
      BY <3>1, KeptDiskConn
    <3> QED
      BY <3>2 DEF o
  <2>3. saving' \in {"synced", "updated"} /\ Total' # Unknown => Len(disk') <= Total'
    BY <1>1 DEF Storage, SnapshotKept, Total
  <2> QED
    BY <2>1, <2>2, <2>3 DEF SnapshotKept
<1> QED
  BY <1>2, <1>3, <1>4 DEF Storage, RowsKept

-----------------------------------------------------------------------------
(* The steps around the connections *)

(* The steps that leave the file and the pieces as they are. *)
LEMMA ContentsStay ==
  ASSUME Control, Contents, cache' = cache, probe' = probe, gone \subseteq gone', returned => returned',
         (phase' = phase /\ rows' = rows) \/ (Running /\ Running'),
         Len(pieces') = Len(pieces), DOMAIN pieces' = DOMAIN pieces,
         \A j \in DOMAIN pieces : /\ pieces'[j].downloaded = pieces[j].downloaded
                                  /\ pieces'[j].start = pieces[j].start /\ pieces'[j].len = pieces[j].len,
         failure # None => failure' # None,
         \A k \in Conns : \/ conn'[k] = conn[k]
                          \/ /\ conn'[k].at = "off" /\ conn[k].at \in Ends
                             /\ conn[k].at \in {"failed", "cancelled"} => failure' # None
  PROVE  Contents'
<1>1. /\ IfRange' = IfRange /\ Total' = Total /\ (Single' <=> Single) /\ (Sound' => Sound) /\ (Steady' => Steady)
      /\ (phase' = "identify" <=> phase = "identify") /\ (phase = "identify" => rows' = rows)
      /\ (Running' <=> Running)
  BY DEF IfRange, Total, Single, Sound, Steady, Regrows, Running
<1>2. \A k \in Conns : conn'[k].at \in {"restart", "written", "body"} => conn'[k] = conn[k]
  OBVIOUS
<1>3. \A k \in Conns : conn[k].at \in {"restart", "written", "body"} => conn'[k] = conn[k]
  BY DEF Ends
<1>4. Single => 1 \in DOMAIN pieces
  BY ShapeTypes DEF Single
<1>5. FileLength'
  <2>1. ASSUME Total = Unknown, Running, \A k \in Conns : conn'[k].at \notin {"restart", "written"}
        PROVE  Len(cache') = pieces'[1].downloaded
    <3>1. \A k \in Conns : conn[k].at \notin {"restart", "written"}
      BY <1>3, <2>1
    <3>2. Len(cache) = pieces[1].downloaded
      BY <2>1, <3>1 DEF Contents, FileLength
    <3>3. 1 \in DOMAIN pieces \/ pieces' = pieces
      <4>1. DOMAIN pieces = {} => pieces = <<>> /\ pieces' = <<>>
        OBVIOUS
      <4>2. DOMAIN pieces # {} => 1 \in DOMAIN pieces
        BY ShapeTypes
      <4> QED
        BY <4>1, <4>2
    <3> QED
      BY <3>2, <3>3
  <2> QED
    BY <1>1, <1>2, <2>1 DEF Contents, FileLength
<1>6. PiecesHold'
  BY <1>1 DEF Contents, PiecesHold
<1>7. Fresh'
  <2> SUFFICES ASSUME NEW k \in Conns, conn'[k].at = "written"
               PROVE  Offset(k)' + 1 \in DOMAIN cache' /\ cache'[Offset(k)' + 1] = conn'[k].from
    BY DEF Fresh
  <2>1. conn'[k] = conn[k] /\ Owns(k)
    BY <1>2 DEF Owns, Writing
  <2>2. conn[k].piece \in DOMAIN pieces
    BY <2>1 DEF Control, Owned
  <2>3. Offset(k)' = Offset(k)
    BY <2>1, <2>2 DEF Offset, Piece
  <2> QED
    BY <2>1, <2>3 DEF Contents, Fresh
<1>8. PiecesWritten'
  BY <1>1, <1>3 DEF Contents, PiecesWritten, In
<1>9. OneSource'
  BY <1>1, <1>2, <1>4 DEF Contents, OneSource, HoldsOnly
<1>10. Finished'
  <2> SUFFICES ASSUME Single, Steady, Complete(pieces'[1]), failure' = None
               PROVE  \/ Whole'
                      \/ \E k \in Conns : conn'[k].at \in (Writing \ {"fetched"}) \cup {"failed", "cancelled"}
    BY <1>1 DEF Finished
  <2>1. \/ Whole
        \/ \E k \in Conns : conn[k].at \in (Writing \ {"fetched"}) \cup {"failed", "cancelled"}
    BY <1>4 DEF Contents, Finished, Complete
  <2>2. Whole => Whole'
    BY <1>4 DEF Whole, HoldsOnly
  <2>3. \A k \in Conns : conn[k].at \in (Writing \ {"fetched"}) \cup {"failed", "cancelled"} => conn'[k] = conn[k]
    BY DEF Writing, Ends
  <2> QED
    BY <2>1, <2>2, <2>3
<1> QED
  BY <1>5, <1>6, <1>7, <1>8, <1>9, <1>10 DEF Contents

(* No run, nothing to say. *)
LEMMA NoContents ==
  ASSUME pieces' = <<>>, \A k \in Conns : conn'[k].at = "off", phase' \notin {"identify"}, ~Running'
  PROVE  Contents'
<1>1. Len(pieces') = 0 /\ DOMAIN pieces' = {}
  OBVIOUS
<1> QED
  BY <1>1 DEF Contents, FileLength, PiecesHold, Fresh, PiecesWritten, OneSource, Finished, Single

(* What a worker finds before it has pieces. *)
LEMMA PrepareContents ==
  ASSUME Control, Shape, Contents, Begin \/ Resume \/ ResetRows \/ Create
  PROVE  Contents'
<1>1. pieces' = <<>> /\ pieces = <<>> /\ \A k \in Conns : conn'[k].at = "off"
  <2>1. pieces' = pieces /\ conn' = conn /\ ~Running /\ phase # "transfer"
    BY DEF Begin, Resume, ResetRows, Create, transferVars, Running
  <2> QED
    BY <2>1 DEF Control, Idle, Owned
<1>2. CASE Begin \/ ResetRows
  <2>1. phase' \notin {"identify"} /\ ~Running'
    BY <1>2 DEF Begin, ResetRows, Goto, Running
  <2> QED
    BY <1>1, <2>1, NoContents
<1>3. CASE Resume \/ Create
  <2>1. phase' = "identify" /\ ~Running' /\ UNCHANGED <<rows, probe>>
    BY <1>3 DEF Resume, Create, Goto, Running
  <2>2. FileLength'
    <3>1. Total' = Total /\ cache \in Seq(Versions \cup {Hole}) /\ Len(cache) \in Nat
      BY <2>1, ShapeTypes DEF Total
    <3>2. CASE Resume
      <4>1. Resumable(rows, Total, probe.ranged, Len(cache))
        BY <3>2 DEF Resume, Resumes
      <4>2. CASE Total = Unknown
        <5>1. rows[1].downloaded \in 1..Len(cache) /\ cache' = SubSeq(cache, 1, rows[1].downloaded)
          BY <3>2, <4>1, <4>2 DEF Resume, Resumable
        <5>2. Len(cache') = rows[1].downloaded
          BY <3>1, <5>1
        <5> QED
          BY <2>1, <3>1, <4>2, <5>2 DEF FileLength
      <4>3. CASE Total # Unknown
        BY <2>1, <3>1, <3>2, <4>1, <4>3 DEF FileLength, Resume, Resumable
      <4> QED
        BY <4>2, <4>3
    <3>3. CASE Create
      <4>1. cache' = <<>> /\ Len(cache') = 0 /\ NothingCounted /\ Planned(rows, Total)
        BY <3>3 DEF Create, Shape
      <4>2. Total = Unknown => rows[1].downloaded = 0
        <5>1. Total = Unknown => 1 \in DOMAIN rows
          BY <4>1, ShapeTypes DEF Planned
        <5> QED
          BY <4>1, <5>1 DEF NothingCounted
      <4>3. Total # Unknown => 0 <= Total
        BY ShapeTypes
      <4> QED
        BY <2>1, <3>1, <4>1, <4>2, <4>3 DEF FileLength
    <3> QED
      BY <1>3, <3>2, <3>3
  <2>3. Len(pieces') = 0 /\ DOMAIN pieces' = {}
    BY <1>1
  <2> QED
    BY <1>1, <2>2, <2>3 DEF Contents, PiecesHold, Fresh, PiecesWritten, OneSource, Finished, Single
<1> QED
  BY <1>2, <1>3

(* The length a probe tells is that of the version it names. *)
LEMMA TotalIsSize ==
  ASSUME Control, Talks, IfRange # None, Total # Unknown
  PROVE  IfRange \in Versions /\ Total = Size[IfRange]
<1>1. IfRange \in Versions
  BY ShapeTypes, TransferAssumption
<1>2. HonestLength(probe.identity)
  BY DEF Talks, Identities
<1> QED
  BY <1>1, <1>2 DEF HonestLength, Total, IfRange

(* What a run resumes from is the resource it has probed. *)
LEMMA ResumedCell ==
  ASSUME Control, Storage, phase = "identify", Sound,
         NEW i \in DOMAIN rows, NEW n \in 1..rows[i].downloaded
  PROVE  /\ In(cache, rows[i].start + n) /\ IfRange # None
         /\ ~returned \/ Len(rows) # 1 => cache[rows[i].start + n] = IfRange
<1>1. ~NothingCounted
  <2>1. rows[i] \in RowType
    BY ShapeTypes, Indices
  <2>2. rows[i].downloaded # 0
    BY <2>1 DEF RowType
  <2> QED
    BY <2>2 DEF NothingCounted
<1>2. meta.tag = IfRange /\ IfRange # None /\ meta.length = Total
  BY <1>1 DEF Storage, ResumedSame, SameResource, IfRange, Total
<1>3. Lost(meta.tag) => returned
  BY <1>2 DEF Lost
<1>4. Kept(cache, rows[i].start + n)
  BY <1>1 DEF Storage, RowsKept
<1> QED
  BY <1>2, <1>3, <1>4 DEF Kept, Sound

(* The pieces a transfer begins with hold what the rows promise. *)
LEMMA IdentifyContents ==
  ASSUME Control, Shape, Talks, Contents, Storage, Identify
  PROVE  Contents'
<1>1. /\ pieces' \in Seq(PieceType) /\ DOMAIN pieces' = DOMAIN rows /\ Len(pieces') = Len(rows)
      /\ \A i \in DOMAIN rows :
           /\ pieces'[i].start = rows[i].start /\ pieces'[i].downloaded = rows[i].downloaded
           /\ pieces'[i].len = IF Total = Unknown THEN Unknown ELSE rows[i].end - rows[i].start + 1
      /\ \A k \in Conns : conn'[k].at = "off"
  BY IdentifyEffect
<1>2. /\ phase = "identify" /\ phase' = "transfer" /\ Running' /\ failure' = None
      /\ UNCHANGED <<rows, cache, probe, gone, returned>> /\ IfRange' = IfRange /\ Total' = Total
      /\ (Sound' <=> Sound) /\ (Steady' <=> Steady)
  BY DEF Identify, Running, outside, serverVars, IfRange, Total, Sound, Steady, Regrows
<1>3. Planned(rows, Total) /\ Total \in Nat \cup {Unknown} /\ Unknown \notin Nat /\ rows \in Seq(RowType)
  BY <1>2, ShapeTypes DEF Shape
<1>4. 1 \in DOMAIN rows => rows[1].start = 0
  BY DEF Shape
<1>5. FileLength'
  <2>1. Total = Unknown => 1 \in DOMAIN rows
    BY <1>3 DEF Planned
  <2>2. Total = Unknown => Len(cache) = rows[1].downloaded
    BY <1>2 DEF Contents, FileLength
  <2>3. Total # Unknown => Len(cache) <= Total
    BY <1>2 DEF Contents, FileLength
  <2> QED
    BY <1>1, <1>2, <2>1, <2>2, <2>3 DEF FileLength
<1>6. PiecesHold'
  <2> SUFFICES ASSUME Len(pieces') > 1, NEW i \in DOMAIN rows, NEW n \in 1..rows[i].downloaded
               PROVE  rows[i].start + n \in DOMAIN cache /\ cache[rows[i].start + n] = IfRange
    BY <1>1, <1>2 DEF PiecesHold
  <2>1. Total # Unknown
    BY <1>1, <1>3, Several DEF Planned
  <2> QED
    BY <1>1, <1>2, <2>1, Several, ResumedCell DEF Sound, In
<1>7. Fresh'
  BY <1>1 DEF Fresh
<1>8. PiecesWritten'
  BY <1>1, <1>2, ResumedCell DEF PiecesWritten
<1>9. OneSource'
  <2> SUFFICES ASSUME Single', Steady, IfRange # None, IfRange \notin gone
               PROVE  HoldsOnly(pieces[1].downloaded, IfRange)'
    BY <1>1, <1>2 DEF OneSource
  <2>1. 1 \in DOMAIN rows
    BY <1>1, <1>3 DEF Single
  <2>2. ASSUME NEW n \in 1..rows[1].downloaded PROVE n \in DOMAIN cache /\ cache[n] = IfRange
    <3>1. In(cache, rows[1].start + n) /\ cache[rows[1].start + n] = IfRange
      BY <1>2, <2>1, ResumedCell DEF Steady
    <3>2. rows[1].start + n = n
      BY <1>4, <2>1
    <3> QED
      BY <3>1, <3>2 DEF In
  <2> QED
    BY <1>1, <1>2, <2>1, <2>2 DEF HoldsOnly
<1>10. Finished'
  <2> SUFFICES ASSUME Single', Steady, Complete(pieces'[1])
               PROVE  Whole'
    BY <1>1, <1>2 DEF Finished
  <2>1. 1 \in DOMAIN rows /\ Len(rows) = 1
    BY <1>1, <1>3 DEF Single
  <2>2. rows[1].downloaded \in Nat /\ rows[1].end \in Nat /\ rows[1].start = 0
    <3>1. rows[1] \in RowType
      BY <1>3, <2>1, Indices
    <3> QED
      BY <1>4, <2>1, <3>1 DEF RowType
  <2>3. Total # Unknown
    BY <1>1, <1>3, <2>1, <2>2 DEF Complete
  <2>4. Total = rows[1].end + 1
    <3>1. Tiles(rows, Total) /\ rows # <<>>
      BY <1>3, <2>1, <2>3 DEF Planned
    <3> QED
      BY <2>1, <3>1 DEF Tiles
  <2>5. rows[1].downloaded = Total /\ Total > 0
    BY <1>1, <2>1, <2>2, <2>3, <2>4 DEF Complete
  <2>6. ASSUME NEW n \in 1..Total PROVE n \in DOMAIN cache /\ cache[n] = IfRange /\ IfRange # None
    <3>1. In(cache, rows[1].start + n) /\ cache[rows[1].start + n] = IfRange /\ IfRange # None
      BY <1>2, <2>1, <2>5, <2>6, ResumedCell DEF Steady
    <3>2. rows[1].start + n = n
      BY <2>2, <2>6, <2>5
    <3> QED
      BY <3>1, <3>2 DEF In
  <2>7. IfRange # None
    <3>1. 1 \in 1..Total
      BY <2>2, <2>4
    <3> QED
      BY <2>6, <3>1
  <2>8. IfRange \in Versions /\ Total = Size[IfRange]
    BY <2>3, <2>7, TotalIsSize
  <2> QED
    BY <1>1, <1>2, <2>1, <2>5, <2>6, <2>8 DEF Whole, HoldsOnly
<1> QED
  BY <1>5, <1>6, <1>7, <1>8, <1>9, <1>10 DEF Contents

(* A block that is kept stays kept while nobody writes it. *)
LEMMA KeptStays ==
  ASSUME NEW o, meta'.tag = meta.tag, meta'.length = meta.length, Len(rows') = Len(rows),
         Lost(meta.tag) => Lost(meta.tag)'
  PROVE  /\ Kept(cache, o) /\ (In(cache, o) => In(cache', o) /\ cache'[o] = cache[o]) => Kept(cache, o)'
         /\ Kept(disk, o) /\ disk' = disk => Kept(disk, o)'
         /\ Kept(cache, o) /\ disk' = cache => Kept(disk, o)'
<1>1. Kept(cache, o) /\ (In(cache, o) => In(cache', o) /\ cache'[o] = cache[o]) => Kept(cache, o)'
  BY DEF Kept, In, Regrows, Lost
<1>2. Kept(disk, o) /\ disk' = disk => Kept(disk, o)'
  BY DEF Kept, In, Regrows, Lost
<1>3. Kept(cache, o) /\ disk' = cache => Kept(disk, o)'
  BY DEF Kept, In, Regrows, Lost
<1> QED
  BY <1>1, <1>2, <1>3

(* A lost version stays lost. *)
LEMMA LostStays ==
  ASSUME gone \subseteq gone', returned => returned', meta'.tag = meta.tag,
         \/ phase' \notin {"prepare", "identify"}
         \/ probe' = probe /\ phase' = phase
  PROVE  Lost(meta.tag) => Lost(meta.tag)'
  BY DEF Lost, IfRange

(* The rows, their metadata and the file stay, or the file is what was seen. *)
LEMMA StorageStays ==
  ASSUME Control, Storage, UNCHANGED <<rows, cache>>, disk' = disk \/ disk' = cache,
         meta'.tag = meta.tag, meta'.length = meta.length,
         Lost(meta.tag) => Lost(meta.tag)',
         phase' = "identify" => phase = "identify" /\ UNCHANGED <<meta, probe>>,
         saving' = "idle" \/ UNCHANGED <<saving, snapshot, disk, probe>>
  PROVE  Storage'
<1>1. ResumedSame'
  BY DEF Storage, ResumedSame, NothingCounted
<1>2. RowsKept'
  <2> SUFFICES ASSUME ~NothingCounted
               PROVE  /\ Planned(rows, meta'.length)
                      /\ meta'.length # Unknown => Len(cache') <= meta'.length /\ Len(disk') <= meta'.length
                      /\ \A i \in DOMAIN rows : \A n \in 1..rows[i].downloaded :
                           Kept(cache, rows[i].start + n)' /\ Kept(disk, rows[i].start + n)'
    BY DEF RowsKept, NothingCounted
  <2>1. /\ Planned(rows, meta.length)
        /\ meta.length # Unknown => Len(cache) <= meta.length /\ Len(disk) <= meta.length
    BY DEF Storage, RowsKept
  <2>2. ASSUME NEW i \in DOMAIN rows, NEW n \in 1..rows[i].downloaded
        PROVE  Kept(cache, rows[i].start + n)' /\ Kept(disk, rows[i].start + n)'
    <3> DEFINE o == rows[i].start + n
    <3>1. Kept(cache, o) /\ Kept(disk, o) /\ o' = o
      BY <2>2 DEF Storage, RowsKept
    <3> HIDE DEF o
    <3>2. Kept(cache, o)' /\ Kept(disk, o)'
      BY <3>1, KeptStays
    <3> QED
      BY <3>2 DEF o
  <2> QED
    BY <2>1, <2>2
<1>3. SnapshotKept'
  <2>1. CASE saving' = "idle"
    BY <2>1 DEF SnapshotKept
  <2>2. CASE UNCHANGED <<saving, snapshot, disk, probe>>
    <3>1. ASSUME saving # "idle", NEW i \in DOMAIN snapshot, NEW n \in 1..snapshot[i]
          PROVE  Kept(cache, rows[i].start + n)'
      <4> DEFINE o == rows[i].start + n
      <4>1. Kept(cache, o) /\ o' = o
        BY <3>1 DEF Storage, SnapshotKept
      <4> HIDE DEF o
      <4>2. Kept(cache, o)'
        BY <4>1, KeptStays
      <4> QED
        BY <4>2 DEF o
    <3>2. ASSUME saving \in {"synced", "updated"}, NEW i \in DOMAIN snapshot, NEW n \in 1..snapshot[i]
          PROVE  Kept(disk, rows[i].start + n)'
      <4> DEFINE o == rows[i].start + n
      <4>1. Kept(disk, o) /\ o' = o
        BY <3>2 DEF Storage, SnapshotKept
      <4> HIDE DEF o
      <4>2. Kept(disk, o)'
        BY <2>2, <4>1, KeptStays
      <4> QED
        BY <4>2 DEF o
    <3>3. saving \in {"synced", "updated"} /\ Total # Unknown => Len(disk) <= Total
      BY DEF Storage, SnapshotKept
    <3> QED
      BY <2>2, <3>1, <3>2, <3>3 DEF SnapshotKept, Total
  <2> QED
    BY <2>1, <2>2
<1> QED
  BY <1>1, <1>2, <1>3 DEF Storage

(* Nothing is promised without rows. *)
LEMMA NothingStored ==
  ASSUME NothingCounted', saving' = "idle"
  PROVE  Storage'
  BY DEF Storage, ResumedSame, RowsKept, SnapshotKept

(* `prepare_payload` resumes what the metadata names, or resets the rows     *)
(* before the file; `write_resume_metadata` comes last.                      *)
LEMMA PrepareStorage ==
  ASSUME Control, Shape, Talks, Storage, Begin \/ Resume \/ ResetRows \/ Create \/ Identify
  PROVE  Storage'
<1>0. saving' = "idle" /\ saving = "idle" /\ ~Running
  <2>1. ~Running /\ saving' = saving
    BY DEF Begin, Resume, ResetRows, Create, Identify, Running, transferVars, saveVars
  <2> QED
    BY <2>1 DEF Control, Idle
<1>1. CASE Begin
  <2>1. /\ UNCHANGED <<rows, cache, disk, meta, gone, returned, server>> /\ phase' = "prepare"
        /\ probe' = [identity |-> Identity, ranged |-> server.ranges /\ Identity.tag # None]
    BY <1>1 DEF Begin, diskVars, serverVars
  <2>2. IfRange' = Tag(server.version)
    BY <2>1 DEF IfRange, Identity
  <2>3. Lost(meta.tag) => Lost(meta.tag)'
    <3> SUFFICES ASSUME meta.tag \in gone, ~returned PROVE IfRange' # meta.tag
      BY <2>1 DEF Lost
    <3>1. meta.tag \in Versions /\ meta.tag # None /\ meta.tag # server.version
      BY ShapeTypes DEF Talks, Identities
    <3> QED
      BY <2>2, <3>1 DEF Tag
  <2> QED
    BY <1>0, <2>1, <2>3, StorageStays
<1>2. CASE Resume
  <2>1. /\ UNCHANGED <<rows, disk, meta, probe, gone, returned>> /\ phase = "prepare" /\ phase' = "identify"
        /\ Resumable(rows, Total, probe.ranged, Len(cache)) /\ SameResource(meta, probe.identity)
        /\ cache' = IF Total = Unknown THEN SubSeq(cache, 1, rows[1].downloaded) ELSE cache
    BY <1>2 DEF Resume, Resumes, Goto, outside, serverVars
  <2>2. meta.tag = IfRange /\ meta.length = Total /\ meta' = meta
    BY <2>1 DEF SameResource, IfRange, Total
  <2>3. Lost(meta.tag) => Lost(meta.tag)'
    BY <2>1, <2>2 DEF Lost
  <2>4. ResumedSame'
    BY <2>1 DEF ResumedSame
  <2>5. ASSUME ~NothingCounted' PROVE RowsKept'
    <3>1. /\ Planned(rows, meta.length)
          /\ meta.length # Unknown => Len(cache) <= meta.length /\ Len(disk) <= meta.length
          /\ \A i \in DOMAIN rows : \A n \in 1..rows[i].downloaded :
                Kept(cache, rows[i].start + n) /\ Kept(disk, rows[i].start + n)
      BY <2>1, <2>5 DEF Storage, RowsKept, NothingCounted
    <3>2. ASSUME NEW i \in DOMAIN rows, NEW n \in 1..rows[i].downloaded
          PROVE  Kept(cache, rows[i].start + n)' /\ Kept(disk, rows[i].start + n)'
      <4> DEFINE o == rows[i].start + n
      <4>1. Kept(cache, o) /\ Kept(disk, o) /\ o' = o
        BY <2>1, <3>1, <3>2
      <4>2. In(cache, o) => In(cache', o) /\ cache'[o] = cache[o]
        <5>1. CASE Total = Unknown
          <6>1. Len(rows) = 1 /\ rows[1].downloaded \in 1..Len(cache) /\ i = 1 /\ rows[1].start = 0
            <7>1. Len(rows) = 1 /\ rows[1].downloaded \in 1..Len(cache)
              BY <2>1, <5>1 DEF Resumable
            <7>2. i = 1
              BY <7>1, ShapeTypes, Indices
            <7> QED
              BY <7>1, <7>2 DEF Shape
          <6>2. o = n /\ cache \in Seq(Versions \cup {Hole})
            BY <3>2, <6>1, ShapeTypes
          <6>3. n \in 1..rows[1].downloaded
            BY <3>2, <6>1
          <6> HIDE DEF o
          <6>4. cache' = SubSeq(cache, 1, rows[1].downloaded)
            BY <2>1, <5>1
          <6>5. n \in DOMAIN cache' /\ cache'[n] = cache[n]
            BY <6>1, <6>2, <6>3, <6>4
          <6> QED
            BY <6>2, <6>5 DEF In
        <5>2. CASE Total # Unknown
          BY <2>1, <5>2 DEF In
        <5> QED
          BY <5>1, <5>2
      <4> HIDE DEF o
      <4>3. Kept(cache, o)' /\ Kept(disk, o)'
        BY <2>1, <2>3, <4>1, <4>2, KeptStays
      <4> QED
        BY <4>3 DEF o
    <3>3. meta'.length # Unknown => Len(cache') <= meta'.length /\ Len(disk') <= meta'.length
      BY <2>1, <2>2, <3>1
    <3> QED
      BY <2>1, <3>1, <3>2, <3>3 DEF RowsKept
  <2> QED
    BY <1>0, <2>4, <2>5 DEF Storage, RowsKept, SnapshotKept
<1>3. CASE ResetRows
  <2>1. rows' = PlanPieces(Total, probe.ranged)
    BY <1>3 DEF ResetRows
  <2>2. NothingCounted'
    BY <2>1, PlanIsPlanned, ShapeTypes DEF NothingCounted
  <2> QED
    BY <1>0, <2>2, NothingStored
<1>4. CASE Create
  <2>1. rows' = rows /\ NothingCounted
    BY <1>4 DEF Create, Shape
  <2> QED
    BY <1>0, <2>1, NothingStored DEF NothingCounted
<1>5. CASE Identify
  <2>1. /\ UNCHANGED <<rows, cache, disk, gone, returned>> /\ phase = "identify" /\ phase' = "transfer"
        /\ meta' = probe.identity
    BY <1>5 DEF Identify, outside, serverVars
  <2>2. CASE NothingCounted
    BY <1>0, <2>1, <2>2, NothingStored DEF NothingCounted
  <2>3. CASE ~NothingCounted
    <3>1. meta'.tag = meta.tag /\ meta'.length = meta.length
      BY <2>1, <2>3 DEF Storage, ResumedSame, SameResource
    <3>2. Lost(meta.tag) => Lost(meta.tag)'
      BY <2>1, <3>1, LostStays
    <3> QED
      BY <1>0, <2>1, <3>1, <3>2, StorageStays
  <2> QED
    BY <2>2, <2>3
<1> QED
  BY <1>1, <1>2, <1>3, <1>4, <1>5

(* What a running transfer has counted is there. *)
LEMMA PieceKept ==
  ASSUME Control, Shape, Talks, Contents, Running,
         NEW i \in DOMAIN pieces, NEW n \in 1..pieces[i].downloaded
  PROVE  Kept(cache, rows[i].start + n)
<1>1. /\ meta.tag = IfRange /\ meta.length = Total /\ DOMAIN rows = DOMAIN pieces
      /\ pieces[i].start = rows[i].start
  BY DEF Shape, IfRange, Total
<1>2. Len(rows) = Len(pieces)
  BY <1>1, ShapeTypes, SameDomain
<1>3. \A t : Lost(t) <=> returned \/ t \in gone
  BY DEF Lost, Running
<1>4. Len(pieces) > 1 \/ Single
  BY PieceFacts
<1>5. CASE Len(pieces) > 1
  <2>1. In(cache, rows[i].start + n) /\ cache[rows[i].start + n] = meta.tag
    <3>1. rows[i].start + n \in DOMAIN cache /\ cache[rows[i].start + n] = IfRange
      BY <1>1, <1>5 DEF Contents, PiecesHold
    <3>2. IfRange # None
      BY <1>2, <1>5 DEF Shape
    <3>3. IfRange # Hole
      BY <3>2, ShapeTypes, TransferAssumption
    <3> QED
      BY <1>1, <3>1, <3>3 DEF In
  <2> QED
    BY <2>1 DEF Kept
<1>6. CASE Single /\ ~Sound
  BY <1>1, <1>2, <1>3, <1>6 DEF Kept, Sound, Single
<1>7. CASE Single /\ Sound /\ IfRange # None
  <2>1. i = 1 /\ pieces[i].start = 0 /\ rows[i].start + n = n
    <3>1. i = 1 /\ pieces[i].start = 0
      BY <1>7, PieceFacts
    <3> QED
      BY <1>1, <3>1
  <2>2. CASE IfRange \notin gone /\ ~returned
    <3>1. n \in DOMAIN cache /\ cache[n] = IfRange
      BY <1>7, <2>1, <2>2 DEF Contents, OneSource, HoldsOnly, Steady
    <3>2. IfRange # Hole
      BY <1>7, ShapeTypes, TransferAssumption
    <3> QED
      BY <1>1, <2>1, <3>1, <3>2 DEF Kept, In
  <2>3. CASE (IfRange \in gone \/ returned) /\ Total = Unknown
    BY <1>1, <1>2, <1>3, <1>7, <2>3 DEF Kept, Single
  <2>4. CASE (IfRange \in gone \/ returned) /\ Total # Unknown
    <3>1. In(cache, pieces[i].start + n)
      BY <1>7, <2>4 DEF Contents, PiecesWritten
    <3> QED
      BY <1>1, <1>2, <1>3, <1>7, <2>4, <3>1 DEF Kept, Single
  <2> QED
    BY <2>2, <2>3, <2>4
<1>8. CASE IfRange = None
  BY <1>1, <1>8 DEF Kept
<1> QED
  BY <1>4, <1>5, <1>6, <1>7, <1>8

(* A snapshot takes what is in the file. *)
LEMMA SnapshotStorage ==
  ASSUME Control, Shape, Talks, Contents, Storage, FinalCheckpoint \/ Tick
  PROVE  Storage'
<1>1. /\ UNCHANGED <<rows, cache, disk, meta, probe, gone, returned>> /\ Running /\ Running'
      /\ TakeSnapshot
  BY DEF FinalCheckpoint, Tick, Goto, outside, serverVars, diskVars, loopVars, Running
<1>2. phase' \notin {"prepare", "identify"}
  BY <1>1 DEF Running
<1>3. Lost(meta.tag) => Lost(meta.tag)'
  BY <1>1, <1>2, LostStays
<1>4. /\ DOMAIN snapshot' \subseteq DOMAIN pieces
      /\ \A i \in DOMAIN snapshot' : snapshot'[i] = pieces[i].downloaded
      /\ saving' \in {"idle", "taken"}
  BY <1>1, SnapshotEffect
<1>5. ASSUME NEW i \in DOMAIN snapshot', NEW n \in 1..snapshot'[i]
      PROVE  Kept(cache, rows[i].start + n)'
  <2> DEFINE o == rows[i].start + n
  <2>1. Kept(cache, o) /\ o' = o
    BY <1>1, <1>4, <1>5, PieceKept
  <2> HIDE DEF o
  <2>2. Kept(cache, o)'
    BY <1>1, <1>3, <2>1, KeptStays
  <2> QED
    BY <2>2 DEF o
<1>6. SnapshotKept'
  BY <1>4, <1>5 DEF SnapshotKept
<1>7. RowsKept'
  <2> SUFFICES ASSUME ~NothingCounted, NEW i \in DOMAIN rows, NEW n \in 1..rows[i].downloaded
               PROVE  Kept(cache, rows[i].start + n)' /\ Kept(disk, rows[i].start + n)'
    BY <1>1 DEF Storage, RowsKept, NothingCounted
  <2> DEFINE o == rows[i].start + n
  <2>1. Kept(cache, o) /\ Kept(disk, o) /\ o' = o
    BY <1>1 DEF Storage, RowsKept
  <2> HIDE DEF o
  <2>2. Kept(cache, o)' /\ Kept(disk, o)'
    BY <1>1, <1>3, <2>1, KeptStays
  <2> QED
    BY <2>2 DEF o
<1> QED
  BY <1>2, <1>6, <1>7 DEF Storage, ResumedSame

-----------------------------------------------------------------------------
(* The checkpoints and a crash *)

(* `sync_data` puts it on the disk. *)
LEMMA SyncStorage ==
  ASSUME Control, Shape, Contents, Storage, Sync
  PROVE  Storage'
<1>1. /\ UNCHANGED <<rows, cache, meta, probe, gone, returned, phase, snapshot>> /\ disk' = cache
      /\ saving = "taken" /\ saving' = "synced" /\ Running
  <2>1. saving # "idle"
    BY DEF Sync
  <2> QED
    BY <2>1 DEF Sync, outside, serverVars, loopVars, Control, Idle
<1>2. Lost(meta.tag) => Lost(meta.tag)'
  BY <1>1, LostStays
<1>3. RowsKept'
  <2> SUFFICES ASSUME ~NothingCounted, NEW i \in DOMAIN rows, NEW n \in 1..rows[i].downloaded
               PROVE  Kept(cache, rows[i].start + n)' /\ Kept(disk, rows[i].start + n)'
    BY <1>1 DEF Storage, RowsKept, NothingCounted
  <2> DEFINE o == rows[i].start + n
  <2>1. Kept(cache, o) /\ o' = o
    BY <1>1 DEF Storage, RowsKept
  <2> HIDE DEF o
  <2>2. Kept(cache, o)' /\ Kept(disk, o)'
    BY <1>1, <1>2, <2>1, KeptStays
  <2> QED
    BY <2>2 DEF o
<1>4. ASSUME NEW i \in DOMAIN snapshot, NEW n \in 1..snapshot[i]
      PROVE  Kept(cache, rows[i].start + n)' /\ Kept(disk, rows[i].start + n)'
  <2> DEFINE o == rows[i].start + n
  <2>1. Kept(cache, o) /\ o' = o
    BY <1>1, <1>4 DEF Storage, SnapshotKept
  <2> HIDE DEF o
  <2>2. Kept(cache, o)' /\ Kept(disk, o)'
    BY <1>1, <1>2, <2>1, KeptStays
  <2> QED
    BY <2>2 DEF o
<1>5. Total' # Unknown => Len(disk') <= Total'
  BY <1>1 DEF Contents, FileLength, Total
<1>6. SnapshotKept'
  BY <1>1, <1>4, <1>5 DEF SnapshotKept
<1>7. ResumedSame'
  BY <1>1 DEF Storage, ResumedSame, NothingCounted
<1> QED
  BY <1>3, <1>6, <1>7 DEF Storage

(* The rows promise no more than was synced. *)
LEMMA UpdateStorage ==
  ASSUME Control, Shape, Shape', Contents, Storage, Update
  PROVE  Storage'
<1>1. /\ UNCHANGED <<cache, disk, meta, probe, gone, returned, phase, snapshot>>
      /\ saving = "synced" /\ saving' = "updated" /\ Running /\ Running'
      /\ rows' = UpdateChunks(rows, snapshot)
  <2>1. saving # "idle"
    BY DEF Update
  <2> QED
    BY <2>1 DEF Update, outside, serverVars, loopVars, Control, Idle, Running
<1>2. Lost(meta.tag) => Lost(meta.tag)'
  BY <1>1, LostStays
<1>3. /\ DOMAIN rows' = DOMAIN rows /\ Len(rows') = Len(rows)
      /\ \A j \in DOMAIN rows :
           /\ rows'[j].start = rows[j].start
           /\ rows'[j].downloaded = IF j \in DOMAIN snapshot THEN snapshot[j] ELSE rows[j].downloaded
  BY <1>1, ShapeTypes, UpdateEffect
<1>4. meta = probe.identity /\ DOMAIN rows = DOMAIN pieces /\ meta.length = Total
      /\ Planned(rows', Total)
  <2>1. Planned(rows', Total') /\ Total' = Total
    BY <1>1 DEF Shape, Total
  <2> QED
    BY <1>1, <2>1 DEF Shape, Total
<1>5. ASSUME NEW o, Kept(cache, o), Kept(disk, o)
      PROVE  Kept(cache, o)' /\ Kept(disk, o)'
  BY <1>1, <1>2, <1>3, <1>5, KeptStays
<1>6. ASSUME NEW i \in DOMAIN rows, NEW n \in 1..rows'[i].downloaded
      PROVE  Kept(cache, rows[i].start + n) /\ Kept(disk, rows[i].start + n)
  <2>1. CASE i \in DOMAIN snapshot
    BY <1>1, <1>3, <1>6, <2>1 DEF Storage, SnapshotKept
  <2>2. CASE i \notin DOMAIN snapshot
    <3>1. n \in 1..rows[i].downloaded
      BY <1>3, <1>6, <2>2
    <3>2. rows[i].downloaded # 0
      BY <3>1
    <3>3. ~NothingCounted
      BY <3>2 DEF NothingCounted
    <3> QED
      BY <3>1, <3>3 DEF Storage, RowsKept
  <2> QED
    BY <2>1, <2>2
<1>7. ASSUME NEW i \in DOMAIN rows', NEW n \in 1..rows'[i].downloaded
      PROVE  Kept(cache, rows[i].start + n)' /\ Kept(disk, rows[i].start + n)'
  <2> DEFINE o == rows[i].start + n
  <2>1. Kept(cache, o) /\ Kept(disk, o) /\ o' = o
    BY <1>3, <1>6, <1>7
  <2> HIDE DEF o
  <2>2. Kept(cache, o)' /\ Kept(disk, o)'
    BY <1>5, <2>1
  <2> QED
    BY <2>2 DEF o
<1>8. Total # Unknown => Len(cache) <= Total /\ Len(disk) <= Total
  BY <1>1 DEF Contents, FileLength, Storage, SnapshotKept
<1>9. RowsKept'
  BY <1>1, <1>4, <1>7, <1>8 DEF RowsKept
<1>10. ASSUME NEW i \in DOMAIN snapshot, NEW n \in 1..snapshot[i]
       PROVE  Kept(cache, rows[i].start + n)' /\ Kept(disk, rows[i].start + n)'
  <2> DEFINE o == rows[i].start + n
  <2>0. i \in DOMAIN rows
    BY <1>4, ShapeTypes
  <2>1. Kept(cache, o) /\ Kept(disk, o) /\ o' = o
    BY <1>1, <1>3, <1>10, <2>0 DEF Storage, SnapshotKept
  <2> HIDE DEF o
  <2>2. Kept(cache, o)' /\ Kept(disk, o)'
    BY <1>5, <2>1
  <2> QED
    BY <2>2 DEF o
<1>11. SnapshotKept'
  BY <1>1, <1>8, <1>10 DEF SnapshotKept, Total
<1>12. ResumedSame'
  BY <1>1 DEF ResumedSame, Running
<1> QED
  BY <1>9, <1>11, <1>12 DEF Storage

(* After a crash the rows promise no more than is left. *)
LEMMA CrashStorage ==
  ASSUME Control, Storage, Crash
  PROVE  Storage'
<1>1. PICK f \in Survivors(cache, disk) : cache' = f /\ disk' = f
  BY DEF Crash
<1>2. /\ UNCHANGED <<rows, meta, gone, returned>> /\ phase' = "off" /\ saving' = "idle"
  BY DEF Crash, Dropped, outside, serverVars
<1>3. /\ f \in Seq(Versions \cup {Hole}) /\ Len(f) \in {Len(cache), Len(disk)}
      /\ cache \in Seq(Versions \cup {Hole}) /\ disk \in Seq(Versions \cup {Hole})
      /\ \A i \in 1..Len(f) : \/ i <= Len(cache) /\ f[i] = cache[i]
                              \/ f[i] = IF i <= Len(disk) THEN disk[i] ELSE Hole
  <2>1. cache \in Seq(Versions \cup {Hole}) /\ disk \in Seq(Versions \cup {Hole})
    BY ShapeTypes
  <2> QED
    BY <2>1, SurvivorsEffect
<1>4. Lost(meta.tag) => Lost(meta.tag)'
  BY <1>2, LostStays
<1>5. ASSUME NEW o, Kept(cache, o), Kept(disk, o) PROVE Kept(cache, o)' /\ Kept(disk, o)'
  <2>1. CASE In(cache, o) /\ In(disk, o)
    <3>1. In(f, o) /\ (f[o] = cache[o] \/ f[o] = disk[o])
      <4>1. o \in 1..Len(cache) /\ o \in 1..Len(disk) /\ cache[o] # Hole /\ disk[o] # Hole
        BY <1>3, <2>1 DEF In
      <4>2. o \in 1..Len(f) /\ o <= Len(disk)
        BY <1>3, <4>1
      <4>3. f[o] = cache[o] \/ f[o] = disk[o]
        BY <1>3, <4>2
      <4> QED
        BY <1>3, <4>1, <4>2, <4>3 DEF In
    <3> QED
      BY <1>1, <1>2, <1>4, <1>5, <2>1, <3>1 DEF Kept, In, Regrows
  <2>2. CASE ~(In(cache, o) /\ In(disk, o))
    BY <1>2, <1>4, <1>5, <2>2 DEF Kept, Regrows
  <2> QED
    BY <2>1, <2>2
<1>6. RowsKept'
  <2> SUFFICES ASSUME ~NothingCounted
               PROVE  /\ Planned(rows, meta.length)
                      /\ meta.length # Unknown => Len(f) <= meta.length
                      /\ \A i \in DOMAIN rows : \A n \in 1..rows[i].downloaded :
                           Kept(cache, rows[i].start + n)' /\ Kept(disk, rows[i].start + n)'
    BY <1>1, <1>2 DEF RowsKept, NothingCounted
  <2>1. /\ Planned(rows, meta.length)
        /\ meta.length # Unknown => Len(cache) <= meta.length /\ Len(disk) <= meta.length
    BY DEF Storage, RowsKept
  <2>2. ASSUME NEW i \in DOMAIN rows, NEW n \in 1..rows[i].downloaded
        PROVE  Kept(cache, rows[i].start + n)' /\ Kept(disk, rows[i].start + n)'
    <3> DEFINE o == rows[i].start + n
    <3>1. Kept(cache, o) /\ Kept(disk, o) /\ o' = o
      BY <1>2, <2>2 DEF Storage, RowsKept
    <3> HIDE DEF o
    <3>2. Kept(cache, o)' /\ Kept(disk, o)'
      BY <1>5, <3>1
    <3> QED
      BY <3>2 DEF o
  <2> QED
    BY <1>3, <2>1, <2>2
<1> QED
  BY <1>2, <1>6 DEF Storage, ResumedSame, SnapshotKept

-----------------------------------------------------------------------------
(* A step of a connection keeps Contents. *)
LEMMA ContentsConn ==
  ASSUME Control, Shape, Talks, Contents, NEW c \in Conns, ConnKind(c)
  PROVE  Contents'
  BY LengthConn, HoldConn, FreshConn, WrittenConn, SourceConn, FinishedConn DEF Contents

(* What the server has held is never forgotten. *)
LEMMA PastGrows ==
  ASSUME ServerChanges
  PROVE  gone \subseteq gone' /\ (returned => returned')
  BY DEF ServerChanges

(* Every step keeps Contents. *)
LEMMA ContentsNext ==
  ASSUME Control, Shape, Talks, Contents, Storage, [Next]_vars
  PROVE  Contents'
<1>1. CASE \/ Leave \/ FinalCheckpoint \/ Verify \/ Tick \/ Sync \/ Update
           \/ CheckpointFails \/ Cancel \/ ServerChanges \/ Idles
  <2>1. UNCHANGED <<cache, probe, pieces, conn, failure>>
    BY <1>1 DEF Leave, FinalCheckpoint, Verify, Tick, Sync, Update, CheckpointFails, Cancel,
                ServerChanges, Idles, Goto, diskVars, loopVars, transferVars
  <2>3. gone \subseteq gone' /\ (returned => returned')
    BY <1>1, PastGrows DEF Leave, FinalCheckpoint, Verify, Tick, Sync, Update, CheckpointFails,
                Cancel, Idles, outside, serverVars
  <2>2. (phase' = phase /\ rows' = rows) \/ (Running /\ Running')
    <3>1. CASE Leave \/ FinalCheckpoint \/ Verify \/ Tick
      BY <3>1 DEF Leave, FinalCheckpoint, Verify, Tick, Goto, loopVars, Running
    <3>2. CASE Update
      BY <3>2 DEF Update, loopVars, Running, Control, Idle
    <3>3. CASE Sync \/ CheckpointFails \/ Cancel \/ ServerChanges \/ Idles
      BY <3>3 DEF Sync, CheckpointFails, Cancel, ServerChanges, Idles, diskVars, loopVars
    <3> QED
      BY <1>1, <3>1, <3>2, <3>3
  <2> QED
    BY <2>1, <2>2, <2>3, ContentsStay
<1>2. CASE MarkSaved
  <2>1. UNCHANGED <<cache, probe, conn, failure, gone, returned, phase, rows>>
    BY <1>2 DEF MarkSaved, outside, serverVars, diskVars, loopVars
  <2> QED
    BY <1>2, <2>1, MarkSavedEffect, ContentsStay DEF SamePlace
<1>3. ASSUME NEW c \in Conns, Join(c) PROVE Contents'
  <2>1. UNCHANGED <<cache, probe, gone, returned, phase, rows, pieces>>
    BY <1>3 DEF Join, outside, serverVars, diskVars
  <2>2. /\ conn[c].at \in Ends
        /\ failure' = IF /\ conn[c].at \in {"failed", "cancelled"}
                         /\ failure \in {None, "cancelled"}
                      THEN conn[c].at ELSE failure
        /\ "failed" # None /\ "cancelled" # None
    BY <1>3 DEF Join, None
  <2>3. Alone(c) /\ conn'[c].at = "off"
    BY <1>3, JoinEffect
  <2>4. failure # None => failure' # None
    BY <2>2
  <2>5. conn[c].at \in {"failed", "cancelled"} => failure' # None
    BY <2>2
  <2> QED
    BY <2>1, <2>2, <2>3, <2>4, <2>5, ContentsStay DEF Alone
<1>4. CASE Publish \/ GiveUp \/ Crash
  <2>1. phase' \in {"off", "done"} /\ pieces' = <<>> /\ \A k \in Conns : conn'[k].at = "off"
    BY <1>4 DEF Publish, GiveUp, Crash, Dropped, NoConnection
  <2> QED
    BY <2>1, NoContents DEF Running
<1> QED
  BY <1>1, <1>2, <1>3, <1>4, PrepareContents, IdentifyContents, ContentsConn, NextKinds

(* Every step keeps Storage. *)
LEMMA StorageNext ==
  ASSUME Control, Shape, Talks, Contents, Storage, Shape', Contents', [Next]_vars
  PROVE  Storage'
<1>1. CASE Leave \/ Verify \/ CheckpointFails \/ Cancel \/ ServerChanges \/ Idles \/ MarkSaved
  <2>1. UNCHANGED <<rows, cache, disk, meta, probe>>
    BY <1>1 DEF Leave, Verify, CheckpointFails, Cancel, ServerChanges, Idles, MarkSaved,
                Goto, diskVars, loopVars
  <2>5. gone \subseteq gone' /\ (returned => returned')
    BY <1>1, PastGrows DEF Leave, Verify, CheckpointFails, Cancel, Idles, MarkSaved,
                outside, serverVars
  <2>2. phase' = phase \/ (Running /\ Running')
    BY <1>1 DEF Leave, Verify, CheckpointFails, Cancel, ServerChanges, Idles, MarkSaved,
                Goto, loopVars, Running
  <2>3. saving' = "idle" \/ UNCHANGED <<saving, snapshot>>
    BY <1>1 DEF Leave, Verify, CheckpointFails, Cancel, ServerChanges, Idles, MarkSaved,
                saveVars, transferVars
  <2>4. Lost(meta.tag) => Lost(meta.tag)'
    BY <2>1, <2>2, <2>5, LostStays DEF Running
  <2> QED
    BY <2>1, <2>2, <2>3, <2>4, StorageStays DEF Running
<1>2. ASSUME NEW c \in Conns, Join(c) PROVE Storage'
  <2>1. UNCHANGED <<rows, cache, disk, meta, probe, gone, returned, phase, saving, snapshot>>
    BY <1>2 DEF Join, outside, serverVars, diskVars, saveVars
  <2>2. Lost(meta.tag) => Lost(meta.tag)'
    BY <2>1, LostStays
  <2> QED
    BY <2>1, <2>2, StorageStays
<1>3. CASE Publish \/ GiveUp
  <2>1. /\ UNCHANGED <<rows, cache, meta, gone, returned>> /\ (disk' = disk \/ disk' = cache)
        /\ phase' \in {"off", "done"} /\ saving' = "idle"
    BY <1>3 DEF Publish, GiveUp, Dropped, outside, serverVars, diskVars
  <2>2. Lost(meta.tag) => Lost(meta.tag)'
    BY <2>1, LostStays
  <2> QED
    BY <2>1, <2>2, StorageStays
<1>4. ASSUME NEW c \in Conns, ConnKind(c) PROVE Storage'
  BY <1>4, StorageConn DEF Contents
<1> QED
  BY <1>1, <1>2, <1>3, <1>4, PrepareStorage, SnapshotStorage, SyncStorage, UpdateStorage,
     CrashStorage, NextKinds

(* The inductive invariant: none of its parts is inductive without those     *)
(* before it.                                                                *)
Consistent == Control /\ Shape /\ Talks /\ Contents /\ Storage

(* It holds at first. *)
LEMMA ConsistentInit ==
  ASSUME Init
  PROVE  Consistent
<1>1. Control /\ Shape /\ Talks
  BY InitControl, TalksInit
<1>2. pieces = <<>> /\ Len(pieces) = 0 /\ DOMAIN pieces = {} /\ rows = <<>> /\ DOMAIN rows = {}
      /\ phase = "off" /\ saving = "idle" /\ \A k \in Conns : conn[k].at = "off"
  BY DEF Init, NoConnection
<1>3. Contents
  BY <1>2 DEF Contents, FileLength, PiecesHold, Fresh, PiecesWritten, OneSource, Finished, Single, Running
<1>4. Storage
  BY <1>2 DEF Storage, ResumedSame, RowsKept, SnapshotKept, NothingCounted
<1> QED
  BY <1>1, <1>3, <1>4 DEF Consistent

(* Every step keeps it. *)
LEMMA ConsistentNext ==
  ASSUME Consistent, [Next]_vars
  PROVE  Consistent'
<1>1. Control' /\ Shape' /\ Talks'
  BY NextControl, ShapeNext, TalksNext DEF Consistent
<1>2. Contents'
  BY ContentsNext DEF Consistent
<1>3. Storage'
  BY <1>1, <1>2, StorageNext DEF Consistent
<1> QED
  BY <1>1, <1>2, <1>3 DEF Consistent

(* Consistent is an invariant of every transfer, crashes and changes of the  *)
(* server included.                                                          *)
THEOREM ConsistentIsInvariant == Spec => []Consistent
  BY ConsistentInit, ConsistentNext, PTL DEF Spec

(* Whatever the server does between two requests and wherever a crash falls, *)
(* the pieces of one body are never of two versions: each 206 is checked     *)
(* against the If-Range tag, and what is resumed against the saved identity  *)
(* (chunk.rs, worker.rs).                                                    *)
THEOREM PiecesHoldOneVersion == Spec => []PiecesAgree
<1>1. Consistent => PiecesAgree
  BY DEF Consistent, Contents, PiecesHold, PiecesAgree, IfRange
<1> QED
  BY <1>1, ConsistentIsInvariant, PTL

-----------------------------------------------------------------------------
(* What a published file holds *)

(* What a piece or a row about to be loaded counts was written to the file,  *)
(* also after a crash: `checkpoint` syncs the file before it updates the     *)
(* rows. For servers that do not make a resumable stream begin again, and    *)
(* that bring no replaced version back.                                      *)
THEOREM CountedIsWritten ==
  ASSUME ~Regrows
  PROVE  Spec /\ []~returned => []CountedBlocksAreWritten
<1>1. Consistent /\ ~returned => CountedBlocksAreWritten
  <2> SUFFICES ASSUME Consistent, ~returned PROVE CountedBlocksAreWritten
    OBVIOUS
  <2>0. Sound /\ rows \in Seq(RowType) /\ cache \in Seq(Versions \cup {Hole})
    BY ShapeTypes DEF Sound, Consistent
  <2>1. ASSUME NEW s \in Nat, NEW n \in Nat, In(cache, s + n)
        PROVE  Written(s + n - 1)
    BY <2>0, <2>1 DEF In, Written
  <2>2. ASSUME phase = "identify", NEW i \in DOMAIN rows, NEW n \in 1..rows[i].downloaded
        PROVE  Written(rows[i].start + n - 1)
    <3>1. In(cache, rows[i].start + n)
      BY <2>0, <2>2, ResumedCell DEF Consistent
    <3>2. rows[i] \in RowType
      BY <2>0, Indices
    <3>3. rows[i].start \in Nat /\ n \in Nat
      BY <3>2 DEF RowType
    <3> QED
      BY <2>1, <3>1, <3>3
  <2>3. ASSUME NEW i \in DOMAIN pieces, NEW n \in 1..pieces[i].downloaded
        PROVE  \/ Written(pieces[i].start + n - 1)
               \/ \E k \in Writers(i) : conn[k].at = "restart"
    <3>1. pieces[i].start \in Nat /\ n \in Nat
      BY PieceFacts DEF Consistent
    <3>2. CASE In(cache, pieces[i].start + n)
      BY <2>1, <3>1, <3>2
    <3>3. ASSUME NEW k \in Conns, conn[k].at = "restart", conn[k].piece = i
          PROVE  k \in Writers(i)
      BY <3>3 DEF Writers, Writing
    <3>4. \/ In(cache, pieces[i].start + n)
          \/ \E k \in Conns : conn[k].at = "restart" /\ conn[k].piece = i
      BY <2>0, <2>3 DEF Consistent, Contents, PiecesWritten
    <3> QED
      BY <3>2, <3>3, <3>4
  <2> QED
    BY <2>2, <2>3 DEF CountedBlocksAreWritten
<1> QED
  BY <1>1, ConsistentIsInvariant, PTL

(* What the rows of an interrupted transfer have is resumable, if the server *)
(* still serves it: `resumable` never refuses rows that a checkpoint saved.  *)
(* For the same servers.                                                     *)
THEOREM ProgressResumes ==
  ASSUME ~Regrows
  PROVE  Spec /\ []~returned => []SavedProgressResumes
<1>1. Consistent /\ ~returned => SavedProgressResumes
  <2> SUFFICES ASSUME Consistent, ~returned, phase = "off", meta.tag # None,
                      meta.length = Unknown => meta.tag = Tag(server.version),
                      NEW j \in DOMAIN rows, rows[j].downloaded > 0
               PROVE  Resumable(rows, meta.length, Len(rows) > 1, Len(cache))
    BY DEF SavedProgressResumes
  <2>0. /\ Control /\ Shape /\ Talks /\ Storage
        /\ rows \in Seq(RowType) /\ cache \in Seq(Versions \cup {Hole}) /\ Len(cache) \in Nat
        /\ meta.length \in Nat \cup {Unknown} /\ None \notin Versions
    BY ShapeTypes DEF Consistent
  <2>1. \A i \in DOMAIN rows : rows[i].downloaded \in Nat /\ rows[i].start \in Nat
    <3> SUFFICES ASSUME NEW i \in DOMAIN rows PROVE rows[i].downloaded \in Nat /\ rows[i].start \in Nat
      OBVIOUS
    <3>1. rows[i] \in RowType
      BY <2>0, Indices
    <3> QED
      BY <3>1 DEF RowType
  <2>2. ~NothingCounted
    BY <2>1 DEF NothingCounted
  <2>3. /\ Planned(rows, meta.length)
        /\ meta.length # Unknown => Len(cache) <= meta.length
        /\ \A i \in DOMAIN rows : \A n \in 1..rows[i].downloaded : Kept(cache, rows[i].start + n)
    BY <2>0, <2>2 DEF Storage, RowsKept
  <2>4. meta.length = Unknown => ~Lost(meta.tag)
    <3> SUFFICES ASSUME meta.length = Unknown PROVE meta.tag \notin gone
      BY DEF Lost
    <3>1. meta.tag = server.version
      BY DEF Tag
    <3> QED
      BY <2>0, <3>1 DEF Talks, Identities
  <2>5. ASSUME NEW i \in DOMAIN rows, rows[i].downloaded > 0
        PROVE  rows[i].start + rows[i].downloaded <= Len(cache)
    <3> DEFINE o == rows[i].start + rows[i].downloaded
    <3>1. rows[i].downloaded \in 1..rows[i].downloaded
      BY <2>1, <2>5
    <3>2. Kept(cache, o)
      BY <2>3, <3>1
    <3> HIDE DEF o
    <3>3. In(cache, o)
      BY <2>4, <3>2 DEF Kept
    <3> QED
      BY <2>0, <3>3 DEF In, o
  <2>6. CASE meta.length = Unknown
    <3>1. Len(rows) = 1 /\ j = 1 /\ rows[1].start = 0
      <4>1. Len(rows) = 1
        BY <2>3, <2>6 DEF Planned
      <4> QED
        BY <2>0, <4>1, Indices DEF Shape
    <3>2. rows[1].downloaded \in 1..Len(cache)
      BY <2>0, <2>1, <2>5, <3>1
    <3> QED
      BY <2>6, <3>1, <3>2 DEF Resumable
  <2>7. CASE meta.length # Unknown
    <3>1. Len(rows) > 1 \/ Len(rows) = 1
      BY <2>0, Indices
    <3> QED
      BY <2>3, <2>5, <2>7, <3>1 DEF Resumable, Planned
  <2> QED
    BY <2>6, <2>7
<1> QED
  BY <1>1, ConsistentIsInvariant, PTL

(* A file of one version, no longer than it, is that version. *)
LEMMA WholeFile ==
  ASSUME NEW f \in Seq(Versions \cup {Hole}), NEW y \in Versions, NEW m \in Nat,
         Len(f) <= m, \A n \in 1..m : n \in DOMAIN f /\ f[n] = y
  PROVE  f = [i \in 1..m |-> y]
<1>1. Len(f) = m
  <2>1. m \in 1..m => m <= Len(f)
    OBVIOUS
  <2> QED
    BY <2>1
<1>2. DOMAIN f = 1..m
  BY <1>1
<1> QED
  BY <1>2

(* None, one or several. *)
LEMMA HowMany ==
  ASSUME NEW n \in Nat
  PROVE  n = 0 \/ n = 1 \/ n > 1
  OBVIOUS

(* The file that `publish` moves is one version, from its first block to its *)
(* last.                                                                     *)
LEMMA PublishesWhole ==
  ASSUME ~Regrows, ~returned, Consistent, Publish
  PROVE  \E y \in Versions : cache = [i \in 1..Size[y] |-> y]
<1>0. /\ Control /\ Shape /\ Talks /\ Contents /\ Running /\ phase = "verify"
      /\ rows \in Seq(RowType) /\ pieces \in Seq(PieceType)
      /\ cache \in Seq(Versions \cup {Hole}) /\ Len(cache) \in Nat
      /\ Total \in Nat \cup {Unknown} /\ Unknown \notin Nat
  BY ShapeTypes DEF Consistent, Publish, Running
<1>1. Sound /\ Steady /\ failure = None /\ ~cancelled /\ \A k \in Conns : conn[k].at = "off"
  BY <1>0 DEF Publish, Verified, Sound, Steady, Control, Owned
<1>2. \A i \in DOMAIN pieces : Complete(pieces[i])
  BY <1>0, <1>1 DEF Talks, Stopping, AllComplete
<1>3. /\ Planned(rows, Total) /\ DOMAIN pieces = DOMAIN rows
      /\ \A i \in DOMAIN pieces : pieces[i].start = rows[i].start
      /\ Total # Unknown => \A i \in DOMAIN pieces : pieces[i].len = rows[i].end - rows[i].start + 1
      /\ Total # Unknown => Len(cache) <= Total
  BY <1>0 DEF Shape, RowLen, Contents, FileLength
<1>4. Len(rows) = Len(pieces)
  BY <1>0, <1>3, SameDomain
<1>5. \A i \in DOMAIN rows : rows[i].start \in Nat /\ rows[i].end \in Nat
  <2> SUFFICES ASSUME NEW i \in DOMAIN rows PROVE rows[i].start \in Nat /\ rows[i].end \in Nat
    OBVIOUS
  <2>1. rows[i] \in RowType
    BY <1>0, Indices
  <2> QED
    BY <2>1 DEF RowType
<1>6. CASE Single
  <2>1. 1 \in DOMAIN pieces /\ Len(rows) = 1
    BY <1>0, <1>4, <1>6 DEF Single
  <2>2. Whole
    <3>1. \A k \in Conns : conn[k].at \notin (Writing \ {"fetched"}) \cup {"failed", "cancelled"}
      BY <1>1 DEF Writing
    <3> QED
      BY <1>0, <1>1, <1>2, <1>6, <2>1, <3>1 DEF Contents, Finished
  <2>3. PICK y \in Versions : pieces[1].downloaded = Size[y] /\ HoldsOnly(Size[y], y)
    BY <2>2 DEF Whole
  <2>4. Size[y] \in Nat
    BY TransferAssumption
  <2>5. Len(cache) <= Size[y]
    <3>1. CASE Total = Unknown
      <4>1. \A k \in Conns : conn[k].at \notin {"restart", "written"}
        BY <1>1
      <4>2. Len(cache) = pieces[1].downloaded
        BY <1>0, <3>1, <4>1 DEF Contents, FileLength
      <4> QED
        BY <1>0, <2>3, <2>4, <4>2
    <3>2. CASE Total # Unknown
      <4>1. Total = rows[1].end + 1 /\ rows[1].start = 0
        <5>1. Tiles(rows, Total)
          BY <1>3, <3>2 DEF Planned
        <5>2. 1 \in DOMAIN rows
          BY <1>3, <2>1
        <5>3. rows # <<>>
          BY <2>1
        <5> QED
          BY <2>1, <5>1, <5>2, <5>3 DEF Tiles
      <4>2. pieces[1].downloaded = rows[1].end - rows[1].start + 1
        BY <1>2, <1>3, <2>1, <3>2 DEF Complete
      <4> QED
        BY <1>3, <1>5, <2>1, <2>3, <3>2, <4>1, <4>2
    <3> QED
      BY <3>1, <3>2
  <2>6. cache = [i \in 1..Size[y] |-> y]
    BY <1>0, <2>3, <2>4, <2>5, WholeFile DEF HoldsOnly
  <2> QED
    BY <2>6
<1>7. CASE Len(pieces) > 1
  <2>1. Total # Unknown /\ IfRange # None
    BY <1>0, <1>3, <1>4, <1>7, Several DEF Planned, Shape
  <2>2. IfRange \in Versions /\ Total = Size[IfRange] /\ Tiles(rows, Total) /\ Total \in Nat
    BY <1>0, <1>3, <2>1, TotalIsSize DEF Planned
  <2>3. ASSUME NEW n \in 1..Total PROVE n \in DOMAIN cache /\ cache[n] = IfRange
    <3>1. n - 1 \in Nat /\ n - 1 < Total
      BY <2>2, <2>3
    <3>2. PICK i \in DOMAIN rows : rows[i].start <= n - 1 /\ n - 1 <= rows[i].end
      BY <1>0, <2>2, <3>1, TilesCover
    <3> DEFINE q == n - rows[i].start
    <3>3. pieces[i].downloaded = rows[i].end - rows[i].start + 1
      BY <1>2, <1>3, <2>1, <3>2 DEF Complete
    <3>4. q \in 1..pieces[i].downloaded /\ pieces[i].start + q = n
      BY <1>3, <1>5, <3>1, <3>2, <3>3
    <3> HIDE DEF q
    <3>5. pieces[i].start + q \in DOMAIN cache /\ cache[pieces[i].start + q] = IfRange
      BY <1>0, <1>3, <1>7, <3>4 DEF Contents, PiecesHold
    <3> QED
      BY <3>4, <3>5
  <2>4. cache = [i \in 1..Size[IfRange] |-> IfRange]
    BY <1>0, <1>3, <2>1, <2>2, <2>3, WholeFile
  <2> QED
    BY <2>2, <2>4
<1>8. CASE Len(pieces) = 0
  <2>1. rows = <<>> /\ Total # Unknown
    BY <1>0, <1>3, <1>4, <1>8 DEF Planned
  <2>2. Total = 0
    BY <1>3, <2>1 DEF Planned, Tiles
  <2>3. PICK y \in Versions : Size[y] = Total
    BY <1>0, <2>1 DEF Talks, Identities
  <2>4. cache = [i \in 1..Size[y] |-> y]
    <3>1. \A n \in 1..Size[y] : n \in DOMAIN cache /\ cache[n] = y
      BY <2>2, <2>3
    <3>2. Len(cache) <= Size[y] /\ Size[y] \in Nat
      BY <1>3, <2>1, <2>2, <2>3
    <3> QED
      BY <1>0, <3>1, <3>2, WholeFile
  <2> QED
    BY <2>4
<1>9. Len(pieces) = 0 \/ Len(pieces) = 1 \/ Len(pieces) > 1
  <2>1. Len(pieces) \in Nat
    BY <1>0
  <2> QED
    BY <2>1, HowMany
<1> QED
  BY <1>6, <1>7, <1>8, <1>9 DEF Single

(* Every step keeps DeliveredWhole. *)
LEMMA DeliveredNext ==
  ASSUME ~Regrows, ~returned, Consistent, DeliveredWhole, [Next]_vars
  PROVE  DeliveredWhole'
<1>1. CASE Publish
  <2>1. delivered' = {cache}
    BY <1>1 DEF Publish
  <2> QED
    BY <1>1, <2>1, PublishesWhole DEF DeliveredWhole
<1>2. CASE \/ Begin \/ Resume \/ ResetRows \/ Create \/ Identify \/ Leave \/ FinalCheckpoint
           \/ Verify \/ GiveUp \/ Tick \/ Sync \/ Update \/ MarkSaved
           \/ CheckpointFails \/ Cancel \/ Crash \/ ServerChanges \/ Idles
  <2>1. delivered' = delivered
    BY <1>2 DEF Begin, Resume, ResetRows, Create, Identify, Leave, FinalCheckpoint,
           Verify, GiveUp, Tick, Sync, Update, MarkSaved,
           CheckpointFails, Cancel, Crash, ServerChanges, Idles, diskVars
  <2> QED
    BY <2>1 DEF DeliveredWhole
<1>3. ASSUME NEW c \in Conns, Join(c) \/ ConnKind(c) PROVE DeliveredWhole'
  <2>1. delivered' = delivered
    BY <1>3, ConnKindFrame DEF Join, diskVars, ConnFrame, Consistent
  <2> QED
    BY <2>1 DEF DeliveredWhole
<1> QED
  BY <1>1, <1>2, <1>3, NextKinds DEF Consistent

(* A published file is one version of the resource, whole: no mixture, no    *)
(* hole, no byte too many or too few, through retries, refused ranges,       *)
(* checkpoints, crashes and a resource that is replaced meanwhile. For the   *)
(* same servers.                                                             *)
THEOREM DeliversWhole ==
  ASSUME ~Regrows
  PROVE  Spec /\ []~returned => []DeliveredWhole
<1>1. Init => DeliveredWhole
  BY DEF Init, DeliveredWhole
<1>2. ~returned /\ Consistent /\ DeliveredWhole /\ [Next]_vars => DeliveredWhole'
  BY DeliveredNext
<1> QED
  BY <1>1, <1>2, ConsistentIsInvariant, PTL DEF Spec
=============================================================================
